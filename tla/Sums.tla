-------------------------------- MODULE Sums --------------------------------
(***************************************************************************)
(* What the sums of the models compute.  SumFunctionOnSet of the community *)
(* modules folds + over a set by choosing one element after another; these *)
(* lemmas say that the order of choosing does not matter.  Induction over  *)
(* finite sets is by a minimal counterexample (WFMin).                     *)
(***************************************************************************)
EXTENDS Integers, FiniteSets, Functions, FiniteSetTheorems, WellFoundedInduction, TLAPS

(* Any element of a set, the same one every time.                          *)
Pick(s) == CHOOSE x \in s : TRUE

(* iter is what the fold over the subsets of S is defined to be.           *)
Sums(iter, f, S) ==
  iter = [s \in SUBSET S |-> IF s = {} THEN 0 ELSE f[Pick(s)] + iter[s \ {Pick(s)}]]

LEMMA PickIsIn == \A s : s # {} => Pick(s) \in s
BY DEF Pick

(* A set of finite subsets of S has one that contains no other.            *)
IsSmallest(t, C) == \A u : u \subseteq t /\ u # t => u \notin C

LEMMA SmallestSubset ==
  ASSUME NEW S, NEW C, C \subseteq SUBSET S, \A t \in C : IsFiniteSet(t), C # {}
  PROVE  \E t \in C : IsSmallest(t, C)
<1>1. C \subseteq FiniteSubsetsOf(S)
  BY DEF FiniteSubsetsOf
<1>2. PICK t \in C : \A u \in C : <<u, t>> \notin StrictSubsetOrdering(S)
  BY <1>1, FS_StrictSubsetOrderingWellFounded, WFMin, Zenon
<1>3. IsSmallest(t, C)
  BY <1>2 DEF StrictSubsetOrdering, IsSmallest
<1>. QED
  BY <1>3

(* Induction over the subsets of a finite set, for a property given by the *)
(* set of those that have it.                                              *)
LEMMA SubsetInduction ==
  ASSUME NEW S, IsFiniteSet(S), NEW Good, {} \in Good,
         \A s \in SUBSET S : s # {} /\ s \ {Pick(s)} \in Good => s \in Good
  PROVE  \A s \in SUBSET S : s \in Good
<1>. DEFINE Bad == {s \in SUBSET S : s \notin Good}
<1>1. SUFFICES ASSUME Bad # {} PROVE FALSE
  OBVIOUS
<1>2. Bad \subseteq SUBSET S /\ \A u \in Bad : IsFiniteSet(u)
  BY FS_Subset
<1>3. PICK s \in Bad : IsSmallest(s, Bad)
  BY <1>1, <1>2, SmallestSubset
<1>4. s # {}
  OBVIOUS
<1>. QED
  BY <1>3, <1>4, PickIsIn DEF IsSmallest

(* Two folds of one function agree wherever both are defined.              *)
LEMMA SumsAgree ==
  ASSUME NEW S, IsFiniteSet(S), NEW f, NEW s \in SUBSET S, NEW t \in SUBSET S,
         NEW g, NEW h, Sums(g, f, s), Sums(h, f, t)
  PROVE  \A u \in SUBSET (s \cap t) : g[u] = h[u]
<1>. DEFINE Bad == {u \in SUBSET (s \cap t) : g[u] # h[u]}
<1>1. SUFFICES ASSUME Bad # {} PROVE FALSE
  OBVIOUS
<1>2. Bad \subseteq SUBSET S /\ \A u \in Bad : IsFiniteSet(u)
  BY FS_Subset
<1>3. PICK u \in Bad : IsSmallest(u, Bad)
  BY <1>1, <1>2, SmallestSubset
<1>4. u # {} => g[u] = f[Pick(u)] + g[u \ {Pick(u)}] /\ h[u] = f[Pick(u)] + h[u \ {Pick(u)}]
  BY DEF Sums
<1>5. u # {}
  BY DEF Sums
<1>6. u \ {Pick(u)} \notin Bad
  BY <1>3, <1>5, PickIsIn DEF IsSmallest
<1>. QED
  BY <1>4, <1>5, <1>6

(* There is such a fold: a smallest set without one would have one, put    *)
(* together from those of its parts.                                       *)
LEMMA SumsExist ==
  ASSUME NEW S, IsFiniteSet(S), NEW f
  PROVE  \A s \in SUBSET S : \E iter : Sums(iter, f, s)
<1>. DEFINE Bad == {s \in SUBSET S : ~ \E iter : Sums(iter, f, s)}
<1>1. SUFFICES ASSUME Bad # {} PROVE FALSE
  OBVIOUS
<1>2. Bad \subseteq SUBSET S /\ \A u \in Bad : IsFiniteSet(u)
  BY FS_Subset
<1>3. PICK s \in Bad : IsSmallest(s, Bad)
  BY <1>1, <1>2, SmallestSubset
<1>. DEFINE Of(u) == CHOOSE iter : Sums(iter, f, u)
            whole == [t \in SUBSET s |-> IF t = {} THEN 0 ELSE f[Pick(t)] + Of(t \ {Pick(t)})[t \ {Pick(t)}]]
<1>4. \A u \in (SUBSET s) \ {s} : Sums(Of(u), f, u)
  BY <1>3 DEF IsSmallest
<1>5. \A u \in (SUBSET s) \ {s} : whole[u] = Of(u)[u]
  <2>. SUFFICES ASSUME NEW u \in (SUBSET s) \ {s} PROVE whole[u] = Of(u)[u]
    OBVIOUS
  <2>1. Of(u)[u] = IF u = {} THEN 0 ELSE f[Pick(u)] + Of(u)[u \ {Pick(u)}]
    BY <1>4 DEF Sums
  <2>2. CASE u = {}
    BY <2>1, <2>2
  <2>3. CASE u # {}
    <3>. DEFINE rest == u \ {Pick(u)}
    <3>1. rest \in (SUBSET s) \ {s} /\ u \in SUBSET S /\ rest \in SUBSET S
      BY <2>3, PickIsIn
    <3>2. Sums(Of(u), f, u) /\ Sums(Of(rest), f, rest)
      BY <1>4, <3>1
    <3>. HIDE DEF Of
    <3>3. Of(u)[rest] = Of(rest)[rest]
      BY <3>1, <3>2, SumsAgree
    <3>. QED
      BY <2>1, <2>3, <3>3
  <2>. QED
    BY <2>2, <2>3
<1>6. \A t \in SUBSET s : t # {} => t \ {Pick(t)} \in (SUBSET s) \ {s}
  BY PickIsIn
<1>7. whole = [t \in SUBSET s |-> IF t = {} THEN 0 ELSE f[Pick(t)] + whole[t \ {Pick(t)}]]
  <2>1. \A t \in SUBSET s : t # {} => whole[t \ {Pick(t)}] = Of(t \ {Pick(t)})[t \ {Pick(t)}]
    BY <1>5, <1>6
  <2>. HIDE DEF Of
  <2>. QED
    BY <2>1
<1>. QED
  BY <1>3, <1>7 DEF Sums

-----------------------------------------------------------------------------
(* What it means: nothing for no elements, and any element taken out.      *)

LEMMA SumIs ==
  ASSUME NEW S, IsFiniteSet(S), NEW f
  PROVE  \A s \in SUBSET S : \A iter : Sums(iter, f, S) => SumFunctionOnSet(f, s) = iter[s]
<1>. SUFFICES ASSUME NEW s \in SUBSET S, NEW iter, Sums(iter, f, S)
              PROVE  SumFunctionOnSet(f, s) = iter[s]
  OBVIOUS
<1>. DEFINE fold == CHOOSE it : Sums(it, f, s)
<1>1. SumFunctionOnSet(f, s) = fold[s]
  BY DEF SumFunctionOnSet, FoldFunctionOnSet, MapThenFoldSet, Sums, Pick
<1>2. Sums(fold, f, s)
  BY SumsExist
<1>. HIDE DEF fold
<1>3. fold[s] = iter[s]
  BY <1>2, SumsAgree
<1>. QED
  BY <1>1, <1>3

LEMMA SumOfNone == \A f : SumFunctionOnSet(f, {}) = 0
<1>. TAKE f
<1>1. PICK iter : Sums(iter, f, {})
  BY SumsExist, FS_EmptySet
<1>2. SumFunctionOnSet(f, {}) = iter[{}]
  BY <1>1, SumIs, FS_EmptySet
<1>. QED
  BY <1>1, <1>2 DEF Sums

LEMMA SumPicked ==
  ASSUME NEW S, IsFiniteSet(S), S # {}, NEW f
  PROVE  SumFunctionOnSet(f, S) = f[Pick(S)] + SumFunctionOnSet(f, S \ {Pick(S)})
<1>1. PICK iter : Sums(iter, f, S)
  BY SumsExist
<1>2. iter[S] = f[Pick(S)] + iter[S \ {Pick(S)}]
  BY <1>1 DEF Sums
<1>. QED
  BY <1>1, <1>2, SumIs

LEMMA SumIsInt ==
  ASSUME NEW S, IsFiniteSet(S), NEW f, \A x \in S : f[x] \in Int
  PROVE  \A s \in SUBSET S : SumFunctionOnSet(f, s) \in Int
<1>. DEFINE Good == {s \in SUBSET S : SumFunctionOnSet(f, s) \in Int}
<1>1. {} \in Good
  BY SumOfNone
<1>2. ASSUME NEW s \in SUBSET S, s # {}, s \ {Pick(s)} \in Good PROVE s \in Good
  <2>1. IsFiniteSet(s) /\ Pick(s) \in S
    BY <1>2, FS_Subset, PickIsIn
  <2>2. SumFunctionOnSet(f, s) = f[Pick(s)] + SumFunctionOnSet(f, s \ {Pick(s)})
    BY <1>2, <2>1, SumPicked
  <2>. QED
    BY <1>2, <2>1, <2>2
<1>3. \A s \in SUBSET S : s \in Good
  <2>. HIDE DEF Good
  <2>. QED
    BY <1>1, <1>2, SubsetInduction
<1>. QED
  BY <1>3

LEMMA SumTakeOut ==
  ASSUME NEW S, IsFiniteSet(S), NEW f, \A x \in S : f[x] \in Int, NEW x \in S
  PROVE  SumFunctionOnSet(f, S) = f[x] + SumFunctionOnSet(f, S \ {x})
<1>. DEFINE Sum(s) == SumFunctionOnSet(f, s)
            Bad == {s \in SUBSET S : \E y \in s : Sum(s) # f[y] + Sum(s \ {y})}
<1>1. SUFFICES ASSUME Bad # {} PROVE FALSE
  OBVIOUS
<1>2. Bad \subseteq SUBSET S /\ \A s \in SUBSET S : IsFiniteSet(s)
  BY FS_Subset
<1>3. PICK s \in Bad : IsSmallest(s, Bad)
  BY <1>1, <1>2, SmallestSubset
<1>4. PICK y \in s : Sum(s) # f[y] + Sum(s \ {y})
  BY <1>3
<1>. DEFINE z == Pick(s)
<1>5. z \in s /\ Sum(s) = f[z] + Sum(s \ {z})
  BY <1>2, <1>4, PickIsIn, SumPicked
<1>6. \A u \in SUBSET s : Sum(u) \in Int
  BY SumIsInt
<1>. HIDE DEF z, Sum
<1>7. z # y
  BY <1>4, <1>5
<1>8. s \ {z} \notin Bad /\ s \ {y} \notin Bad
  BY <1>3, <1>4, <1>5 DEF IsSmallest
<1>9. Sum(s \ {z}) = f[y] + Sum((s \ {z}) \ {y})
  BY <1>4, <1>7, <1>8
<1>10. Sum(s \ {y}) = f[z] + Sum((s \ {y}) \ {z})
  BY <1>5, <1>7, <1>8
<1>11. (s \ {z}) \ {y} = (s \ {y}) \ {z}
  OBVIOUS
<1>12. Sum((s \ {y}) \ {z}) \in Int /\ f[y] \in Int /\ f[z] \in Int
  BY <1>4, <1>5, <1>6
<1>13. f[z] + (f[y] + Sum((s \ {y}) \ {z})) = f[y] + (f[z] + Sum((s \ {y}) \ {z}))
  BY <1>12
<1>. QED
  BY <1>4, <1>5, <1>9, <1>10, <1>11, <1>13

-----------------------------------------------------------------------------
(* What sums are compared by.                                              *)

LEMMA SumIsNat ==
  ASSUME NEW S, IsFiniteSet(S), NEW f, \A x \in S : f[x] \in Nat
  PROVE  \A s \in SUBSET S : SumFunctionOnSet(f, s) \in Nat
<1>. DEFINE Good == {s \in SUBSET S : SumFunctionOnSet(f, s) \in Nat}
<1>1. {} \in Good
  BY SumOfNone
<1>2. ASSUME NEW s \in SUBSET S, s # {}, s \ {Pick(s)} \in Good PROVE s \in Good
  <2>1. IsFiniteSet(s) /\ Pick(s) \in S
    BY <1>2, FS_Subset, PickIsIn
  <2>2. SumFunctionOnSet(f, s) = f[Pick(s)] + SumFunctionOnSet(f, s \ {Pick(s)})
    BY <1>2, <2>1, SumPicked
  <2>. QED
    BY <1>2, <2>1, <2>2
<1>3. \A s \in SUBSET S : s \in Good
  <2>. HIDE DEF Good
  <2>. QED
    BY <1>1, <1>2, SubsetInduction
<1>. QED
  BY <1>3

(* Equal summands make equal sums.                                         *)
LEMMA SumOfEquals ==
  ASSUME NEW S, IsFiniteSet(S), NEW f, NEW g, \A x \in S : f[x] = g[x]
  PROVE  SumFunctionOnSet(f, S) = SumFunctionOnSet(g, S)
<1>. DEFINE Good == {s \in SUBSET S : SumFunctionOnSet(f, s) = SumFunctionOnSet(g, s)}
<1>1. {} \in Good
  BY SumOfNone
<1>2. ASSUME NEW s \in SUBSET S, s # {}, s \ {Pick(s)} \in Good PROVE s \in Good
  <2>1. IsFiniteSet(s) /\ Pick(s) \in S
    BY <1>2, FS_Subset, PickIsIn
  <2>2. SumFunctionOnSet(f, s) = f[Pick(s)] + SumFunctionOnSet(f, s \ {Pick(s)})
    BY <1>2, <2>1, SumPicked
  <2>3. SumFunctionOnSet(g, s) = g[Pick(s)] + SumFunctionOnSet(g, s \ {Pick(s)})
    BY <1>2, <2>1, SumPicked
  <2>. QED
    BY <1>2, <2>1, <2>2, <2>3
<1>3. \A s \in SUBSET S : s \in Good
  <2>. HIDE DEF Good
  <2>. QED
    BY <1>1, <1>2, SubsetInduction
<1>. QED
  BY <1>3

(* Larger summands make larger sums.                                       *)
LEMMA SumIsMonotone ==
  ASSUME NEW S, IsFiniteSet(S), NEW f, NEW g, \A x \in S : f[x] \in Int /\ g[x] \in Int /\ f[x] <= g[x]
  PROVE  SumFunctionOnSet(f, S) <= SumFunctionOnSet(g, S)
<1>. DEFINE Good == {s \in SUBSET S : SumFunctionOnSet(f, s) <= SumFunctionOnSet(g, s)}
<1>1. {} \in Good
  BY SumOfNone
<1>2. ASSUME NEW s \in SUBSET S, s # {}, s \ {Pick(s)} \in Good PROVE s \in Good
  <2>1. IsFiniteSet(s) /\ Pick(s) \in S /\ s \ {Pick(s)} \in SUBSET S
    BY <1>2, FS_Subset, PickIsIn
  <2>2. SumFunctionOnSet(f, s) = f[Pick(s)] + SumFunctionOnSet(f, s \ {Pick(s)})
    BY <1>2, <2>1, SumPicked
  <2>3. SumFunctionOnSet(g, s) = g[Pick(s)] + SumFunctionOnSet(g, s \ {Pick(s)})
    BY <1>2, <2>1, SumPicked
  <2>4. SumFunctionOnSet(f, s \ {Pick(s)}) \in Int /\ SumFunctionOnSet(g, s \ {Pick(s)}) \in Int
    BY <2>1, SumIsInt
  <2>. QED
    BY <1>2, <2>1, <2>2, <2>3, <2>4
<1>3. \A s \in SUBSET S : s \in Good
  <2>. HIDE DEF Good
  <2>. QED
    BY <1>1, <1>2, SubsetInduction
<1>. QED
  BY <1>3

(* Adding summands adds sums.                                              *)
LEMMA SumOfSums ==
  ASSUME NEW S, IsFiniteSet(S), NEW f, NEW g, NEW h,
         \A x \in S : f[x] \in Int /\ g[x] \in Int /\ h[x] = f[x] + g[x]
  PROVE  SumFunctionOnSet(h, S) = SumFunctionOnSet(f, S) + SumFunctionOnSet(g, S)
<1>. DEFINE Good == {s \in SUBSET S :
                       SumFunctionOnSet(h, s) = SumFunctionOnSet(f, s) + SumFunctionOnSet(g, s)}
<1>1. {} \in Good
  BY SumOfNone
<1>2. ASSUME NEW s \in SUBSET S, s # {}, s \ {Pick(s)} \in Good PROVE s \in Good
  <2>1. IsFiniteSet(s) /\ Pick(s) \in S /\ s \ {Pick(s)} \in SUBSET S
    BY <1>2, FS_Subset, PickIsIn
  <2>2. SumFunctionOnSet(f, s) = f[Pick(s)] + SumFunctionOnSet(f, s \ {Pick(s)})
    BY <1>2, <2>1, SumPicked
  <2>3. SumFunctionOnSet(g, s) = g[Pick(s)] + SumFunctionOnSet(g, s \ {Pick(s)})
    BY <1>2, <2>1, SumPicked
  <2>4. SumFunctionOnSet(h, s) = h[Pick(s)] + SumFunctionOnSet(h, s \ {Pick(s)})
    BY <1>2, <2>1, SumPicked
  <2>5. SumFunctionOnSet(f, s \ {Pick(s)}) \in Int /\ SumFunctionOnSet(g, s \ {Pick(s)}) \in Int
    BY <2>1, SumIsInt
  <2>. QED
    BY <1>2, <2>1, <2>2, <2>3, <2>4, <2>5
<1>3. \A s \in SUBSET S : s \in Good
  <2>. HIDE DEF Good
  <2>. QED
    BY <1>1, <1>2, SubsetInduction
<1>. QED
  BY <1>3

(* Weighing every summand by the same number weighs the sum.               *)
LEMMA SumOfMultiples ==
  ASSUME NEW S, IsFiniteSet(S), NEW f, NEW g, NEW k \in Int,
         \A x \in S : f[x] \in Int /\ g[x] = k * f[x]
  PROVE  SumFunctionOnSet(g, S) = k * SumFunctionOnSet(f, S)
<1>. DEFINE Good == {s \in SUBSET S : SumFunctionOnSet(g, s) = k * SumFunctionOnSet(f, s)}
<1>1. {} \in Good
  BY SumOfNone
<1>2. ASSUME NEW s \in SUBSET S, s # {}, s \ {Pick(s)} \in Good PROVE s \in Good
  <2>1. IsFiniteSet(s) /\ Pick(s) \in S /\ s \ {Pick(s)} \in SUBSET S
    BY <1>2, FS_Subset, PickIsIn
  <2>2. SumFunctionOnSet(f, s) = f[Pick(s)] + SumFunctionOnSet(f, s \ {Pick(s)})
    BY <1>2, <2>1, SumPicked
  <2>3. SumFunctionOnSet(g, s) = g[Pick(s)] + SumFunctionOnSet(g, s \ {Pick(s)})
    BY <1>2, <2>1, SumPicked
  <2>4. SumFunctionOnSet(f, s \ {Pick(s)}) \in Int
    BY <2>1, SumIsInt
  <2>5. \A a, b \in Int : k * a + k * b = k * (a + b)
    OBVIOUS
  <2>. QED
    BY <1>2, <2>1, <2>2, <2>3, <2>4, <2>5
<1>3. \A s \in SUBSET S : s \in Good
  <2>. HIDE DEF Good
  <2>. QED
    BY <1>1, <1>2, SubsetInduction
<1>. QED
  BY <1>3

LEMMA SumOfZeros ==
  ASSUME NEW S, IsFiniteSet(S), NEW f, \A x \in S : f[x] = 0
  PROVE  SumFunctionOnSet(f, S) = 0
<1>1. SumFunctionOnSet(f, S) = 0 * SumFunctionOnSet(f, S) /\ SumFunctionOnSet(f, S) \in Int
  BY SumOfMultiples, SumIsInt
<1>. QED
  BY <1>1

(* The number of elements is the sum of a one for each.                    *)
LEMMA SumOfOnes ==
  ASSUME NEW S, IsFiniteSet(S), NEW f, \A x \in S : f[x] = 1
  PROVE  SumFunctionOnSet(f, S) = Cardinality(S)
<1>. DEFINE Good == {s \in SUBSET S : SumFunctionOnSet(f, s) = Cardinality(s)}
<1>1. {} \in Good
  BY SumOfNone, FS_EmptySet
<1>2. ASSUME NEW s \in SUBSET S, s # {}, s \ {Pick(s)} \in Good PROVE s \in Good
  <2>1. IsFiniteSet(s) /\ Pick(s) \in s
    BY <1>2, FS_Subset, PickIsIn
  <2>2. SumFunctionOnSet(f, s) = f[Pick(s)] + SumFunctionOnSet(f, s \ {Pick(s)})
    BY <1>2, <2>1, SumPicked
  <2>3. Cardinality(s \ {Pick(s)}) = Cardinality(s) - 1 /\ Cardinality(s) \in Nat
    BY <2>1, FS_RemoveElement, FS_CardinalityType
  <2>. QED
    BY <1>2, <2>1, <2>2, <2>3
<1>3. \A s \in SUBSET S : s \in Good
  <2>. HIDE DEF Good
  <2>. QED
    BY <1>1, <1>2, SubsetInduction
<1>. QED
  BY <1>3

(* How many there are in sets that share nothing is how many in each.      *)
LEMMA SumOfCardinalities ==
  ASSUME NEW S, IsFiniteSet(S), NEW F, \A x \in S : IsFiniteSet(F[x]),
         \A x, y \in S : x # y => F[x] \cap F[y] = {},
         NEW f, \A x \in S : f[x] = Cardinality(F[x])
  PROVE  SumFunctionOnSet(f, S) = Cardinality(UNION {F[x] : x \in S})
<1>. DEFINE All(s) == UNION {F[x] : x \in s}
            Good == {s \in SUBSET S : IsFiniteSet(All(s)) /\ SumFunctionOnSet(f, s) = Cardinality(All(s))}
<1>1. {} \in Good
  <2>1. All({}) = {}
    OBVIOUS
  <2>. QED
    BY <2>1, SumOfNone, FS_EmptySet
<1>2. ASSUME NEW s \in SUBSET S, s # {}, s \ {Pick(s)} \in Good PROVE s \in Good
  <2>. DEFINE x == Pick(s)
  <2>1. IsFiniteSet(s) /\ x \in s
    BY <1>2, FS_Subset, PickIsIn
  <2>2. SumFunctionOnSet(f, s) = f[x] + SumFunctionOnSet(f, s \ {x})
    BY <1>2, <2>1, SumPicked
  <2>. HIDE DEF x
  <2>3. All(s) = F[x] \cup All(s \ {x})
    BY <2>1
  <2>4. F[x] \cap All(s \ {x}) = {}
    BY <2>1
  <2>5. IsFiniteSet(All(s \ {x})) /\ SumFunctionOnSet(f, s \ {x}) = Cardinality(All(s \ {x}))
    BY <1>2 DEF x
  <2>6. IsFiniteSet(F[x]) /\ f[x] = Cardinality(F[x])
    BY <2>1
  <2>. HIDE DEF All
  <2>7. IsFiniteSet(All(s)) /\ Cardinality(All(s)) = Cardinality(F[x]) + Cardinality(All(s \ {x})) - Cardinality({})
    <3>1. PICK A, B : A = F[x] /\ B = All(s \ {x})
      OBVIOUS
    <3>2. IsFiniteSet(A) /\ IsFiniteSet(B) /\ A \cap B = {} /\ All(s) = A \cup B
      BY <2>3, <2>4, <2>5, <2>6, <3>1
    <3>3. IsFiniteSet(A \cup B) /\ Cardinality(A \cup B) = Cardinality(A) + Cardinality(B) - Cardinality({})
      BY <3>2, FS_Union
    <3>. QED
      BY <3>1, <3>2, <3>3
  <2>8. Cardinality(F[x]) \in Nat /\ Cardinality(All(s \ {x})) \in Nat /\ Cardinality({}) = 0
    BY <2>5, <2>6, FS_CardinalityType, FS_EmptySet
  <2>. QED
    BY <2>2, <2>5, <2>6, <2>7, <2>8
<1>3. \A s \in SUBSET S : s \in Good
  <2>. HIDE DEF Good
  <2>. QED
    BY <1>1, <1>2, SubsetInduction
<1>. QED
  BY <1>3
=============================================================================
