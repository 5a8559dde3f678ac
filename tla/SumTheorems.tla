----------------------------- MODULE SumTheorems ----------------------------
(***************************************************************************)
(* What the models' sums over finite sets compute, for every finite set:   *)
(* the scheduler adds up what decisions have assigned, the controller what *)
(* members report, the gateway its weights.  Each of those sums is a fold  *)
(* of the community modules that picks elements in an order of its own, so *)
(* the facts a proof needs (a sum does not depend on that order, it grows  *)
(* with its terms, ...) hold by induction.                                 *)
(*                                                                         *)
(* The induction theorems of the library take a predicate as a parameter,  *)
(* which the provers cannot instantiate.  Here an induction is about a set *)
(* instead: it holds everything once it holds whatever all smaller things  *)
(* being in it entail, since a counterexample could be chosen minimal      *)
(* (theorem WFMin, which has no such parameter).  In the same way a finite *)
(* set with an order on it has a last element.                             *)
(***************************************************************************)
EXTENDS FiniteSetsExt, FiniteSetTheorems, TLAPS

Below == {p \in Nat \X Nat : p[1] < p[2]}

LEMMA BelowIsWellFounded == IsWellFoundedOn(Below, Nat)
  <1>1. Below = OpToRel(<, Nat)
    BY Zenon DEF Below, OpToRel
  <1> QED
    BY <1>1, NatLessThanWellFounded, Zenon

\* Every set of natural numbers that is not empty has a least element.
LEMMA LeastNumber ==
  ASSUME NEW S \in SUBSET Nat, S # {}
  PROVE  \E n \in S : \A k \in S : n <= k
  <1>1. PICK n \in S : \A k \in S : ~ (<<k, n>> \in Below)
    BY BelowIsWellFounded, WFMin
  <1>2. ASSUME NEW k \in S PROVE n <= k
    <2>1. n \in Nat /\ k \in Nat
      OBVIOUS
    <2>2. k < n => <<k, n>> \in Below
      BY <2>1 DEF Below
    <2> QED
      BY <1>1, <2>1, <2>2
  <1> QED
    BY <1>2

\* Induction over the natural numbers.
LEMMA NumbersByInduction ==
  ASSUME NEW Good, 0 \in Good, \A n \in Nat : n \in Good => n + 1 \in Good
  PROVE  \A n \in Nat : n \in Good
  <1> DEFINE Bad == {n \in Nat : n \notin Good}
  <1>1. SUFFICES ASSUME Bad # {} PROVE FALSE
    OBVIOUS
  <1>2. Bad \in SUBSET Nat
    OBVIOUS
  <1>3. PICK n \in Bad : \A k \in Bad : n <= k
    <2> HIDE DEF Bad
    <2> QED
      BY <1>1, <1>2, LeastNumber
  <1>4. n \in Nat /\ n # 0
    BY <1>3
  <1>5. n - 1 \in Nat /\ n - 1 + 1 = n
    BY <1>4
  <1>6. n - 1 \in Bad
    BY <1>3, <1>5
  <1>7. n <= n - 1
    BY <1>3, <1>6
  <1> QED
    BY <1>4, <1>7

\* Induction over the subsets of a finite set.
LEMMA SubsetsByInduction ==
  ASSUME NEW S, IsFiniteSet(S), NEW Good,
         \A T \in SUBSET S : (\A U \in SUBSET T : U # T => U \in Good) => T \in Good
  PROVE  \A T \in SUBSET S : T \in Good
  <1> DEFINE Bad == {T \in SUBSET S : T \notin Good}
             R == StrictSubsetOrdering(S)
             D == SUBSET S
  <1>1. SUFFICES ASSUME Bad # {} PROVE FALSE
    OBVIOUS
  <1>2. IsWellFoundedOn(R, D)
    BY FS_StrictSubsetOrderingWellFounded, FS_FiniteSubsetsOfFinite
  <1>3. Bad \subseteq D
    OBVIOUS
  <1>4. \E T \in Bad : \A U \in Bad : ~ (<<U, T>> \in R)
    <2> HIDE DEF Bad, R, D
    <2> QED
      BY <1>1, <1>2, <1>3, WFMin
  <1>5. PICK T \in Bad : \A U \in Bad : ~ (<<U, T>> \in R)
    BY <1>4
  <1>6. ASSUME NEW U \in SUBSET T, U # T PROVE U \in Good
    <2>1. U \in D /\ T \in D
      BY <1>5, <1>6
    <2>2. <<U, T>> \in R
      BY <1>6, <2>1 DEF StrictSubsetOrdering
    <2> QED
      BY <1>5, <2>1, <2>2
  <1> QED
    BY <1>5, <1>6

\* The form most sums need: what holds of {} and survives one more element.
LEMMA SubsetsOneByOne ==
  ASSUME NEW S, IsFiniteSet(S), NEW Good, {} \in Good,
         \A T \in SUBSET S : \A x \in T : T \ {x} \in Good => T \in Good
  PROVE  \A T \in SUBSET S : T \in Good
  <1>1. ASSUME NEW T \in SUBSET S, \A U \in SUBSET T : U # T => U \in Good
        PROVE  T \in Good
    <2>1. CASE T = {}
      BY <2>1
    <2>2. ASSUME T # {} PROVE T \in Good
      <3>1. PICK x \in T : TRUE
        BY <2>2
      <3>2. T \ {x} \in SUBSET T /\ T \ {x} # T
        BY <3>1
      <3> QED
        BY <1>1, <3>1, <3>2
    <2> QED
      BY <2>1, <2>2
  <1> QED
    BY <1>1, SubsetsByInduction

-----------------------------------------------------------------------------
SumOf(f, S) == MapThenSumSet(LAMBDA x : f[x], S)

Pick(S) == CHOOSE x \in S : TRUE
Folded(g, f, S) ==
    [T \in SUBSET S |-> IF T = {} THEN 0 ELSE f[Pick(T)] + g[T \ {Pick(T)}]]
Iterated(f, S) == CHOOSE g : g = Folded(g, f, S)

LEMMA SumIsIterated == \A f, S : SumOf(f, S) = Iterated(f, S)[S]
  BY DEF SumOf, MapThenSumSet, MapThenFoldSet, Pick, Folded, Iterated

\* The recursion equation has one solution only.
LEMMA FoldedIsUnique ==
  ASSUME NEW f, NEW S, IsFiniteSet(S),
         NEW g, g = Folded(g, f, S), NEW h, h = Folded(h, f, S)
  PROVE  g[S] = h[S]
  <1> DEFINE Good == {T \in SUBSET S : g[T] = h[T]}
  <1>1. ASSUME NEW T \in SUBSET S, \A U \in SUBSET T : U # T => U \in Good
        PROVE  T \in Good
    <2>1. /\ g[T] = IF T = {} THEN 0 ELSE f[Pick(T)] + g[T \ {Pick(T)}]
          /\ h[T] = IF T = {} THEN 0 ELSE f[Pick(T)] + h[T \ {Pick(T)}]
      BY DEF Folded
    <2>2. CASE T = {}
      BY <2>1, <2>2
    <2>3. ASSUME T # {} PROVE g[T \ {Pick(T)}] = h[T \ {Pick(T)}]
      <3>1. Pick(T) \in T
        BY <2>3 DEF Pick
      <3> QED
        BY <1>1, <3>1
    <2> QED
      BY <2>1, <2>2, <2>3
  <1>2. \A T \in SUBSET S : T \in Good
    <2> HIDE DEF Good
    <2> QED
      BY <1>1, SubsetsByInduction
  <1> QED
    BY <1>2

\* The equation a sum satisfies: one element is picked, the others are summed.
LEMMA SumUnfolds ==
  ASSUME NEW f, NEW S, IsFiniteSet(S)
  PROVE  SumOf(f, S) = IF S = {} THEN 0 ELSE f[Pick(S)] + SumOf(f, S \ {Pick(S)})
  <1> DEFINE Unfolded(T) == IF T = {} THEN 0 ELSE f[Pick(T)] + SumOf(f, T \ {Pick(T)})
             Good == {T \in SUBSET S : SumOf(f, T) = Unfolded(T)}
  <1>1. ASSUME NEW T \in SUBSET S, \A U \in SUBSET T : U # T => U \in Good
        PROVE  T \in Good
    <2> DEFINE h == [U \in SUBSET T |-> Unfolded(U)]
    <2>1. h = Folded(h, f, T)
      <3>1. ASSUME NEW U \in SUBSET T, U # {}
            PROVE  h[U \ {Pick(U)}] = SumOf(f, U \ {Pick(U)})
        <4>1. Pick(U) \in U
          BY <3>1 DEF Pick
        <4>2. U \ {Pick(U)} \in SUBSET T /\ U \ {Pick(U)} # T
          BY <4>1
        <4>3. U \ {Pick(U)} \in Good
          BY <1>1, <4>2
        <4> QED
          BY <4>2, <4>3
      <3>2. \A U \in SUBSET T :
              h[U] = IF U = {} THEN 0 ELSE f[Pick(U)] + h[U \ {Pick(U)}]
        BY <3>1
      <3> QED
        BY <3>2 DEF Folded
    <2> HIDE DEF h
    <2>2. Iterated(f, T) = Folded(Iterated(f, T), f, T)
      BY <2>1 DEF Iterated
    <2>3. IsFiniteSet(T)
      BY FS_Subset
    <2>4. Iterated(f, T)[T] = h[T]
      BY <2>1, <2>2, <2>3, FoldedIsUnique
    <2>5. SumOf(f, T) = h[T]
      BY <2>4, SumIsIterated
    <2> QED
      BY <2>5 DEF h
  <1>2. \A T \in SUBSET S : T \in Good
    <2> HIDE DEF Good
    <2> QED
      BY <1>1, SubsetsByInduction
  <1> QED
    BY <1>2

LEMMA SumOfNothing == \A f : SumOf(f, {}) = 0
  BY SumUnfolds, FS_EmptySet

\* Another element may be taken first.
LEMMA SumTakesOut ==
  ASSUME NEW S, IsFiniteSet(S), NEW f, \A y \in S : f[y] \in Int
  PROVE  /\ SumOf(f, S) \in Int
         /\ \A x \in S : SumOf(f, S) = f[x] + SumOf(f, S \ {x})
  <1> DEFINE Good == {T \in SUBSET S :
                        /\ SumOf(f, T) \in Int
                        /\ \A x \in T : SumOf(f, T) = f[x] + SumOf(f, T \ {x})}
  <1>1. ASSUME NEW T \in SUBSET S, \A U \in SUBSET T : U # T => U \in Good
        PROVE  T \in Good
    <2>1. CASE T = {}
      BY <2>1, SumOfNothing
    <2>2. ASSUME T # {} PROVE T \in Good
      <3> DEFINE c == Pick(T)
      <3>1. c \in T
        BY <2>2 DEF Pick
      <3> HIDE DEF c
      <3>2. IsFiniteSet(T)
        BY FS_Subset
      <3>3. SumOf(f, T) = f[c] + SumOf(f, T \ {c})
        BY <2>2, <3>2, SumUnfolds DEF c
      <3>4. \A U \in SUBSET T : U # T => SumOf(f, U) \in Int
        BY <1>1
      <3>5. T \ {c} \in SUBSET T /\ T \ {c} # T
        BY <3>1
      <3>6. SumOf(f, T \ {c}) \in Int /\ f[c] \in Int
        BY <3>1, <3>4, <3>5
      <3>7. ASSUME NEW x \in T PROVE SumOf(f, T) = f[x] + SumOf(f, T \ {x})
        <4>1. CASE x = c
          BY <3>3, <4>1
        <4>2. ASSUME x # c PROVE SumOf(f, T) = f[x] + SumOf(f, T \ {x})
          <5> DEFINE rest == T \ {c, x}
          <5>1. T \ {x} \in SUBSET T /\ T \ {x} # T
            OBVIOUS
          <5>2. /\ x \in T \ {c} /\ (T \ {c}) \ {x} = rest
                /\ c \in T \ {x} /\ (T \ {x}) \ {c} = rest
            BY <3>1, <4>2
          <5>3. SumOf(f, T \ {c}) = f[x] + SumOf(f, rest)
            BY <1>1, <3>5, <5>2
          <5>4. SumOf(f, T \ {x}) = f[c] + SumOf(f, rest)
            BY <1>1, <5>1, <5>2
          <5>5. SumOf(f, rest) \in Int
            <6>1. rest \in SUBSET T /\ rest # T
              OBVIOUS
            <6> QED
              BY <3>4, <6>1
          <5>6. f[x] \in Int
            OBVIOUS
          <5> HIDE DEF rest
          <5> QED
            BY <3>3, <3>6, <5>3, <5>4, <5>5, <5>6
        <4> QED
          BY <4>1, <4>2
      <3>8. SumOf(f, T) \in Int
        BY <3>3, <3>6
      <3> QED
        BY <3>7, <3>8
    <2> QED
      BY <2>1, <2>2
  <1>2. \A T \in SUBSET S : T \in Good
    <2> HIDE DEF Good
    <2> QED
      BY <1>1, SubsetsByInduction
  <1> QED
    BY <1>2

\* A sum is at most another one whose terms are at least its own.
LEMMA SumAtMost ==
  ASSUME NEW S, IsFiniteSet(S), NEW f, NEW g,
         \A x \in S : f[x] \in Int /\ g[x] \in Int /\ f[x] <= g[x]
  PROVE  SumOf(f, S) <= SumOf(g, S)
  <1> DEFINE Good == {T \in SUBSET S : SumOf(f, T) <= SumOf(g, T)}
  <1>1. {} \in Good
    BY SumOfNothing
  <1>2. ASSUME NEW T \in SUBSET S, NEW x \in T, T \ {x} \in Good PROVE T \in Good
    <2>1. IsFiniteSet(T) /\ IsFiniteSet(T \ {x})
      BY FS_Subset
    <2>2. /\ SumOf(f, T) = f[x] + SumOf(f, T \ {x})
          /\ SumOf(g, T) = g[x] + SumOf(g, T \ {x})
      BY <2>1, SumTakesOut
    <2>3. SumOf(f, T \ {x}) \in Int /\ SumOf(g, T \ {x}) \in Int
      BY <2>1, SumTakesOut
    <2>4. SumOf(f, T \ {x}) <= SumOf(g, T \ {x})
      BY <1>2
    <2> QED
      BY <2>2, <2>3, <2>4
  <1>3. \A T \in SUBSET S : T \in Good
    <2> HIDE DEF Good
    <2> QED
      BY <1>1, <1>2, SubsetsOneByOne
  <1> QED
    BY <1>3

\* Only the terms count.
LEMMA SumOfSame ==
  ASSUME NEW S, IsFiniteSet(S), NEW f, NEW g,
         \A x \in S : f[x] \in Int /\ f[x] = g[x]
  PROVE  SumOf(f, S) = SumOf(g, S)
  <1>1. SumOf(f, S) <= SumOf(g, S) /\ SumOf(g, S) <= SumOf(f, S)
    BY SumAtMost
  <1>2. SumOf(f, S) \in Int /\ SumOf(g, S) \in Int
    BY SumTakesOut
  <1> QED
    BY <1>1, <1>2

\* Terms that are no less than 0 add up to no less than 0, and to no less than
\* each one of them.
LEMMA SumIsNatural ==
  ASSUME NEW S, IsFiniteSet(S), NEW f, \A x \in S : f[x] \in Nat
  PROVE  SumOf(f, S) \in Nat
  <1> DEFINE Good == {T \in SUBSET S : SumOf(f, T) \in Nat}
  <1>1. {} \in Good
    BY SumOfNothing
  <1>2. ASSUME NEW T \in SUBSET S, NEW x \in T, T \ {x} \in Good PROVE T \in Good
    <2>1. IsFiniteSet(T)
      BY FS_Subset
    <2>2. SumOf(f, T) = f[x] + SumOf(f, T \ {x})
      BY <2>1, SumTakesOut
    <2> QED
      BY <1>2, <2>2
  <1>3. \A T \in SUBSET S : T \in Good
    <2> HIDE DEF Good
    <2> QED
      BY <1>1, <1>2, SubsetsOneByOne
  <1> QED
    BY <1>3

LEMMA SumOfZeros ==
  ASSUME NEW S, IsFiniteSet(S), NEW f, \A x \in S : f[x] = 0
  PROVE  SumOf(f, S) = 0
  <1> DEFINE Good == {T \in SUBSET S : SumOf(f, T) = 0}
  <1>1. {} \in Good
    BY SumOfNothing
  <1>2. ASSUME NEW T \in SUBSET S, NEW x \in T, T \ {x} \in Good PROVE T \in Good
    <2>1. IsFiniteSet(T)
      BY FS_Subset
    <2>2. SumOf(f, T) = f[x] + SumOf(f, T \ {x})
      BY <2>1, SumTakesOut
    <2> QED
      BY <1>2, <2>2
  <1>3. \A T \in SUBSET S : T \in Good
    <2> HIDE DEF Good
    <2> QED
      BY <1>1, <1>2, SubsetsOneByOne
  <1> QED
    BY <1>3

\* The sum over a part of a set is no more than the whole.
LEMMA SumOfPart ==
  ASSUME NEW S, IsFiniteSet(S), NEW f, \A x \in S : f[x] \in Nat, NEW P \in SUBSET S
  PROVE  SumOf(f, P) <= SumOf(f, S)
  <1> DEFINE Good == {T \in SUBSET S : SumOf(f, P \cap T) <= SumOf(f, T)}
  <1>1. {} \in Good
    <2>1. P \cap {} = {}
      OBVIOUS
    <2> QED
      BY <2>1, SumOfNothing
  <1>2. ASSUME NEW T \in SUBSET S, NEW x \in T, T \ {x} \in Good PROVE T \in Good
    <2>1. IsFiniteSet(T) /\ IsFiniteSet(T \ {x}) /\ IsFiniteSet(P \cap T)
      BY FS_Subset
    <2>2. SumOf(f, T) = f[x] + SumOf(f, T \ {x})
      BY <2>1, SumTakesOut
    <2>3. SumOf(f, T \ {x}) \in Nat /\ SumOf(f, P \cap T) \in Nat /\ f[x] \in Nat
      BY <2>1, SumIsNatural
    <2>4. CASE x \notin P
      <3>1. P \cap T = P \cap (T \ {x})
        BY <2>4
      <3> QED
        BY <1>2, <2>2, <2>3, <3>1
    <2>5. CASE x \in P
      <3>1. x \in P \cap T /\ (P \cap T) \ {x} = P \cap (T \ {x})
        BY <2>5
      <3>2. SumOf(f, P \cap T) = f[x] + SumOf(f, P \cap (T \ {x}))
        BY <2>1, <3>1, SumTakesOut
      <3>3. IsFiniteSet(P \cap (T \ {x}))
        BY FS_Subset
      <3>4. SumOf(f, P \cap (T \ {x})) \in Nat
        BY <3>3, SumIsNatural
      <3> QED
        BY <1>2, <2>2, <2>3, <3>2, <3>4
    <2> QED
      BY <2>4, <2>5
  <1>3. \A T \in SUBSET S : T \in Good
    <2> HIDE DEF Good
    <2> QED
      BY <1>1, <1>2, SubsetsOneByOne
  <1>4. P \cap S = P
    OBVIOUS
  <1> QED
    BY <1>3, <1>4

\* Functions are added term by term.
LEMMA SumOfTwo ==
  ASSUME NEW S, IsFiniteSet(S), NEW f, NEW g, NEW h,
         \A x \in S : f[x] \in Int /\ g[x] \in Int /\ h[x] = f[x] + g[x]
  PROVE  SumOf(h, S) = SumOf(f, S) + SumOf(g, S)
  <1> DEFINE Good == {T \in SUBSET S : SumOf(h, T) = SumOf(f, T) + SumOf(g, T)}
  <1>1. {} \in Good
    BY SumOfNothing
  <1>2. ASSUME NEW T \in SUBSET S, NEW x \in T, T \ {x} \in Good PROVE T \in Good
    <2>1. IsFiniteSet(T) /\ IsFiniteSet(T \ {x})
      BY FS_Subset
    <2>2. /\ f[x] \in Int /\ g[x] \in Int /\ h[x] \in Int
          /\ \A y \in T : f[y] \in Int /\ g[y] \in Int /\ h[y] \in Int
      OBVIOUS
    <2>3. /\ SumOf(f, T) = f[x] + SumOf(f, T \ {x})
          /\ SumOf(g, T) = g[x] + SumOf(g, T \ {x})
          /\ SumOf(h, T) = h[x] + SumOf(h, T \ {x})
      BY <2>1, <2>2, SumTakesOut
    <2>4. SumOf(f, T \ {x}) \in Int /\ SumOf(g, T \ {x}) \in Int
      BY <2>1, <2>2, SumTakesOut
    <2>5. SumOf(h, T \ {x}) = SumOf(f, T \ {x}) + SumOf(g, T \ {x})
      BY <1>2
    <2>6. h[x] = f[x] + g[x]
      OBVIOUS
    <2> QED
      BY <2>2, <2>3, <2>4, <2>5, <2>6
  <1>3. \A T \in SUBSET S : T \in Good
    <2> HIDE DEF Good
    <2> QED
      BY <1>1, <1>2, SubsetsOneByOne
  <1> QED
    BY <1>3

\* A sum has a bound in the number of its summands.
LEMMA SumBounded ==
  ASSUME NEW S, IsFiniteSet(S), NEW f, NEW k \in Int, \A x \in S : f[x] \in Int /\ f[x] <= k
  PROVE  SumOf(f, S) <= k * Cardinality(S)
  <1> DEFINE Good == {U \in SUBSET S : SumOf(f, U) <= k * Cardinality(U)}
  <1>1. {} \in Good
    <2>1. SumOf(f, {}) = 0 /\ Cardinality({}) = 0
      BY SumOfNothing, FS_EmptySet
    <2> QED
      BY <2>1
  <1>2. ASSUME NEW U \in SUBSET S, NEW x \in U, U \ {x} \in Good
        PROVE  U \in Good
    <2> DEFINE V == U \ {x}
               n == Cardinality(V)
    <2>1. IsFiniteSet(U) /\ IsFiniteSet(V)
      BY FS_Subset
    <2>2. n \in Nat /\ Cardinality(U) = n + 1
      <3>1. Cardinality(V) = Cardinality(U) - 1
        BY <2>1, FS_RemoveElement
      <3>2. Cardinality(U) \in Nat /\ Cardinality(V) \in Nat
        BY <2>1, FS_CardinalityType
      <3> HIDE DEF V
      <3> QED
        BY <3>1, <3>2
    <2>3. SumOf(f, U) = f[x] + SumOf(f, V) /\ SumOf(f, V) \in Int
      BY <2>1, SumTakesOut
    <2>4. SumOf(f, V) <= k * n /\ f[x] \in Int /\ f[x] <= k
      BY <1>2
    <2> HIDE DEF V, n
    <2>5. k * (n + 1) = k * n + k /\ k * n \in Int
      BY <2>2
    <2>6. SumOf(f, U) <= k * Cardinality(U)
      BY <2>2, <2>3, <2>4, <2>5
    <2> QED
      BY <2>6
  <1>3. \A U \in SUBSET S : U \in Good
    <2>1. \A U \in SUBSET S : \A x \in U : U \ {x} \in Good => U \in Good
      BY <1>2
    <2> HIDE DEF Good
    <2> QED
      BY <1>1, <2>1, SubsetsOneByOne
  <1> QED
    BY <1>3

-----------------------------------------------------------------------------
(* Orders on finite sets.                                                   *)

\* R is a set of pairs that orders S: of two elements one comes before the other.
IsOrder(R, S) ==
    /\ \A x, y \in S : x # y => <<x, y>> \in R \/ <<y, x>> \in R
    /\ \A x, y, z \in S : <<x, y>> \in R /\ <<y, z>> \in R => <<x, z>> \in R

ComesLast(x, T, R) == \A y \in T : y # x => <<y, x>> \in R

\* In an order, finitely many elements have a last one.
LEMMA LastExists ==
  ASSUME NEW S, IsFiniteSet(S), NEW R, IsOrder(R, S)
  PROVE  \A T \in SUBSET S : T # {} => \E x \in T : ComesLast(x, T, R)
  <1> DEFINE Good == {U \in SUBSET S : U = {} \/ \E x \in U : \A y \in U : y # x => <<y, x>> \in R}
  <1>1. ASSUME NEW U \in SUBSET S, NEW x \in U, U \ {x} \in Good
        PROVE  U \in Good
    <2>1. CASE U \ {x} = {}
      <3>1. U = {x}
        BY <2>1
      <3>2. \A y \in U : y # x => <<y, x>> \in R
        BY <3>1
      <3> QED
        BY <3>2
    <2>2. CASE \E z \in U \ {x} : \A y \in U \ {x} : y # z => <<y, z>> \in R
      <3>1. PICK z \in U \ {x} : \A y \in U \ {x} : y # z => <<y, z>> \in R
        BY <2>2
      <3>2. <<x, z>> \in R \/ <<z, x>> \in R
        BY <3>1 DEF IsOrder
      <3>3. CASE <<x, z>> \in R
        <4>1. \A y \in U : y # z => <<y, z>> \in R
          BY <3>1, <3>3
        <4> QED
          BY <3>1, <4>1
      <3>4. CASE <<z, x>> \in R
        <4>1. ASSUME NEW y \in U, y # x PROVE <<y, x>> \in R
          <5>1. CASE y = z
            BY <3>4, <5>1
          <5>2. CASE y # z
            <6>1. <<y, z>> \in R
              BY <3>1, <4>1, <5>2
            <6> QED
              BY <3>1, <3>4, <4>1, <6>1 DEF IsOrder
          <5> QED
            BY <5>1, <5>2
        <4> QED
          BY <4>1
      <3> QED
        BY <3>2, <3>3, <3>4
    <2> QED
      BY <1>1, <2>1, <2>2
  <1>2. \A T \in SUBSET S : T \in Good
    <2>1. \A U \in SUBSET S : \A x \in U : U \ {x} \in Good => U \in Good
      BY <1>1
    <2>2. {} \in Good
      OBVIOUS
    <2> HIDE DEF Good
    <2> QED
      BY <2>1, <2>2, SubsetsOneByOne
  <1> QED
    BY <1>2 DEF ComesLast

=============================================================================
