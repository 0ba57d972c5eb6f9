---------------------------- MODULE SlotTheorems ----------------------------
(***************************************************************************)
(* What the two algorithms behind a slot map compute, for every input: the *)
(* canonical weights and seats of Apportionment, the map of Rebalance. The *)
(* facts about sums and orders they rest on come first. Induction over     *)
(* data is by a least counterexample in a set, the form in which the       *)
(* library's well-founded orderings can be used here.                      *)
(***************************************************************************)
EXTENDS Apportionment, Rebalance, Integers, FiniteSetTheorems, TLAPS

----------------------------------------------------------------------------
(* Least elements.                                                          *)

\* Every non-empty set of naturals has a least element.
LEMMA LeastNatural ==
  ASSUME NEW T \in SUBSET Nat, T # {}
  PROVE  \E x \in T : \A y \in T : x <= y
<1> DEFINE I == {0..n : n \in T}
<1>1. I \subseteq FiniteSubsetsOf(Nat) /\ I # {}
  <2>1. \A n \in T : IsFiniteSet(0..n)
    BY FS_Interval
  <2>2. \A n \in T : 0..n \subseteq Nat
    OBVIOUS
  <2> QED
    BY <2>1, <2>2 DEF FiniteSubsetsOf
<1>2. PICK i \in I : \A j \in I : ~(<<j, i>> \in StrictSubsetOrdering(Nat))
  <2> HIDE DEF I
  <2> QED
    BY <1>1, FS_StrictSubsetOrderingWellFounded, WFMin
<1>3. PICK x \in T : i = 0..x
  OBVIOUS
<1>4. ASSUME NEW y \in T, y < x PROVE FALSE
  <2>1. 0..y \in I /\ 0..y \subseteq 0..x /\ x \in 0..x /\ x \notin 0..y
    BY <1>4
  <2>2. 0..y \in SUBSET Nat /\ 0..x \in SUBSET Nat /\ 0..y # 0..x
    BY <2>1
  <2>3. ~(<<0..y, 0..x>> \in StrictSubsetOrdering(Nat))
    BY <1>2, <1>3, <2>1
  <2> QED
    BY <2>1, <2>2, <2>3, Zenon DEF StrictSubsetOrdering
<1> QED
  BY <1>4

\* A set of naturals with an upper bound has a greatest element.
LEMMA GreatestNatural ==
  ASSUME NEW T \in SUBSET Nat, T # {}, NEW b \in Nat, \A x \in T : x <= b
  PROVE  \E x \in T : \A y \in T : y <= x
<1> DEFINE D == {n \in Nat : b - n \in T}
<1>1. PICK t \in T : TRUE
  OBVIOUS
<1>2. b - t \in D
  BY <1>1
<1>3. PICK d \in D : \A e \in D : d <= e
  <2> HIDE DEF D
  <2>1. D \in SUBSET Nat
    BY DEF D
  <2> QED
    BY <1>2, <2>1, LeastNatural
<1>4. \A y \in T : b - y \in D
  OBVIOUS
<1> QED
  BY <1>3, <1>4

\* A set that holds 0 and the successor of each natural it holds has them all.
LEMMA EveryNatural ==
  ASSUME NEW P, 0 \in P, \A n \in Nat : n \in P => n + 1 \in P
  PROVE  Nat \subseteq P
<1> SUFFICES ASSUME ~(Nat \subseteq P) PROVE FALSE
  OBVIOUS
<1>1. PICK x \in Nat \ P : \A y \in Nat \ P : x <= y
  BY LeastNatural
<1>2. x - 1 \in Nat /\ x - 1 \in P
  BY <1>1
<1> QED
  BY <1>1, <1>2

\* Of the subsets of a finite set in a non-empty collection one is minimal.
LEMMA MinimalSubset ==
  ASSUME NEW S, IsFiniteSet(S), NEW P \in SUBSET (SUBSET S), P # {}
  PROVE  \E T \in P : \A U \in P : U \subseteq T => U = T
<1>1. IsWellFoundedOn(StrictSubsetOrdering(S), SUBSET S)
  BY FS_StrictSubsetOrderingWellFounded, FS_FiniteSubsetsOfFinite
<1>2. PICK T \in P : \A U \in P : ~(<<U, T>> \in StrictSubsetOrdering(S))
  BY <1>1, WFMin
<1>3. ASSUME NEW U \in P, U \subseteq T, U # T PROVE FALSE
  <2>1. U \in SUBSET S /\ T \in SUBSET S
    OBVIOUS
  <2> QED
    BY <1>2, <1>3, <2>1, Zenon DEF StrictSubsetOrdering
<1> QED
  BY <1>3

\* A collection with the empty set that is closed under adding an element of a finite
\* set has the finite set itself.
LEMMA EverySubset ==
  ASSUME NEW S, IsFiniteSet(S), NEW P, {} \in P,
         \A T \in SUBSET S : \A x \in S \ T : T \in P => T \cup {x} \in P
  PROVE  S \in P
<1> SUFFICES ASSUME S \notin P PROVE FALSE
  OBVIOUS
<1>1. PICK T \in (SUBSET S) \ P : \A U \in (SUBSET S) \ P : U \subseteq T => U = T
  <2> DEFINE Q == (SUBSET S) \ P
  <2>1. Q \in SUBSET (SUBSET S) /\ S \in Q
    OBVIOUS
  <2> HIDE DEF Q
  <2>2. \E T \in Q : \A U \in Q : U \subseteq T => U = T
    BY <2>1, MinimalSubset
  <2> QED
    BY <2>2 DEF Q
<1>2. PICK x \in T : TRUE
  BY <1>1
<1>3. T \ {x} \in P
  BY <1>1, <1>2
<1>4. (T \ {x}) \cup {x} = T
  BY <1>2
<1> QED
  BY <1>1, <1>2, <1>3, <1>4

----------------------------------------------------------------------------
(* Sums.                                                                    *)

\* One step of the fold that computes the sum of f over s, where g has those of
\* the smaller sets.
SumStep(f, g, s) ==
  IF s = {} THEN 0 ELSE f[CHOOSE x \in s : TRUE] + g[s \ {CHOOSE x \in s : TRUE}]

\* The fold has a fixpoint on the subsets of a finite set, level by level of size.
LEMMA SumFixpoint ==
  ASSUME NEW f, NEW S, IsFiniteSet(S)
  PROVE  \E g : g = [s \in SUBSET S |-> SumStep(f, g, s)]
<1> DEFINE Good(g, n) == \A s \in SUBSET S : Cardinality(s) < n => g[s] = SumStep(f, g, s)
           P == {n \in Nat : \E g : Good(g, n)}
<1>1. \A s \in SUBSET S : IsFiniteSet(s) /\ Cardinality(s) \in Nat
  BY FS_Subset, FS_CardinalityType
<1>2. ASSUME NEW g, NEW n \in Nat, Good(g, n), NEW s \in SUBSET S, Cardinality(s) < n + 1, s # {}
      PROVE  LET h == [r \in SUBSET S |-> SumStep(f, g, r)]
                 r == s \ {CHOOSE x \in s : TRUE}
             IN  r \in SUBSET S /\ h[r] = g[r]
  <2> DEFINE x == CHOOSE x \in s : TRUE
             r == s \ {x}
  <2>1. x \in s
    BY <1>2
  <2>2. Cardinality(r) < n
    <3>1. IsFiniteSet(s) /\ Cardinality(s) \in Nat
      BY <1>1
    <3> HIDE DEF x
    <3>2. Cardinality(r) = Cardinality(s) - 1
      BY <2>1, <3>1, FS_RemoveElement
    <3> QED
      BY <1>2, <3>1, <3>2
  <2> HIDE DEF x
  <2>3. r \in SUBSET S
    OBVIOUS
  <2>4. g[r] = SumStep(f, g, r)
    BY <1>2, <2>2, <2>3
  <2> QED
    BY <2>3, <2>4 DEF x
<1>3. ASSUME NEW g, NEW n \in Nat, Good(g, n)
      PROVE  Good([r \in SUBSET S |-> SumStep(f, g, r)], n + 1)
  <2> DEFINE h == [r \in SUBSET S |-> SumStep(f, g, r)]
  <2> SUFFICES ASSUME NEW s \in SUBSET S, Cardinality(s) < n + 1 PROVE h[s] = SumStep(f, h, s)
    OBVIOUS
  <2>1. h[s] = SumStep(f, g, s)
    OBVIOUS
  <2>2. CASE s = {}
    BY <2>1, <2>2 DEF SumStep
  <2>3. CASE s # {}
    <3>1. h[s \ {CHOOSE x \in s : TRUE}] = g[s \ {CHOOSE x \in s : TRUE}]
      BY <1>2, <1>3, <2>3
    <3> HIDE DEF h
    <3> QED
      BY <2>1, <2>3, <3>1 DEF SumStep
  <2> QED
    BY <2>2, <2>3
<1>4. 0 \in P
  BY <1>1
<1>5. \A n \in Nat : n \in P => n + 1 \in P
  <2> SUFFICES ASSUME NEW n \in Nat, n \in P PROVE n + 1 \in P
    OBVIOUS
  <2> HIDE DEF Good
  <2>1. PICK g : Good(g, n)
    OBVIOUS
  <2>2. Good([r \in SUBSET S |-> SumStep(f, g, r)], n + 1)
    BY <1>3, <2>1
  <2> QED
    BY <2>2
<1> HIDE DEF P
<1>6. Nat \subseteq P
  BY <1>4, <1>5, EveryNatural
<1>7. Cardinality(S) + 1 \in Nat
  BY FS_CardinalityType
<1>8. PICK g : Good(g, Cardinality(S) + 1)
  BY <1>6, <1>7 DEF P
<1> DEFINE h == [r \in SUBSET S |-> SumStep(f, g, r)]
<1>9. \A s \in SUBSET S : Cardinality(s) < Cardinality(S) + 1
  BY <1>1, FS_Subset, FS_CardinalityType
<1>10. \A s \in SUBSET S : h[s] = g[s]
  BY <1>8, <1>9
<1>11. ASSUME NEW s \in SUBSET S PROVE SumStep(f, g, s) = SumStep(f, h, s)
  <2> HIDE DEF h
  <2> QED
    BY <1>10 DEF SumStep
<1>12. h = [s \in SUBSET S |-> SumStep(f, h, s)]
  <2>1. h = [s \in SUBSET S |-> SumStep(f, g, s)]
    OBVIOUS
  <2> HIDE DEF h
  <2> QED
    BY <1>11, <2>1
<1> QED
  BY <1>12

SumOver(f, S) == SumFunctionOnSet(f, S)

\* The sum over a set is the value there of a fixpoint over its subsets.
LEMMA SumIsFixpoint ==
  ASSUME NEW f, NEW S, IsFiniteSet(S)
  PROVE  \E g : g = [s \in SUBSET S |-> SumStep(f, g, s)] /\ SumOver(f, S) = g[S]
<1> DEFINE Fix(g) == g = [s \in SUBSET S |-> SumStep(f, g, s)]
           iter == CHOOSE g : Fix(g)
<1>1. Fix(iter)
  <2>1. \E g : Fix(g)
    BY SumFixpoint
  <2> HIDE DEF Fix
  <2> QED
    BY <2>1
<1>2. iter = CHOOSE g : g = [s \in SUBSET S |->
        IF s = {} THEN 0 ELSE f[CHOOSE x \in s : TRUE] + g[s \ {CHOOSE x \in s : TRUE}]]
  BY DEF SumStep
<1>3. SumOver(f, S) = iter[S]
  BY <1>2 DEF SumOver, SumFunctionOnSet, FoldFunctionOnSet, MapThenFoldSet
<1> HIDE DEF iter
<1> QED
  BY <1>1, <1>3

\* The sum over no element, whatever the function.
LEMMA SumEmpty == ASSUME NEW f PROVE SumOver(f, {}) = 0
<1>1. PICK g : g = [s \in SUBSET {} |-> SumStep(f, g, s)] /\ SumOver(f, {}) = g[{}]
  BY SumIsFixpoint, FS_EmptySet
<1>2. g[{}] = SumStep(f, g, {})
  BY <1>1
<1> QED
  BY <1>1, <1>2 DEF SumStep

\* The fold takes out the element it chooses.
LEMMA SumChosen ==
  ASSUME NEW f, NEW S, IsFiniteSet(S), S # {}
  PROVE  \E x \in S : SumOver(f, S) = f[x] + SumOver(f, S \ {x})
<1> DEFINE x == CHOOSE x \in S : TRUE
           T == S \ {x}
<1>1. x \in S /\ IsFiniteSet(T)
  BY FS_RemoveElement
<1>2. PICK g : g = [s \in SUBSET S |-> SumStep(f, g, s)] /\ SumOver(f, S) = g[S]
  BY SumIsFixpoint
<1>3. g[S] = SumStep(f, g, S)
  BY <1>2
<1>4. SumOver(f, S) = f[x] + g[T]
  BY <1>2, <1>3 DEF SumStep
<1> HIDE DEF x
<1> HIDE DEF T
<1>5. PICK h : h = [s \in SUBSET T |-> SumStep(f, h, s)] /\ SumOver(f, T) = h[T]
  BY <1>1, SumIsFixpoint
<1>6. ASSUME g[T] # h[T] PROVE FALSE
  <2> DEFINE P == {U \in SUBSET T : g[U] # h[U]}
  <2>1. P \in SUBSET (SUBSET T) /\ P # {}
    BY <1>6
  <2>2. PICK U \in P : \A V \in P : V \subseteq U => V = U
    <3> HIDE DEF P
    <3> QED
      BY <1>1, <2>1, MinimalSubset
  <2>3. U \in SUBSET T /\ U \in SUBSET S /\ g[U] # h[U]
    BY DEF T
  <2>4. g[U] = SumStep(f, g, U) /\ h[U] = SumStep(f, h, U)
    BY <1>2, <1>5, <2>3
  <2>5. U # {}
    BY <2>3, <2>4 DEF SumStep
  <2> DEFINE y == CHOOSE y \in U : TRUE
             V == U \ {y}
  <2>6. y \in U /\ V \in SUBSET T
    BY <2>3, <2>5
  <2>7. g[V] = h[V]
    <3> HIDE DEF y
    <3>1. V \subseteq U /\ V # U
      BY <2>6
    <3>2. V \notin P
      BY <2>2, <3>1
    <3> QED
      BY <2>6, <3>2
  <2> QED
    BY <2>3, <2>4, <2>5, <2>7 DEF SumStep
<1> QED
  BY <1>1, <1>4, <1>5, <1>6 DEF T

\* Integers add up to an integer.
LEMMA SumInt ==
  ASSUME NEW f, NEW S, IsFiniteSet(S), \A x \in S : f[x] \in Int
  PROVE  SumOver(f, S) \in Int
<1> SUFFICES ASSUME SumOver(f, S) \notin Int PROVE FALSE
  OBVIOUS
<1> DEFINE P == {U \in SUBSET S : SumOver(f, U) \notin Int}
<1>1. P \in SUBSET (SUBSET S) /\ P # {}
  OBVIOUS
<1>2. PICK U \in P : \A V \in P : V \subseteq U => V = U
  <2> HIDE DEF P
  <2> QED
    BY <1>1, MinimalSubset
<1>3. U # {} /\ IsFiniteSet(U)
  <2>1. U \in SUBSET S /\ SumOver(f, U) \notin Int
    OBVIOUS
  <2> HIDE DEF P
  <2>2. IsFiniteSet(U)
    BY <2>1, FS_Subset
  <2>3. SumOver(f, {}) = 0
    BY SumEmpty
  <2> QED
    BY <2>1, <2>2, <2>3
<1>4. PICK x \in U : SumOver(f, U) = f[x] + SumOver(f, U \ {x})
  BY <1>3, SumChosen
<1>5. U \ {x} \notin P
  BY <1>2, <1>4
<1>6. SumOver(f, U \ {x}) \in Int /\ f[x] \in Int
  BY <1>5
<1> QED
  BY <1>4, <1>6

\* Any element can be taken out first.
LEMMA SumRemove ==
  ASSUME NEW f, NEW S, IsFiniteSet(S), \A x \in S : f[x] \in Int, NEW y \in S
  PROVE  SumOver(f, S) = f[y] + SumOver(f, S \ {y})
<1> SUFFICES ASSUME SumOver(f, S) # f[y] + SumOver(f, S \ {y}) PROVE FALSE
  OBVIOUS
<1> DEFINE P == {U \in SUBSET S : \E x \in U : SumOver(f, U) # f[x] + SumOver(f, U \ {x})}
<1>1. P \in SUBSET (SUBSET S) /\ P # {}
  OBVIOUS
<1>2. PICK U \in P : \A V \in P : V \subseteq U => V = U
  <2> HIDE DEF P
  <2> QED
    BY <1>1, MinimalSubset
<1>3. PICK z \in U : SumOver(f, U) # f[z] + SumOver(f, U \ {z})
  OBVIOUS
<1>4. IsFiniteSet(U)
  BY FS_Subset
<1>5. PICK x \in U : SumOver(f, U) = f[x] + SumOver(f, U \ {x})
  BY <1>3, <1>4, SumChosen
<1>6. x # z
  BY <1>3, <1>5
<1>7. SumOver(f, U \ {x}) = f[z] + SumOver(f, (U \ {x}) \ {z})
  <2>1. U \ {x} \notin P /\ z \in U \ {x} /\ U \ {x} \in SUBSET S
    BY <1>2, <1>5, <1>6
  <2> QED
    BY <2>1
<1>8. SumOver(f, U \ {z}) = f[x] + SumOver(f, (U \ {z}) \ {x})
  <2>1. U \ {z} \notin P /\ x \in U \ {z} /\ U \ {z} \in SUBSET S
    BY <1>2, <1>3, <1>6
  <2> QED
    BY <2>1
<1> DEFINE rest == SumOver(f, (U \ {x}) \ {z})
<1>9. (U \ {z}) \ {x} = (U \ {x}) \ {z}
  OBVIOUS
<1>10. rest \in Int /\ f[x] \in Int /\ f[z] \in Int
  <2>1. IsFiniteSet((U \ {x}) \ {z})
    BY <1>4, FS_RemoveElement
  <2>2. U \in SUBSET S
    OBVIOUS
  <2> HIDE DEF P
  <2> QED
    BY <2>1, <2>2, SumInt
<1>11. SumOver(f, U \ {x}) = f[z] + rest /\ SumOver(f, U \ {z}) = f[x] + rest
  BY <1>7, <1>8, <1>9
<1> HIDE DEF P, rest
<1> QED
  BY <1>3, <1>5, <1>10, <1>11

\* An element outside the set is added to its sum.
LEMMA SumInsert ==
  ASSUME NEW f, NEW S, IsFiniteSet(S), \A x \in S : f[x] \in Int, NEW y, y \notin S, f[y] \in Int
  PROVE  SumOver(f, S \cup {y}) = SumOver(f, S) + f[y] /\ SumOver(f, S) \in Int
<1>1. IsFiniteSet(S \cup {y})
  BY FS_AddElement
<1>2. (S \cup {y}) \ {y} = S
  OBVIOUS
<1>3. SumOver(f, S \cup {y}) = f[y] + SumOver(f, (S \cup {y}) \ {y})
  BY <1>1, SumRemove
<1>4. SumOver(f, S) \in Int
  BY SumInt
<1>5. SumOver(f, S \cup {y}) = f[y] + SumOver(f, S)
  BY <1>2, <1>3, Zenon
<1> QED
  BY <1>4, <1>5

\* Equal terms have equal sums.
LEMMA SumCong ==
  ASSUME NEW f, NEW g, NEW S, IsFiniteSet(S), \A x \in S : f[x] \in Int /\ g[x] = f[x]
  PROVE  SumOver(g, S) = SumOver(f, S)
<1> DEFINE P == {U \in SUBSET S : SumOver(g, U) = SumOver(f, U)}
<1>1. {} \in P
  BY SumEmpty
<1>2. ASSUME NEW T \in SUBSET S, NEW x \in S \ T, T \in P PROVE T \cup {x} \in P
  <2>1. IsFiniteSet(T)
    BY FS_Subset
  <2>2. SumOver(f, T \cup {x}) = SumOver(f, T) + f[x]
    BY <2>1, SumInsert
  <2>3. SumOver(g, T \cup {x}) = SumOver(g, T) + g[x]
    BY <2>1, SumInsert
  <2> QED
    BY <1>2, <2>2, <2>3
<1> HIDE DEF P
<1>3. S \in P
  BY <1>1, <1>2, EverySubset
<1> QED
  BY <1>3 DEF P

\* The sum of sums.
LEMMA SumAdd ==
  ASSUME NEW f, NEW g, NEW h, NEW S, IsFiniteSet(S),
         \A x \in S : f[x] \in Int /\ g[x] \in Int /\ h[x] = f[x] + g[x]
  PROVE  SumOver(h, S) = SumOver(f, S) + SumOver(g, S)
<1> DEFINE P == {U \in SUBSET S : SumOver(h, U) = SumOver(f, U) + SumOver(g, U)}
<1>1. {} \in P
  BY SumEmpty
<1>2. ASSUME NEW T \in SUBSET S, NEW x \in S \ T, T \in P PROVE T \cup {x} \in P
  <2>1. IsFiniteSet(T) /\ f[x] \in Int /\ g[x] \in Int /\ h[x] = f[x] + g[x] /\ h[x] \in Int
    BY FS_Subset
  <2>2. SumOver(f, T \cup {x}) = SumOver(f, T) + f[x] /\ SumOver(f, T) \in Int
    BY <2>1, SumInsert
  <2>3. SumOver(g, T \cup {x}) = SumOver(g, T) + g[x] /\ SumOver(g, T) \in Int
    BY <2>1, SumInsert
  <2>4. SumOver(h, T \cup {x}) = SumOver(h, T) + h[x]
    BY <2>1, SumInsert
  <2> QED
    BY <1>2, <2>1, <2>2, <2>3, <2>4
<1> HIDE DEF P
<1>3. S \in P
  BY <1>1, <1>2, EverySubset
<1> QED
  BY <1>3 DEF P

\* The sum of multiples.
LEMMA SumScale ==
  ASSUME NEW f, NEW g, NEW k \in Int, NEW S, IsFiniteSet(S),
         \A x \in S : f[x] \in Int /\ g[x] = k * f[x]
  PROVE  SumOver(g, S) = k * SumOver(f, S)
<1> DEFINE P == {U \in SUBSET S : SumOver(g, U) = k * SumOver(f, U)}
<1>0. \A a, b \in Int : k * a \in Int /\ k * (a + b) = k * a + k * b
  OBVIOUS
<1>1. {} \in P
  BY SumEmpty
<1>2. ASSUME NEW T \in SUBSET S, NEW x \in S \ T, T \in P PROVE T \cup {x} \in P
  <2>1. IsFiniteSet(T) /\ f[x] \in Int /\ g[x] = k * f[x] /\ \A y \in T : g[y] \in Int
    BY <1>0, FS_Subset
  <2>2. SumOver(f, T \cup {x}) = SumOver(f, T) + f[x] /\ SumOver(f, T) \in Int
    BY <2>1, SumInsert
  <2>3. SumOver(g, T \cup {x}) = SumOver(g, T) + g[x]
    BY <1>0, <2>1, SumInsert
  <2>4. SumOver(g, T) = k * SumOver(f, T)
    BY <1>2
  <2> HIDE DEF P
  <2>5. SumOver(g, T \cup {x}) = k * SumOver(f, T \cup {x})
    BY <1>0, <2>1, <2>2, <2>3, <2>4
  <2> QED
    BY <2>5 DEF P
<1> HIDE DEF P
<1>3. S \in P
  BY <1>1, <1>2, EverySubset
<1> QED
  BY <1>3 DEF P

\* Nothing adds up to nothing.
LEMMA SumZero ==
  ASSUME NEW f, NEW S, IsFiniteSet(S), \A x \in S : f[x] = 0
  PROVE  SumOver(f, S) = 0
<1> DEFINE P == {U \in SUBSET S : SumOver(f, U) = 0}
<1>1. {} \in P
  BY SumEmpty
<1>2. ASSUME NEW T \in SUBSET S, NEW x \in S \ T, T \in P PROVE T \cup {x} \in P
  <2>1. IsFiniteSet(T)
    BY FS_Subset
  <2>2. SumOver(f, T \cup {x}) = SumOver(f, T) + f[x]
    BY <2>1, SumInsert
  <2> QED
    BY <1>2, <2>2
<1> HIDE DEF P
<1>3. S \in P
  BY <1>1, <1>2, EverySubset
<1> QED
  BY <1>3 DEF P

\* Smaller terms have a smaller sum, and an equal one only if they are all equal.
LEMMA SumMono ==
  ASSUME NEW f, NEW g, NEW S, IsFiniteSet(S), \A x \in S : f[x] \in Int /\ g[x] \in Int /\ f[x] <= g[x]
  PROVE  /\ SumOver(f, S) <= SumOver(g, S)
         /\ SumOver(f, S) = SumOver(g, S) => \A x \in S : f[x] = g[x]
<1> DEFINE P == {U \in SUBSET S : /\ SumOver(f, U) <= SumOver(g, U)
                                  /\ SumOver(f, U) = SumOver(g, U) => \A x \in U : f[x] = g[x]}
<1>1. {} \in P
  BY SumEmpty
<1>2. ASSUME NEW T \in SUBSET S, NEW x \in S \ T, T \in P PROVE T \cup {x} \in P
  <2>1. IsFiniteSet(T) /\ f[x] \in Int /\ g[x] \in Int /\ f[x] <= g[x]
    BY FS_Subset
  <2>2. SumOver(f, T \cup {x}) = SumOver(f, T) + f[x] /\ SumOver(f, T) \in Int
    BY <2>1, SumInsert
  <2>3. SumOver(g, T \cup {x}) = SumOver(g, T) + g[x] /\ SumOver(g, T) \in Int
    BY <2>1, SumInsert
  <2> QED
    BY <1>2, <2>1, <2>2, <2>3
<1> HIDE DEF P
<1>3. S \in P
  BY <1>1, <1>2, EverySubset
<1> QED
  BY <1>3 DEF P

\* Naturals add up to a natural, no smaller than any of them.
LEMMA SumNat ==
  ASSUME NEW f, NEW S, IsFiniteSet(S), \A x \in S : f[x] \in Nat
  PROVE  SumOver(f, S) \in Nat /\ \A x \in S : f[x] <= SumOver(f, S)
<1> DEFINE zero == [x \in S |-> 0]
<1>1. \A x \in S : zero[x] = 0
  OBVIOUS
<1> HIDE DEF zero
<1>2. \A U \in SUBSET S : SumOver(f, U) \in Nat
  <2> SUFFICES ASSUME NEW U \in SUBSET S PROVE SumOver(f, U) \in Nat
    OBVIOUS
  <2>1. IsFiniteSet(U) /\ \A x \in U : f[x] \in Int /\ zero[x] \in Int /\ zero[x] <= f[x] /\ zero[x] = 0
    BY <1>1, FS_Subset
  <2>2. SumOver(zero, U) = 0
    BY <2>1, SumZero
  <2>3. SumOver(f, U) \in Int
    BY <2>1, SumInt
  <2>4. SumOver(zero, U) <= SumOver(f, U)
    BY <2>1, SumMono
  <2> QED
    BY <2>2, <2>3, <2>4
<1>3. ASSUME NEW x \in S PROVE f[x] <= SumOver(f, S)
  <2>1. SumOver(f, S) = f[x] + SumOver(f, S \ {x})
    BY SumRemove
  <2>2. SumOver(f, S \ {x}) \in Nat /\ f[x] \in Nat
    BY <1>2
  <2> QED
    BY <2>1, <2>2
<1> QED
  BY <1>2, <1>3

\* One term changes the sum by as much as it changes.
LEMMA SumUpdate ==
  ASSUME NEW f, NEW g, NEW S, IsFiniteSet(S), NEW y \in S, \A x \in S : f[x] \in Int /\ g[x] \in Int,
         \A x \in S \ {y} : g[x] = f[x]
  PROVE  SumOver(g, S) = SumOver(f, S) + g[y] - f[y]
<1> DEFINE T == S \ {y}
<1>1. IsFiniteSet(T)
  BY FS_RemoveElement
<1>2. SumOver(f, S) = f[y] + SumOver(f, T) /\ SumOver(g, S) = g[y] + SumOver(g, T)
  BY SumRemove
<1>3. T \subseteq S /\ \A x \in T : f[x] \in Int /\ g[x] = f[x]
  OBVIOUS
<1> HIDE DEF T
<1>4. SumOver(g, T) = SumOver(f, T) /\ SumOver(f, T) \in Int
  BY <1>1, <1>3, SumCong, SumInt
<1> QED
  BY <1>2, <1>4

\* Terms outside a part of the set count only if they are not 0.
LEMMA SumSupport ==
  ASSUME NEW f, NEW S, IsFiniteSet(S), \A x \in S : f[x] \in Int,
         NEW T \in SUBSET S, \A x \in S \ T : f[x] = 0
  PROVE  SumOver(f, S) = SumOver(f, T)
<1> DEFINE P == {U \in SUBSET (S \ T) : SumOver(f, T \cup U) = SumOver(f, T)}
           R == S \ T
<1>1. {} \in P
  <2>1. T \cup {} = T
    OBVIOUS
  <2> QED
    BY <2>1, Zenon
<1>2. ASSUME NEW U \in SUBSET R, NEW x \in R \ U, U \in P PROVE U \cup {x} \in P
  <2>1. T \cup U \in SUBSET S /\ x \notin T \cup U /\ T \cup (U \cup {x}) = (T \cup U) \cup {x} /\ f[x] = 0
    OBVIOUS
  <2>2. IsFiniteSet(T \cup U)
    BY <2>1, FS_Subset
  <2>3. SumOver(f, (T \cup U) \cup {x}) = SumOver(f, T \cup U) + f[x] /\ SumOver(f, T \cup U) \in Int
    BY <2>1, <2>2, SumInsert
  <2>4. SumOver(f, (T \cup U) \cup {x}) = SumOver(f, T \cup U)
    BY <2>1, <2>3
  <2>5. SumOver(f, T \cup (U \cup {x})) = SumOver(f, T)
    BY <1>2, <2>1, <2>4, Zenon
  <2> QED
    BY <2>5
<1>3. IsFiniteSet(R)
  BY FS_Difference
<1>4. R \in P
  <2> HIDE DEF P, R
  <2> QED
    BY <1>1, <1>2, <1>3, EverySubset
<1>5. T \cup R = S
  OBVIOUS
<1> QED
  BY <1>4, <1>5, Zenon

\* Ones and zeros add up to the number of ones.
LEMMA SumCount ==
  ASSUME NEW f, NEW S, IsFiniteSet(S), \A x \in S : f[x] \in {0, 1}
  PROVE  SumOver(f, S) = Cardinality({x \in S : f[x] = 1})
<1> DEFINE Ones(U) == {x \in U : f[x] = 1}
           P == {U \in SUBSET S : SumOver(f, U) = Cardinality(Ones(U))}
<1>1. {} \in P
  <2>1. Ones({}) = {}
    OBVIOUS
  <2> QED
    BY <2>1, SumEmpty, FS_EmptySet
<1>2. ASSUME NEW T \in SUBSET S, NEW x \in S \ T, T \in P PROVE T \cup {x} \in P
  <2>1. IsFiniteSet(T) /\ \A y \in S : f[y] \in Int
    BY FS_Subset
  <2>2. SumOver(f, T \cup {x}) = SumOver(f, T) + f[x]
    BY <2>1, SumInsert
  <2>3. IsFiniteSet(Ones(T)) /\ x \notin Ones(T)
    BY <2>1, FS_Subset
  <2>4. CASE f[x] = 1
    <3>1. Ones(T \cup {x}) = Ones(T) \cup {x}
      BY <2>4
    <3> HIDE DEF Ones
    <3>2. Cardinality(Ones(T) \cup {x}) = Cardinality(Ones(T)) + 1
      BY <2>3, FS_AddElement
    <3>3. SumOver(f, T) = Cardinality(Ones(T))
      BY <1>2
    <3>4. SumOver(f, T \cup {x}) = Cardinality(Ones(T \cup {x}))
      BY <2>2, <2>4, <3>1, <3>2, <3>3, Zenon
    <3> QED
      BY <3>4
  <2>5. CASE f[x] # 1
    <3>1. Ones(T \cup {x}) = Ones(T) /\ f[x] = 0
      BY <2>5
    <3> HIDE DEF Ones
    <3>2. Cardinality(Ones(T)) \in Nat
      BY <2>3, FS_CardinalityType
    <3>3. SumOver(f, T) = Cardinality(Ones(T))
      BY <1>2
    <3>4. SumOver(f, T \cup {x}) = SumOver(f, T)
      BY <2>2, <3>1, <3>2, <3>3
    <3> QED
      BY <3>1, <3>3, <3>4
  <2> QED
    BY <2>4, <2>5
<1> HIDE DEF P
<1>3. S \in P
  BY <1>1, <1>2, EverySubset
<1> QED
  BY <1>3 DEF P

----------------------------------------------------------------------------
(* Division.                                                                *)

\* Quotient and remainder of naturals.
LEMMA Division ==
  ASSUME NEW n \in Nat, NEW d \in Nat \ {0}
  PROVE  n \div d \in Nat /\ n % d \in Nat /\ n % d < d /\ n = d * (n \div d) + (n % d)
OBVIOUS

\* A multiple leaves no remainder, and what leaves none is a multiple.
LEMMA Multiples ==
  ASSUME NEW n \in Nat, NEW d \in Nat \ {0}
  PROVE  n % d = 0 <=> \E q \in Nat : n = d * q
<1>1. ASSUME NEW q \in Nat, n = d * q PROVE n % d = 0
  <2>1. (d * q + 0) % d = 0 /\ d * q + 0 = d * q
    OBVIOUS
  <2> QED
    BY <1>1, <2>1
<1>2. ASSUME n % d = 0 PROVE \E q \in Nat : n = d * q
  <2> DEFINE q == n \div d
  <2>1. q \in Nat /\ n = d * q + 0
    BY <1>2, Division
  <2> HIDE DEF q
  <2>2. d * q \in Nat
    BY <2>1
  <2> QED
    BY <2>1, <2>2
<1> QED
  BY <1>1, <1>2

\* Two positive naturals have a least common multiple, which divides every other.
LEMMA LeastCommonMultiple ==
  ASSUME NEW d \in Nat \ {0}, NEW e \in Nat \ {0}
  PROVE  \E l \in Nat \ {0} :
           /\ l % d = 0 /\ l % e = 0
           /\ \A n \in Nat : n % d = 0 /\ n % e = 0 => n % l = 0
<1> DEFINE T == {n \in Nat \ {0} : n % d = 0 /\ n % e = 0}
<1>1. d * e \in T
  <2>1. d * e \in Nat \ {0} /\ d * e = e * d
    OBVIOUS
  <2>2. (d * e) % d = 0 /\ (d * e) % e = 0
    BY <2>1, Multiples
  <2> QED
    BY <2>1, <2>2
<1>2. PICK l \in T : \A n \in T : l <= n
  <2>1. T \in SUBSET Nat /\ T # {}
    BY <1>1
  <2> HIDE DEF T
  <2> QED
    BY <2>1, LeastNatural
<1>3. ASSUME NEW n \in Nat, n % d = 0, n % e = 0 PROVE n % l = 0
  <2> DEFINE q == n \div l
             r == n % l
  <2>1. q \in Nat /\ r \in Nat /\ r < l /\ n = l * q + r
    BY Division
  <2> HIDE DEF q, r
  <2>2. ASSUME NEW c \in Nat \ {0}, n % c = 0, l % c = 0 PROVE r % c = 0
    <3>1. PICK a \in Nat : n = c * a
      BY <2>2, Multiples
    <3>2. PICK b \in Nat : l = c * b
      BY <2>2, Multiples
    <3>3. r = c * (a - b * q) /\ a - b * q \in Int
      <4>1. l * q = c * (b * q)
        BY <2>1, <3>2
      <4>2. b * q \in Int /\ c * (a - b * q) = c * a - c * (b * q)
        BY <2>1
      <4> QED
        BY <2>1, <3>1, <4>1, <4>2
    <3> DEFINE z == a - b * q
    <3>4. z >= 0
      <4> HIDE DEF z
      <4>1. z \in Int /\ c * z >= 0
        BY <2>1, <3>3 DEF z
      <4> QED
        BY <4>1
    <3>5. z \in Nat /\ r = c * z
      BY <3>3, <3>4
    <3> HIDE DEF z
    <3> QED
      BY <2>1, <3>5, Multiples
  <2>3. r % d = 0 /\ r % e = 0
    BY <1>3, <2>2
  <2>4. r = 0
    <3>1. l \in Nat /\ \A m \in Nat \ {0} : m % d = 0 /\ m % e = 0 => l <= m
      BY <1>2
    <3> HIDE DEF T
    <3>2. r \in Nat \ {0} => l <= r
      BY <2>3, <3>1, Zenon
    <3> QED
      BY <2>1, <3>1, <3>2
  <2> QED
    BY <2>4 DEF r
<1> QED
  BY <1>3

----------------------------------------------------------------------------
(* Canonical weights.                                                       *)

\* A vector of weights that canonicalize_weights accepts.
IsWeights(w) == (\A m \in DOMAIN w : w[m] \in Nat) /\ ~AllZero(w)

Divides(d, w) == \A m \in DOMAIN w : w[m] % d = 0

\* gcd_of_weights finds the greatest divisor that all weights have.
LEMMA GcdIsGreatest ==
  ASSUME NEW w, IsWeights(w)
  PROVE  /\ Gcd(w) \in Nat \ {0} /\ Divides(Gcd(w), w)
         /\ \A e \in Nat \ {0} : Divides(e, w) => e <= Gcd(w)
<1> DEFINE b == CHOOSE b \in Range(w) : b # 0
           T == {d \in 1..b : Divides(d, w)}
<1>1. \E m \in DOMAIN w : w[m] = b /\ b \in Nat \ {0}
  BY DEF IsWeights, AllZero, Range
<1> HIDE DEF b
<1>2. ASSUME NEW e \in Nat \ {0}, Divides(e, w) PROVE e \in T
  <2>1. b \in Nat \ {0} /\ b % e = 0
    BY <1>1, <1>2 DEF Divides
  <2>2. PICK q \in Nat : b = e * q
    BY <2>1, Multiples
  <2>3. q # 0
    BY <2>1, <2>2
  <2>4. e <= e * q
    BY <2>3
  <2> QED
    BY <1>2, <2>1, <2>2, <2>4
<1>3. 1 \in T
  <2>1. \A n \in Nat : n % 1 = 0
    OBVIOUS
  <2> QED
    BY <1>1, <2>1 DEF Divides, IsWeights
<1>4. PICK g \in T : \A d \in T : d <= g
  <2>1. T \in SUBSET Nat /\ b \in Nat /\ \A d \in T : d <= b
    BY <1>1
  <2> HIDE DEF T
  <2> QED
    BY <1>3, <2>1, GreatestNatural
<1> DEFINE Best(d) == Divides(d, w) /\ \A e \in (d + 1)..b : ~Divides(e, w)
<1>5. Gcd(w) = CHOOSE d \in 1..b : Best(d)
  BY DEF Gcd, b, Divides
<1>6. Best(g)
  <2>1. \A e \in (g + 1)..b : e \notin T
    BY <1>1, <1>4
  <2> QED
    BY <1>1, <1>4, <2>1
<1>7. Gcd(w) \in 1..b /\ Best(Gcd(w))
  <2>1. g \in 1..b
    OBVIOUS
  <2> HIDE DEF Best, T
  <2> QED
    BY <1>5, <1>6, <2>1
<1>8. Gcd(w) \in Nat \ {0} /\ \A e \in T : e <= Gcd(w)
  BY <1>1, <1>7
<1> QED
  BY <1>2, <1>7, <1>8

\* Every common divisor divides the greatest.
LEMMA DividesGcd ==
  ASSUME NEW w, IsWeights(w), NEW e \in Nat \ {0}, Divides(e, w)
  PROVE  Gcd(w) % e = 0
<1> DEFINE g == Gcd(w)
<1>1. /\ g \in Nat \ {0} /\ Divides(g, w)
      /\ \A d \in Nat \ {0} : Divides(d, w) => d <= g
  BY GcdIsGreatest
<1> HIDE DEF g
<1>2. PICK l \in Nat \ {0} :
        l % g = 0 /\ l % e = 0 /\ \A n \in Nat : n % g = 0 /\ n % e = 0 => n % l = 0
  BY <1>1, LeastCommonMultiple
<1>3. Divides(l, w)
  BY <1>1, <1>2, Zenon DEF Divides, IsWeights
<1>4. l <= g
  BY <1>1, <1>3
<1>5. PICK q \in Nat : l = g * q
  BY <1>1, <1>2, Multiples
<1>6. q # 0
  BY <1>1, <1>2, <1>5
<1>7. g <= l
  BY <1>1, <1>5, <1>6
<1>8. l = g
  BY <1>1, <1>4, <1>7
<1>9. g % e = 0
  BY <1>2, <1>8
<1> QED
  BY <1>9 DEF g

\* What canonicalize_weights leaves of the weights: all of them over one divisor.
LEMMA CanonicalWeights ==
  ASSUME NEW w, IsWeights(w)
  PROVE  /\ DOMAIN Canonical(w) = DOMAIN w
         /\ \A m \in DOMAIN w : Canonical(w)[m] \in Nat /\ w[m] = Gcd(w) * Canonical(w)[m]
<1> DEFINE g == Gcd(w)
<1>1. g \in Nat \ {0} /\ Divides(g, w)
  BY GcdIsGreatest
<1>2. Canonical(w) = [m \in DOMAIN w |-> w[m] \div g]
  BY DEF Canonical
<1> HIDE DEF g
<1>3. ASSUME NEW m \in DOMAIN w PROVE w[m] \div g \in Nat /\ w[m] = g * (w[m] \div g)
  <2>1. w[m] \in Nat /\ w[m] % g = 0
    BY <1>1 DEF Divides, IsWeights
  <2> DEFINE n == w[m]
  <2>2. n \in Nat /\ n % g = 0
    BY <2>1
  <2> HIDE DEF n
  <2>3. n \div g \in Nat /\ n = g * (n \div g)
    BY <1>1, <2>2
  <2> QED
    BY <2>3, Zenon DEF n
<1> QED
  BY <1>2, <1>3, Zenon DEF g

\* A vector in another scale has the same canonical weights.
LEMMA CanonicalScaled ==
  ASSUME NEW w, IsWeights(w), NEW k \in Nat \ {0}, NEW v, v = [m \in DOMAIN w |-> k * w[m]]
  PROVE  IsWeights(v) /\ Canonical(v) = Canonical(w)
<1> DEFINE g == Gcd(w)
           h == Gcd(v)
<1>1. g \in Nat \ {0} /\ Divides(g, w) /\ \A e \in Nat \ {0} : Divides(e, w) => e <= g
  BY GcdIsGreatest
<1>2. DOMAIN v = DOMAIN w /\ \A m \in DOMAIN w : v[m] = k * w[m]
  OBVIOUS
<1>3. \A a \in Nat : k * a \in Nat /\ (k * a = 0 <=> a = 0)
  OBVIOUS
<1>4. IsWeights(v)
  BY <1>2, <1>3 DEF IsWeights, AllZero
<1>5. h \in Nat \ {0} /\ Divides(h, v)
  BY <1>4, GcdIsGreatest
<1> HIDE DEF g, h
<1>6. Divides(k, v)
  <2> SUFFICES ASSUME NEW m \in DOMAIN w PROVE v[m] % k = 0
    BY <1>2 DEF Divides
  <2>1. w[m] \in Nat /\ v[m] = k * w[m] /\ v[m] \in Nat
    BY <1>2, <1>3 DEF IsWeights
  <2> QED
    BY <2>1, Multiples
<1>7. PICK q \in Nat \ {0} : h = k * q
  <2>1. h % k = 0
    BY <1>4, <1>6, DividesGcd DEF h
  <2>2. PICK q \in Nat : h = k * q
    BY <1>5, <2>1, Multiples
  <2>3. q # 0
    BY <1>5, <2>2
  <2> QED
    BY <2>2, <2>3
<1>8. Divides(q, w)
  <2> SUFFICES ASSUME NEW m \in DOMAIN w PROVE w[m] % q = 0
    BY DEF Divides
  <2> DEFINE n == w[m]
  <2>1. n \in Nat /\ v[m] = k * n /\ v[m] \in Nat /\ v[m] % h = 0
    BY <1>2, <1>3, <1>5 DEF IsWeights, Divides
  <2>2. PICK a \in Nat : v[m] = h * a
    BY <1>5, <2>1, Multiples
  <2> HIDE DEF n
  <2>3. k * n = k * (q * a) /\ q * a \in Nat
    BY <1>7, <2>1, <2>2
  <2>4. \A b \in Nat : k * n = k * b => n = b
    BY <2>1
  <2>5. n = q * a
    BY <2>3, <2>4
  <2>6. n % q = 0
    BY <1>7, <2>1, <2>5, Multiples
  <2> QED
    BY <2>6 DEF n
<1>9. Divides(k * g, v)
  <2> SUFFICES ASSUME NEW m \in DOMAIN w PROVE v[m] % (k * g) = 0
    BY <1>2 DEF Divides
  <2>1. w[m] \in Nat /\ w[m] % g = 0 /\ v[m] = k * w[m] /\ v[m] \in Nat
    BY <1>1, <1>2, <1>3 DEF IsWeights, Divides
  <2>2. PICK a \in Nat : w[m] = g * a
    BY <1>1, <2>1, Multiples
  <2>3. v[m] = (k * g) * a /\ k * g \in Nat \ {0}
    BY <1>1, <2>1, <2>2
  <2> QED
    BY <2>1, <2>3, Multiples
<1>10. h = k * g
  <2>1. k * g \in Nat \ {0}
    BY <1>1
  <2>2. k * g <= h
    BY <1>4, <1>9, <2>1, GcdIsGreatest DEF h
  <2>3. q <= g
    BY <1>1, <1>7, <1>8
  <2>4. k * q <= k * g
    BY <1>1, <1>7, <2>3
  <2> QED
    BY <1>5, <1>7, <2>1, <2>2, <2>4
<1>11. ASSUME NEW m \in DOMAIN w PROVE Canonical(v)[m] = Canonical(w)[m]
  <2> DEFINE a == Canonical(v)[m]
             b == Canonical(w)[m]
  <2>1. a \in Nat /\ v[m] = h * a
    BY <1>2, <1>4, CanonicalWeights DEF h
  <2>2. b \in Nat /\ w[m] = g * b
    BY CanonicalWeights DEF g
  <2> HIDE DEF a, b
  <2>3. (k * g) * a = (k * g) * b
    BY <1>1, <1>2, <1>10, <2>1, <2>2
  <2>4. a = b
    BY <1>1, <2>1, <2>2, <2>3
  <2> QED
    BY <2>4 DEF a, b
<1>12. Canonical(v) = Canonical(w)
  BY <1>2, <1>11 DEF Canonical
<1> QED
  BY <1>4, <1>12

----------------------------------------------------------------------------
(* Ranks. "ahead" gives for every element the set of those before it in a   *)
(* total order.                                                             *)

IsRanking(S, ahead) ==
  /\ IsFiniteSet(S) /\ ahead \in [S -> SUBSET S]
  /\ \A x \in S : x \notin ahead[x]
  /\ \A x, y \in S : x # y => x \in ahead[y] \/ y \in ahead[x]
  /\ \A x, y \in S : x \in ahead[y] => ahead[x] \subseteq ahead[y]

\* An element has fewer ahead of it than one it is ahead of, and fewer than there are.
LEMMA RankGrows ==
  ASSUME NEW S, NEW ahead, IsRanking(S, ahead), NEW y \in S
  PROVE  /\ Cardinality(ahead[y]) \in Nat /\ Cardinality(ahead[y]) < Cardinality(S)
         /\ \A x \in ahead[y] : Cardinality(ahead[x]) < Cardinality(ahead[y])
<1>1. ASSUME NEW T \in SUBSET S, NEW z \in S, z \in T, ahead[z] \subseteq T
      PROVE  Cardinality(ahead[z]) \in Nat /\ Cardinality(ahead[z]) < Cardinality(T)
  <2>1. IsFiniteSet(T) /\ z \notin ahead[z]
    BY FS_Subset DEF IsRanking
  <2>2. IsFiniteSet(ahead[z]) /\ Cardinality(ahead[z]) \in Nat /\ Cardinality(T) \in Nat
    BY <1>1, <2>1, FS_Subset, FS_CardinalityType
  <2>3. Cardinality(ahead[z]) <= Cardinality(T)
    BY <1>1, <2>1, FS_Subset
  <2>4. Cardinality(T) = Cardinality(ahead[z]) => T = ahead[z]
    BY <1>1, <2>1, FS_Subset
  <2> QED
    BY <1>1, <2>1, <2>2, <2>3, <2>4
<1>2. ahead[y] \in SUBSET S
  BY DEF IsRanking
<1>3. ASSUME NEW x \in ahead[y] PROVE Cardinality(ahead[x]) < Cardinality(ahead[y])
  <2>1. x \in S /\ ahead[x] \subseteq ahead[y]
    BY <1>2 DEF IsRanking
  <2> QED
    BY <1>1, <1>2, <2>1
<1> QED
  BY <1>1, <1>2, <1>3

\* As many elements as asked for have fewer than that ahead of them.
LEMMA RankCount ==
  ASSUME NEW S, NEW ahead, IsRanking(S, ahead), NEW n \in Nat, n <= Cardinality(S)
  PROVE  Cardinality({x \in S : Cardinality(ahead[x]) < n}) = n
<1> DEFINE N == Cardinality(S)
           rank == [x \in S |-> Cardinality(ahead[x])]
           T == 0..(N - 1)
           B == {x \in S : Cardinality(ahead[x]) < n}
           f == [x \in B |-> Cardinality(ahead[x])]
<1>1. IsFiniteSet(S) /\ N \in Nat
  BY FS_CardinalityType DEF IsRanking
<1>2. \A x \in S : Cardinality(ahead[x]) \in T
  BY <1>1, RankGrows
<1>3. \A x, y \in S : Cardinality(ahead[x]) = Cardinality(ahead[y]) => x = y
  <2> SUFFICES ASSUME NEW x \in S, NEW y \in S, Cardinality(ahead[x]) = Cardinality(ahead[y]), x # y
               PROVE  FALSE
    OBVIOUS
  <2>1. x \in ahead[y] \/ y \in ahead[x]
    BY DEF IsRanking
  <2>2. Cardinality(ahead[x]) \in Nat /\ Cardinality(ahead[y]) \in Nat
    BY RankGrows
  <2>3. x \in ahead[y] => Cardinality(ahead[x]) < Cardinality(ahead[y])
    BY RankGrows
  <2>4. y \in ahead[x] => Cardinality(ahead[y]) < Cardinality(ahead[x])
    BY RankGrows
  <2> QED
    BY <2>1, <2>2, <2>3, <2>4
<1>4. rank \in Injection(S, T)
  BY <1>2, <1>3 DEF Injection, IsInjective
<1>5. IsFiniteSet(T) /\ Cardinality(T) = N
  <2> HIDE DEF N
  <2>1. N - 1 \in Int
    BY <1>1
  <2>2. IsFiniteSet(0..(N - 1)) /\ Cardinality(0..(N - 1)) = IF 0 > N - 1 THEN 0 ELSE (N - 1) - 0 + 1
    BY <2>1, FS_Interval, SMTT(30)
  <2> QED
    BY <1>1, <2>2
<1>6. rank \in Surjection(S, T)
  <2> HIDE DEF rank, T
  <2> QED
    BY <1>4, <1>5, FS_Injection
<1>7. \A k \in 0..(n - 1) : \E x \in B : f[x] = k
  <2> SUFFICES ASSUME NEW k \in 0..(n - 1) PROVE \E x \in B : f[x] = k
    OBVIOUS
  <2>1. k \in T /\ k < n
    BY <1>1
  <2>2. PICK x \in S : rank[x] = k
    BY <1>6, <2>1 DEF Surjection
  <2> QED
    BY <2>1, <2>2
<1>8. \A x \in B : f[x] \in 0..(n - 1)
  BY <1>1, <1>2
<1>9. f \in Bijection(B, 0..(n - 1))
  <2>1. f \in Injection(B, 0..(n - 1))
    BY <1>3, <1>8 DEF Injection, IsInjective
  <2>2. f \in Surjection(B, 0..(n - 1))
    BY <1>7, <1>8 DEF Surjection
  <2> QED
    BY <2>1, <2>2 DEF Bijection
<1>10. IsFiniteSet(B)
  BY <1>1, FS_Subset
<1>11. ExistsBijection(B, 0..(n - 1))
  BY <1>9 DEF ExistsBijection
<1> HIDE DEF B
<1>12. Cardinality(0..(n - 1)) = Cardinality(B)
  BY <1>10, <1>11, FS_Bijection
<1>13. Cardinality(0..(n - 1)) = n
  BY FS_Interval
<1> QED
  BY <1>12, <1>13 DEF B

----------------------------------------------------------------------------
(* Apportionment, by the names of the terms of Apportion.                   *)

TotalOf(w) == SumOver(Canonical(w), DOMAIN w)
FloorOf(space, w) == [m \in DOMAIN w |-> (space * Canonical(w)[m]) \div TotalOf(w)]
RestOf(space, w) == [m \in DOMAIN w |-> (space * Canonical(w)[m]) % TotalOf(w)]
LeftoverOf(space, w) == space - SumOver(FloorOf(space, w), DOMAIN w)
ExtraOf(space, w) ==
  {m \in DOMAIN w : /\ RestOf(space, w)[m] # 0
                    /\ Cardinality(Ahead(RestOf(space, w), m)) < LeftoverOf(space, w)}

\* What a set that serves asks for: members with weights, some of them not zero.
IsRequest(space, w) ==
  space \in Nat /\ IsWeights(w) /\ IsFiniteSet(DOMAIN w) /\ DOMAIN w \subseteq Nat

\* The seats, by these terms.
LEMMA ApportionTerms ==
  ASSUME NEW space, NEW w, IsWeights(w)
  PROVE  Apportion(space, w) =
           [m \in DOMAIN w |-> FloorOf(space, w)[m] + IF m \in ExtraOf(space, w) THEN 1 ELSE 0]
<1>1. /\ DOMAIN Canonical(w) = DOMAIN w /\ DOMAIN FloorOf(space, w) = DOMAIN w
  BY CanonicalWeights DEF FloorOf
<1>2. TotalOf(w) = SumFunction(Canonical(w))
  BY <1>1 DEF TotalOf, SumOver, SumFunction
<1>3. LeftoverOf(space, w) = space - SumFunction(FloorOf(space, w))
  BY <1>1 DEF LeftoverOf, SumOver, SumFunction
<1>4. FloorOf(space, w) = [m \in DOMAIN w |-> (space * Canonical(w)[m]) \div SumFunction(Canonical(w))]
  BY <1>2 DEF FloorOf
<1>5. RestOf(space, w) = [m \in DOMAIN w |-> (space * Canonical(w)[m]) % SumFunction(Canonical(w))]
  BY <1>2 DEF RestOf
<1>6. ASSUME NEW m \in DOMAIN w
      PROVE  m \in ExtraOf(space, w) <=>
               /\ RestOf(space, w)[m] # 0
               /\ Cardinality(Ahead(RestOf(space, w), m)) < space - SumFunction(FloorOf(space, w))
  BY <1>3 DEF ExtraOf
<1> QED
  BY <1>4, <1>5, <1>6 DEF Apportion

\* The floor and the remainder of every share.
LEMMA Shares ==
  ASSUME NEW space, NEW w, IsRequest(space, w)
  PROVE  /\ TotalOf(w) \in Nat \ {0}
         /\ \A m \in DOMAIN w : LET c == Canonical(w)[m]
                                    f == FloorOf(space, w)[m]
                                    r == RestOf(space, w)[m]
                                IN  /\ c \in Nat /\ f \in Nat /\ r \in Nat /\ r < TotalOf(w)
                                    /\ space * c = TotalOf(w) * f + r
<1> DEFINE D == DOMAIN w
           c == Canonical(w)
<1>1. /\ IsFiniteSet(D) /\ Gcd(w) \in Nat \ {0}
      /\ \A m \in D : c[m] \in Nat /\ w[m] = Gcd(w) * c[m]
  BY CanonicalWeights, GcdIsGreatest DEF IsRequest
<1>2. PICK m \in D : w[m] # 0
  BY DEF IsRequest, IsWeights, AllZero
<1>3. c[m] # 0
  BY <1>1, <1>2
<1>4. TotalOf(w) \in Nat /\ c[m] <= TotalOf(w)
  <2> HIDE DEF c
  <2> QED
    BY <1>1, SumNat DEF TotalOf, c
<1>5. TotalOf(w) \in Nat \ {0}
  BY <1>1, <1>3, <1>4
<1>6. ASSUME NEW x \in D
      PROVE  LET f == FloorOf(space, w)[x] r == RestOf(space, w)[x] IN
             f \in Nat /\ r \in Nat /\ r < TotalOf(w) /\ space * c[x] = TotalOf(w) * f + r
  <2> DEFINE n == space * c[x]
  <2>1. n \in Nat
    BY <1>1 DEF IsRequest
  <2>2. FloorOf(space, w)[x] = n \div TotalOf(w) /\ RestOf(space, w)[x] = n % TotalOf(w)
    BY DEF FloorOf, RestOf
  <2> HIDE DEF n
  <2>3. n \div TotalOf(w) \in Nat /\ n % TotalOf(w) \in Nat /\ n % TotalOf(w) < TotalOf(w)
    BY <1>5, <2>1, Division
  <2>4. n = TotalOf(w) * (n \div TotalOf(w)) + (n % TotalOf(w))
    BY <1>5, <2>1, Division
  <2>5. n = TotalOf(w) * FloorOf(space, w)[x] + RestOf(space, w)[x]
    BY <2>2, <2>4, Zenon
  <2> QED
    BY <2>2, <2>3, <2>5, Zenon DEF n
<1> QED
  BY <1>1, <1>5, <1>6, Zenon

\* The seats left over make up for the remainders, one for each at most.
LEMMA Leftover ==
  ASSUME NEW space, NEW w, IsRequest(space, w)
  PROVE  /\ LeftoverOf(space, w) \in Nat
         /\ LeftoverOf(space, w) <= Cardinality({m \in DOMAIN w : RestOf(space, w)[m] # 0})
<1> DEFINE D == DOMAIN w
           c == Canonical(w)
           t == TotalOf(w)
           f == FloorOf(space, w)
           r == RestOf(space, w)
           shares == [m \in D |-> space * c[m]]
           floors == [m \in D |-> t * f[m]]
           some == [m \in D |-> IF r[m] # 0 THEN 1 ELSE 0]
           whole == [m \in D |-> t * some[m]]
<1>1. IsFiniteSet(D) /\ space \in Nat
  BY DEF IsRequest
<1>2. t \in Nat \ {0} /\ \A m \in D : /\ c[m] \in Nat /\ f[m] \in Nat /\ r[m] \in Nat /\ r[m] < t
                                      /\ space * c[m] = t * f[m] + r[m]
  BY Shares, Zenon
<1> HIDE DEF c, t, f, r
<1>3. SumOver(shares, D) = space * t
  <2>1. \A m \in D : c[m] \in Int /\ shares[m] = space * c[m]
    BY <1>2
  <2>2. t = SumOver(c, D)
    BY DEF t, c, TotalOf
  <2> HIDE DEF shares
  <2> QED
    BY <1>1, <2>1, <2>2, SumScale
<1>4. SumOver(floors, D) = t * SumOver(f, D) /\ SumOver(f, D) \in Int
  <2>1. \A m \in D : f[m] \in Int /\ floors[m] = t * f[m]
    BY <1>2
  <2> HIDE DEF floors
  <2> QED
    BY <1>1, <1>2, <2>1, SumScale, SumInt
<1>5. SumOver(shares, D) = SumOver(floors, D) + SumOver(r, D) /\ SumOver(r, D) \in Nat
  <2>1. \A m \in D : floors[m] \in Int /\ r[m] \in Int /\ r[m] \in Nat /\ shares[m] = floors[m] + r[m]
    BY <1>2
  <2> HIDE DEF shares, floors
  <2> QED
    BY <1>1, <2>1, SumAdd, SumNat
<1>6. SumOver(whole, D) = t * SumOver(some, D)
  <2>1. \A m \in D : some[m] \in Int /\ whole[m] = t * some[m]
    OBVIOUS
  <2> HIDE DEF whole, some
  <2> QED
    BY <1>1, <1>2, <2>1, SumScale
<1>7. SumOver(r, D) <= SumOver(whole, D)
  <2>1. \A m \in D : r[m] \in Int /\ whole[m] \in Int /\ r[m] <= whole[m]
    BY <1>2
  <2> HIDE DEF whole
  <2> QED
    BY <1>1, <2>1, SumMono
<1>8. SumOver(some, D) = Cardinality({m \in D : r[m] # 0}) /\ SumOver(some, D) \in Nat
  <2>1. \A m \in D : some[m] \in {0, 1} /\ some[m] \in Nat
    OBVIOUS
  <2>2. {m \in D : some[m] = 1} = {m \in D : r[m] # 0}
    OBVIOUS
  <2> HIDE DEF some
  <2>3. SumOver(some, D) = Cardinality({m \in D : some[m] = 1}) /\ SumOver(some, D) \in Nat
    BY <1>1, <2>1, SumCount, SumNat
  <2> QED
    BY <2>2, <2>3
<1> DEFINE left == space - SumOver(f, D)
           nz == SumOver(some, D)
<1>9. t * left = SumOver(r, D) /\ left \in Int
  <2> HIDE DEF shares, floors
  <2>1. t * left = t * space - t * SumOver(f, D)
    BY <1>1, <1>2, <1>4
  <2> QED
    BY <1>1, <1>2, <1>3, <1>4, <1>5, <2>1
<1>10. 0 <= t * left /\ t * left <= t * nz
  <2> HIDE DEF whole, left, some
  <2> QED
    BY <1>5, <1>6, <1>7, <1>9
<1>11. left \in Nat /\ left <= nz
  <2> HIDE DEF left, nz
  <2>1. nz \in Nat
    BY <1>8 DEF nz
  <2> QED
    BY <1>2, <1>9, <1>10, <2>1
<1>12. left = LeftoverOf(space, w)
  BY DEF LeftoverOf, f
<1> HIDE DEF some, left
<1> QED
  BY <1>8, <1>11, <1>12 DEF r, nz

\* The order in which the seats left over are given out is a ranking of the members.
LEMMA AheadRanks ==
  ASSUME NEW space, NEW w, IsRequest(space, w), NEW r, r = RestOf(space, w)
  PROVE  IsRanking(DOMAIN w, [m \in DOMAIN w |-> Ahead(r, m)])
<1>1. /\ DOMAIN r = DOMAIN w /\ \A m \in DOMAIN w : m \in Nat /\ r[m] \in Nat
      /\ IsFiniteSet(DOMAIN w)
  <2>1. \A m \in DOMAIN w : r[m] \in Nat
    BY Shares
  <2> QED
    BY <2>1 DEF RestOf, IsRequest
<1>2. \A m, n \in DOMAIN w : n \in Ahead(r, m) <=> r[n] > r[m] \/ (r[n] = r[m] /\ n < m)
  BY <1>1 DEF Ahead
<1>3. \A m \in DOMAIN w : Ahead(r, m) \subseteq DOMAIN w
  BY <1>1 DEF Ahead
<1>4. \A m \in DOMAIN w : m \notin Ahead(r, m)
  BY <1>1, <1>2
<1>5. \A m, n \in DOMAIN w : m # n => m \in Ahead(r, n) \/ n \in Ahead(r, m)
  BY <1>1, <1>2
<1>6. ASSUME NEW m \in DOMAIN w, NEW n \in DOMAIN w, m \in Ahead(r, n), NEW x \in Ahead(r, m)
      PROVE  x \in Ahead(r, n)
  BY <1>1, <1>2, <1>3, <1>6
<1> DEFINE a == [m \in DOMAIN w |-> Ahead(r, m)]
<1>7. a \in [DOMAIN w -> SUBSET DOMAIN w] /\ \A m \in DOMAIN w : a[m] = Ahead(r, m)
  BY <1>3
<1> HIDE DEF a
<1>8. IsRanking(DOMAIN w, a)
  BY <1>1, <1>4, <1>5, <1>6, <1>7 DEF IsRanking
<1> QED
  BY <1>8 DEF a

\* Every seat left over finds a member with a remainder.
LEMMA ExtraCount ==
  ASSUME NEW space, NEW w, IsRequest(space, w)
  PROVE  /\ Cardinality(ExtraOf(space, w)) = LeftoverOf(space, w)
         /\ \A m, n \in DOMAIN w :
              m \in ExtraOf(space, w) /\ n \in Ahead(RestOf(space, w), m) => n \in ExtraOf(space, w)
<1> DEFINE D == DOMAIN w
           r == RestOf(space, w)
           left == LeftoverOf(space, w)
           ahead == [m \in D |-> Ahead(r, m)]
           NZ == {m \in D : r[m] # 0}
<1>1. IsRanking(D, ahead) /\ IsFiniteSet(D)
  BY AheadRanks DEF IsRequest
<1>2. /\ left \in Nat /\ left <= Cardinality(NZ) /\ \A m \in D : r[m] \in Nat
      /\ DOMAIN r = D
  BY Leftover, Shares DEF RestOf
<1>3. \A m \in D : ahead[m] = Ahead(r, m)
  OBVIOUS
<1> HIDE DEF r, left, ahead
<1>4. IsFiniteSet(NZ) /\ Cardinality(NZ) <= Cardinality(D) /\ Cardinality(NZ) \in Nat /\ Cardinality(D) \in Nat
  BY <1>1, FS_Subset, FS_CardinalityType
<1>5. Cardinality({m \in D : Cardinality(ahead[m]) < left}) = left
  <2>1. left <= Cardinality(D)
    BY <1>2, <1>4
  <2> QED
    BY <1>1, <1>2, <2>1, RankCount
<1>6. ASSUME NEW m \in D, r[m] = 0 PROVE ~(Cardinality(ahead[m]) < left)
  <2>1. NZ \subseteq ahead[m]
    BY <1>2, <1>3, <1>6 DEF Ahead
  <2>2. ahead[m] \in SUBSET D
    BY <1>1 DEF IsRanking
  <2>3. IsFiniteSet(ahead[m])
    BY <1>1, <2>2, FS_Subset
  <2>4. Cardinality(NZ) <= Cardinality(ahead[m]) /\ Cardinality(ahead[m]) \in Nat
    BY <2>1, <2>3, FS_Subset, FS_CardinalityType
  <2> QED
    BY <1>2, <1>4, <2>4
<1>7. ExtraOf(space, w) = {m \in D : Cardinality(ahead[m]) < left}
  <2>1. ExtraOf(space, w) = {m \in D : r[m] # 0 /\ Cardinality(ahead[m]) < left}
    BY <1>3 DEF ExtraOf, r, left
  <2> QED
    BY <1>6, <2>1
<1>8. ASSUME NEW m \in D, NEW n \in D, m \in ExtraOf(space, w), n \in Ahead(r, m)
      PROVE  n \in ExtraOf(space, w)
  <2>1. n \in ahead[m]
    BY <1>3, <1>8
  <2>2. Cardinality(ahead[m]) \in Nat /\ Cardinality(ahead[n]) < Cardinality(ahead[m])
    BY <1>1, <2>1, RankGrows
  <2>3. Cardinality(ahead[n]) \in Nat
    BY <1>1, RankGrows
  <2> QED
    BY <1>2, <1>7, <1>8, <2>2, <2>3
<1> QED
  BY <1>5, <1>7, <1>8 DEF r, left

\* apportion() seats the whole selection space, whatever the weights.
THEOREM SeatsFillSpace ==
  ASSUME NEW space, NEW w, IsRequest(space, w)
  PROVE  SumFunction(Apportion(space, w)) = space
<1> DEFINE D == DOMAIN w
           f == FloorOf(space, w)
           E == ExtraOf(space, w)
           extra == [m \in D |-> IF m \in E THEN 1 ELSE 0]
           seats == Apportion(space, w)
<1>1. /\ IsFiniteSet(D) /\ space \in Nat /\ Cardinality(E) = space - SumOver(f, D)
      /\ \A m \in D : f[m] \in Int
  BY ExtraCount, Shares DEF IsRequest, LeftoverOf
<1>2. DOMAIN seats = D /\ \A m \in D : seats[m] = f[m] + extra[m] /\ extra[m] \in {0, 1} /\ extra[m] \in Int
  BY ApportionTerms DEF IsRequest
<1>3. {m \in D : extra[m] = 1} = E
  BY DEF ExtraOf
<1> HIDE DEF f, E, extra, seats
<1>4. SumOver(seats, D) = SumOver(f, D) + SumOver(extra, D)
  BY <1>1, <1>2, SumAdd
<1>5. SumOver(extra, D) = Cardinality(E)
  BY <1>1, <1>2, <1>3, SumCount
<1>6. SumOver(f, D) \in Int
  BY <1>1, SumInt
<1>7. SumOver(seats, D) = space
  BY <1>1, <1>4, <1>5, <1>6
<1> QED
  BY <1>2, <1>7 DEF SumOver, SumFunction, seats

\* Every member is seated with the floor or the ceiling of its exact share.
THEOREM SeatsWithinQuota ==
  ASSUME NEW space, NEW w, IsRequest(space, w), NEW m \in DOMAIN w
  PROVE  LET total == SumFunction(w)
             seats == Apportion(space, w)[m]
         IN  /\ seats \in Nat /\ total \in Nat \ {0}
             /\ seats * total < space * w[m] + total
             /\ space * w[m] < seats * total + total
<1> DEFINE g == Gcd(w)
           c == Canonical(w)
           t == TotalOf(w)
           f == FloorOf(space, w)[m]
           r == RestOf(space, w)[m]
           s == Apportion(space, w)[m]
<1>1. g \in Nat \ {0} /\ \A x \in DOMAIN w : c[x] \in Nat /\ w[x] = g * c[x]
  BY CanonicalWeights, GcdIsGreatest DEF IsRequest
<1>2. t \in Nat \ {0} /\ f \in Nat /\ r \in Nat /\ r < t /\ space * c[m] = t * f + r
  BY Shares, Zenon
<1>3. s = f \/ (s = f + 1 /\ r # 0)
  <2>1. s = f + IF m \in ExtraOf(space, w) THEN 1 ELSE 0
    BY ApportionTerms DEF IsRequest
  <2>2. m \in ExtraOf(space, w) => r # 0
    BY DEF ExtraOf
  <2>3. f \in Nat
    BY <1>2
  <2> HIDE DEF s, f, r
  <2> QED
    BY <2>1, <2>2, <2>3
<1>4. SumFunction(w) = g * t
  <2>1. SumFunction(w) = SumOver(w, DOMAIN w) /\ t = SumOver(c, DOMAIN w)
    BY DEF SumFunction, SumOver, TotalOf
  <2>2. IsFiniteSet(DOMAIN w) /\ \A x \in DOMAIN w : c[x] \in Int /\ w[x] = g * c[x]
    BY <1>1 DEF IsRequest
  <2> HIDE DEF g, c, t
  <2> QED
    BY <1>1, <2>1, <2>2, SumScale
<1> DEFINE cm == c[m]
<1>5. cm \in Nat /\ w[m] = g * cm /\ space \in Nat /\ space * cm = t * f + r
  BY <1>1, <1>2 DEF IsRequest
<1> HIDE DEF g, c, t, f, r, s, cm
<1>6. s \in Nat
  BY <1>2, <1>3
<1>7. s * t < space * cm + t /\ space * cm < s * t + t
  BY <1>2, <1>3, <1>5
<1>8. s * (g * t) < space * w[m] + g * t /\ space * w[m] < s * (g * t) + g * t
  <2> DEFINE a == s * t
             b == space * cm
  <2>1. a \in Nat /\ b \in Nat /\ a < b + t /\ b < a + t
    BY <1>2, <1>5, <1>6, <1>7
  <2>2. s * (g * t) = g * a /\ space * w[m] = g * b
    BY <1>1, <1>2, <1>5, <1>6
  <2> HIDE DEF a, b
  <2>3. g * a < g * (b + t) /\ g * b < g * (a + t)
    BY <1>1, <1>2, <2>1
  <2>4. g * (b + t) = g * b + g * t /\ g * (a + t) = g * a + g * t
    BY <1>1, <1>2, <2>1
  <2> QED
    BY <2>2, <2>3, <2>4
<1>9. g * t \in Nat \ {0}
  BY <1>1, <1>2
<1> QED
  BY <1>4, <1>6, <1>8, <1>9 DEF s

\* The seats above the floor go by the order of the remainders, and of identities.
THEOREM SeatsByRemainder ==
  ASSUME NEW space, NEW w, IsRequest(space, w), NEW m \in DOMAIN w, NEW n \in DOMAIN w
  PROVE  LET total   == SumFunction(w)
             Floor(x) == (space * w[x]) \div total
             Rest(x)  == (space * w[x]) % total
             seats   == Apportion(space, w)
         IN  seats[m] > Floor(m) /\ seats[n] = Floor(n) =>
               Rest(m) > Rest(n) \/ (Rest(m) = Rest(n) /\ m < n)
<1> DEFINE g == Gcd(w)
           c == Canonical(w)
           t == TotalOf(w)
           f == FloorOf(space, w)
           r == RestOf(space, w)
           E == ExtraOf(space, w)
           s == Apportion(space, w)
           total == SumFunction(w)
<1>1. g \in Nat \ {0} /\ \A x \in DOMAIN w : c[x] \in Nat /\ w[x] = g * c[x]
  BY CanonicalWeights, GcdIsGreatest DEF IsRequest
<1>2. t \in Nat \ {0} /\ \A x \in DOMAIN w : f[x] \in Nat /\ r[x] \in Nat /\ r[x] < t /\ space * c[x] = t * f[x] + r[x]
  BY Shares, Zenon
<1>3. \A x \in DOMAIN w : s[x] = f[x] + IF x \in E THEN 1 ELSE 0
  BY ApportionTerms DEF IsRequest
<1>4. total = g * t
  <2>1. SumFunction(w) = SumOver(w, DOMAIN w) /\ t = SumOver(c, DOMAIN w)
    BY DEF SumFunction, SumOver, TotalOf
  <2>2. IsFiniteSet(DOMAIN w) /\ \A x \in DOMAIN w : c[x] \in Int /\ w[x] = g * c[x]
    BY <1>1 DEF IsRequest
  <2> HIDE DEF g, c, t
  <2> QED
    BY <1>1, <2>1, <2>2, SumScale
<1>5. /\ space \in Nat /\ \A x \in DOMAIN w : x \in Nat
      /\ m \in E /\ n \in Ahead(r, m) => n \in E
      /\ DOMAIN r = DOMAIN w
  BY ExtraCount DEF IsRequest, RestOf
<1> HIDE DEF g, c, t, f, r, E, s, total
<1>6. ASSUME NEW x \in DOMAIN w
      PROVE  (space * w[x]) \div total = f[x] /\ (space * w[x]) % total = g * r[x]
  <2> DEFINE cx == c[x]
             fx == f[x]
             rx == r[x]
             d == g * t
  <2>1. cx \in Nat /\ fx \in Nat /\ rx \in Nat /\ rx < t /\ space * cx = t * fx + rx /\ w[x] = g * cx
    BY <1>1, <1>2
  <2> HIDE DEF cx, fx, rx
  <2>2. space * w[x] = g * (t * fx + rx)
    BY <1>1, <1>5, <2>1
  <2>3. g * (t * fx + rx) = d * fx + g * rx
    BY <1>1, <1>2, <2>1
  <2>4. d \in Nat \ {0} /\ g * rx \in Nat /\ g * rx < d
    BY <1>1, <1>2, <2>1
  <2> DEFINE e == g * rx
  <2> HIDE DEF d, e
  <2>5. (d * fx + e) \div d = fx /\ (d * fx + e) % d = e
    BY <2>1, <2>4 DEF e
  <2> QED
    BY <1>4, <2>2, <2>3, <2>5 DEF d, e, fx, rx
<1>7. ASSUME s[m] > f[m], s[n] = f[n] PROVE g * r[m] > g * r[n] \/ (g * r[m] = g * r[n] /\ m < n)
  <2>1. m \in E /\ n \notin E
    BY <1>2, <1>3, <1>7
  <2>2. n \notin Ahead(r, m) /\ m # n
    BY <1>5, <2>1
  <2>3. r[m] \in Nat /\ r[n] \in Nat
    BY <1>2
  <2>4. ~(r[n] > r[m]) /\ ~(r[n] = r[m] /\ n < m)
    BY <1>5, <2>2 DEF Ahead
  <2>5. r[m] > r[n] \/ (r[m] = r[n] /\ m < n)
    BY <1>5, <2>2, <2>3, <2>4
  <2> QED
    BY <1>1, <2>3, <2>5
<1> QED
  BY <1>6, <1>7 DEF s, total

\* The same ratio in another scale is answered with the same seats.
THEOREM SeatsIgnoreScale ==
  ASSUME NEW space, NEW w, IsWeights(w), NEW k \in Nat \ {0}, NEW v, v = [m \in DOMAIN w |-> k * w[m]]
  PROVE  Canonical(v) = Canonical(w) /\ Apportion(space, v) = Apportion(space, w)
<1>1. Canonical(v) = Canonical(w) /\ DOMAIN v = DOMAIN w
  BY CanonicalScaled
<1> QED
  BY <1>1 DEF Apportion

----------------------------------------------------------------------------
(* Counting by owner.                                                       *)

\* The slots after s that a map gives to m, and those up to s.
OwnedAfter(f, s, m) == {r \in DOMAIN f : r > s /\ f[r] = m}
OwnedUpTo(f, s, m) == {r \in DOMAIN f : r <= s /\ f[r] = m}

\* The slots of A that a map gives to m, and to members of T.
SlotsOf(A, f, m) == {r \in A : f[r] = m}
SlotsOfAll(A, f, T) == {r \in A : f[r] \in T}

\* The slots of a set are those of its owners, each counted once.
LEMMA SumOfOwned ==
  ASSUME NEW A, IsFiniteSet(A), NEW f, NEW T, IsFiniteSet(T),
         NEW c, \A m \in T : c[m] = Cardinality(SlotsOf(A, f, m))
  PROVE  SumOver(c, T) = Cardinality(SlotsOfAll(A, f, T))
<1> DEFINE Of(U) == SlotsOfAll(A, f, U)
           P == {U \in SUBSET T : SumOver(c, U) = Cardinality(Of(U))}
<1>1. {} \in P
  <2>1. Of({}) = {}
    BY DEF SlotsOfAll
  <2> QED
    BY <2>1, SumEmpty, FS_EmptySet
<1>2. ASSUME NEW U \in SUBSET T, NEW m \in T \ U, U \in P PROVE U \cup {m} \in P
  <2> DEFINE One == SlotsOf(A, f, m)
  <2>1. IsFiniteSet(U) /\ IsFiniteSet(One) /\ IsFiniteSet(Of(U))
    BY FS_Subset DEF SlotsOf, SlotsOfAll
  <2>2. \A n \in T : c[n] \in Int
    <3> SUFFICES ASSUME NEW n \in T PROVE c[n] \in Int
      OBVIOUS
    <3> DEFINE B == SlotsOf(A, f, n)
    <3>1. B \in SUBSET A /\ c[n] = Cardinality(B)
      BY DEF SlotsOf
    <3> HIDE DEF B
    <3>2. IsFiniteSet(B)
      BY <3>1, FS_Subset
    <3>3. Cardinality(B) \in Nat
      BY <3>2, FS_CardinalityType
    <3> QED
      BY <3>1, <3>3
  <2>3. SumOver(c, U \cup {m}) = SumOver(c, U) + c[m]
    BY <2>1, <2>2, SumInsert
  <2>4. Of(U \cup {m}) = Of(U) \cup One /\ Of(U) \cap One = {}
    BY DEF SlotsOf, SlotsOfAll
  <2>5. SumOver(c, U) = Cardinality(Of(U)) /\ c[m] = Cardinality(One)
    BY <1>2
  <2> HIDE DEF Of, One
  <2>6. Cardinality(Of(U) \cup One) = Cardinality(Of(U)) + Cardinality(One) - Cardinality(Of(U) \cap One)
    BY <2>1, FS_Union
  <2>7. Cardinality(Of(U) \cap One) = 0 /\ Cardinality(Of(U)) \in Nat /\ Cardinality(One) \in Nat
    BY <2>1, <2>4, FS_EmptySet, FS_CardinalityType
  <2>8. Cardinality(Of(U) \cup One) = Cardinality(Of(U)) + Cardinality(One)
    BY <2>6, <2>7
  <2> QED
    BY <2>3, <2>4, <2>5, <2>8
<1> HIDE DEF P
<1>3. T \in P
  BY <1>1, <1>2, EverySubset
<1> QED
  BY <1>3 DEF P

\* What the slots after s count for, one slot further.
LEMMA OwnedFrom ==
  ASSUME NEW n \in Nat, NEW f, DOMAIN f = 1..n, NEW s \in 1..n, NEW m
  PROVE  /\ Cardinality(OwnedAfter(f, s, m)) \in Nat
         /\ Cardinality(OwnedAfter(f, s - 1, m)) =
              Cardinality(OwnedAfter(f, s, m)) + IF f[s] = m THEN 1 ELSE 0
         /\ Cardinality(OwnedUpTo(f, s - 1, m)) \in Nat
         /\ Cardinality(OwnedUpTo(f, s, m)) =
              Cardinality(OwnedUpTo(f, s - 1, m)) + IF f[s] = m THEN 1 ELSE 0
<1>1. IsFiniteSet(1..n)
  BY FS_Interval
<1>2. /\ OwnedAfter(f, s, m) \in SUBSET (1..n) /\ s \notin OwnedAfter(f, s, m)
      /\ OwnedAfter(f, s - 1, m) = OwnedAfter(f, s, m) \cup IF f[s] = m THEN {s} ELSE {}
  BY DEF OwnedAfter
<1>3. /\ OwnedUpTo(f, s - 1, m) \in SUBSET (1..n) /\ s \notin OwnedUpTo(f, s - 1, m)
      /\ OwnedUpTo(f, s, m) = OwnedUpTo(f, s - 1, m) \cup IF f[s] = m THEN {s} ELSE {}
  BY DEF OwnedUpTo
<1>4. ASSUME NEW U \in SUBSET (1..n), s \notin U
      PROVE  /\ Cardinality(U) \in Nat
             /\ Cardinality(U \cup IF f[s] = m THEN {s} ELSE {}) = Cardinality(U) + IF f[s] = m THEN 1 ELSE 0
  <2>1. IsFiniteSet(U)
    BY <1>1, FS_Subset
  <2>2. Cardinality(U) \in Nat /\ Cardinality(U \cup {s}) = Cardinality(U) + 1
    BY <1>4, <2>1, FS_CardinalityType, FS_AddElement
  <2>3. U \cup {} = U
    OBVIOUS
  <2>4. CASE f[s] = m
    BY <2>2, <2>4
  <2>5. CASE f[s] # m
    BY <2>2, <2>3, <2>5
  <2> QED
    BY <2>4, <2>5
<1> QED
  BY <1>2, <1>3, <1>4

\* The slots after s belong to at most as many owners' counts as there are slots.
LEMMA OwnedAfterSum ==
  ASSUME NEW n \in Nat, NEW f, DOMAIN f = 1..n, NEW s \in 0..n, NEW T, IsFiniteSet(T),
         NEW c, \A m \in T : c[m] = Cardinality(OwnedAfter(f, s, m))
  PROVE  /\ SumOver(c, T) \in Nat /\ SumOver(c, T) <= n - s
         /\ (\A r \in 1..n : f[r] \in T) => SumOver(c, T) = n - s
<1> DEFINE A == (s + 1)..n
           B == SlotsOfAll(A, f, T)
<1>1. IsFiniteSet(A) /\ Cardinality(A) = n - s
  <2>1. s + 1 \in Int /\ n \in Int
    OBVIOUS
  <2>2. IsFiniteSet(A) /\ Cardinality(A) = IF s + 1 > n THEN 0 ELSE n - (s + 1) + 1
    BY <2>1, FS_Interval
  <2> QED
    BY <2>2
<1>2. \A m \in T : OwnedAfter(f, s, m) = SlotsOf(A, f, m)
  BY DEF OwnedAfter, SlotsOf
<1>3. SumOver(c, T) = Cardinality(B)
  <2>1. \A m \in T : c[m] = Cardinality(SlotsOf(A, f, m))
    BY <1>2
  <2> HIDE DEF A
  <2> QED
    BY <1>1, <2>1, SumOfOwned
<1>4. B \in SUBSET A /\ ((\A r \in 1..n : f[r] \in T) => B = A)
  BY DEF SlotsOfAll
<1> HIDE DEF A, B
<1>5. IsFiniteSet(B) /\ Cardinality(B) <= Cardinality(A) /\ Cardinality(B) \in Nat
  BY <1>1, <1>4, FS_Subset, FS_CardinalityType
<1> QED
  BY <1>1, <1>3, <1>4, <1>5

----------------------------------------------------------------------------
(* One slot of the greedy construction, by the names of the terms of Decide. *)

PendingAfter(b, o) == IF o = Unowned THEN b.pending ELSE [b.pending EXCEPT ![o] = @ - 1]
DropOf(b, o) == IF o = Unowned THEN 0 ELSE DropPending(b.pending[o], b.remaining[o])
KeptBy(b, o, m) == b.kept + IF m = o THEN 1 ELSE 0
AchievableBy(b, o, m) ==
  b.achievable - DropOf(b, o) - DropRemaining(PendingAfter(b, o)[m], b.remaining[m])
FeasibleFor(b, o, budget, m) == b.remaining[m] # 0 /\ KeptBy(b, o, m) + AchievableBy(b, o, m) >= budget
GrantTo(b, o, m) ==
  [owner |-> m, pending |-> PendingAfter(b, o), kept |-> KeptBy(b, o, m),
   remaining |-> [b.remaining EXCEPT ![m] = @ - 1], achievable |-> AchievableBy(b, o, m)]
Smallest(b, o, budget, table, m) ==
  FeasibleFor(b, o, budget, m) /\ \A n \in table : FeasibleFor(b, o, budget, n) => m <= n

\* The grant, by these terms.
LEMMA DecideTerms ==
  ASSUME NEW b, NEW o, NEW table, NEW budget
  PROVE  Decide(b, o, table, budget) = GrantTo(b, o, CHOOSE m \in table : Smallest(b, o, budget, table, m))
BY DEF Decide, GrantTo, Smallest, FeasibleFor, AchievableBy, KeptBy, DropOf, PendingAfter

\* How many undecided slots can keep their owner: of each member no more than it
\* still owns, and no more than it may still be granted.
Keepable(p, r, table) == SumOver([m \in table |-> Least(p[m], r[m])], table)

\* A construction under way, before a slot whose owner was o: some slot of o is
\* undecided, and without the slot fewer are owned than are to be granted.
UnderWay(b, o, table, budget) ==
  /\ IsFiniteSet(table) /\ table \subseteq Nat \ {0} /\ o \in table \cup {Unowned}
  /\ b.pending \in [table -> Nat] /\ b.remaining \in [table -> Nat] /\ b.kept \in Nat /\ budget \in Nat
  /\ b.achievable = Keepable(b.pending, b.remaining, table)
  /\ b.kept + b.achievable = budget
  /\ o # Unowned => b.pending[o] > 0
  /\ SumOver(PendingAfter(b, o), table) < SumOver(b.remaining, table)

\* Deciding a slot leaves one slot less to its owner, and the others theirs.
LEMMA PendingShape ==
  ASSUME NEW b, NEW o, NEW table, NEW budget, UnderWay(b, o, table, budget)
  PROVE  /\ PendingAfter(b, o) \in [table -> Nat]
         /\ \A m \in table : PendingAfter(b, o)[m] = b.pending[m] - IF m = o THEN 1 ELSE 0
<1>1. /\ b.pending \in [table -> Nat] /\ o \in table \cup {Unowned} /\ Unowned \notin table
      /\ o # Unowned => b.pending[o] > 0
  BY DEF UnderWay, Unowned
<1> QED
  BY <1>1 DEF PendingAfter

\* Granting the slot to a member leaves "achievable" what it stands for.
LEMMA GrantKeepable ==
  ASSUME NEW b, NEW o, NEW table, NEW budget, UnderWay(b, o, table, budget),
         NEW m \in table, b.remaining[m] # 0
  PROVE  /\ AchievableBy(b, o, m) =
              Keepable(PendingAfter(b, o), [b.remaining EXCEPT ![m] = @ - 1], table)
         /\ AchievableBy(b, o, m) \in Int
         /\ [b.remaining EXCEPT ![m] = @ - 1] \in [table -> Nat]
<1> DEFINE p == b.pending
           q == PendingAfter(b, o)
           r == b.remaining
           t == [b.remaining EXCEPT ![m] = @ - 1]
           f == [x \in table |-> Least(p[x], r[x])]
           g == [x \in table |-> Least(q[x], r[x])]
           h == [x \in table |-> Least(q[x], t[x])]
<1>1. /\ IsFiniteSet(table) /\ p \in [table -> Nat] /\ r \in [table -> Nat]
      /\ Unowned \notin table /\ o \in table \cup {Unowned}
      /\ b.achievable = SumOver(f, table)
  BY DEF UnderWay, Keepable, Unowned
<1>2. q \in [table -> Nat] /\ \A x \in table : q[x] = p[x] - IF x = o THEN 1 ELSE 0
  BY PendingShape
<1> HIDE DEF p, q, r
<1>3. t \in [table -> Nat] /\ t[m] = r[m] - 1 /\ \A x \in table \ {m} : t[x] = r[x]
  BY <1>1 DEF r
<1> HIDE DEF t
<1>4. \A x \in table : f[x] \in Int /\ g[x] \in Int /\ h[x] \in Int
  BY <1>1, <1>2, <1>3 DEF Least
<1>5. SumOver(g, table) = SumOver(f, table) - DropOf(b, o)
  <2>1. CASE o = Unowned
    <3>1. \A x \in table : f[x] \in Int /\ g[x] = f[x]
      BY <1>1, <1>2, <1>4, <2>1
    <3> HIDE DEF f, g
    <3>2. SumOver(g, table) = SumOver(f, table) /\ SumOver(f, table) \in Int
      BY <1>1, <3>1, SumCong, SumInt
    <3> QED
      BY <2>1, <3>2 DEF DropOf
  <2>2. CASE o # Unowned
    <3>1. o \in table /\ \A x \in table \ {o} : g[x] = f[x]
      BY <1>1, <1>2, <2>2
    <3>2. DropOf(b, o) = f[o] - g[o]
      BY <1>1, <1>2, <2>2, <3>1 DEF DropOf, DropPending, p, r
    <3> HIDE DEF f, g
    <3>3. SumOver(g, table) = SumOver(f, table) + g[o] - f[o]
      BY <1>1, <1>4, <3>1, SumUpdate
    <3>4. SumOver(f, table) \in Int /\ f[o] \in Int /\ g[o] \in Int
      BY <1>1, <1>4, <3>1, SumInt
    <3> QED
      BY <3>2, <3>3, <3>4
  <2> QED
    BY <2>1, <2>2
<1>6. SumOver(h, table) = SumOver(g, table) - DropRemaining(q[m], r[m])
  <2>1. \A x \in table \ {m} : h[x] = g[x]
    BY <1>3
  <2>2. DropRemaining(q[m], r[m]) = g[m] - h[m]
    BY <1>3 DEF DropRemaining
  <2> HIDE DEF h, g
  <2>3. SumOver(h, table) = SumOver(g, table) + h[m] - g[m]
    BY <1>1, <1>4, <2>1, SumUpdate
  <2>4. SumOver(g, table) \in Int /\ g[m] \in Int /\ h[m] \in Int
    BY <1>1, <1>4, SumInt
  <2> QED
    BY <2>2, <2>3, <2>4
<1>7. AchievableBy(b, o, m) = SumOver(h, table)
  BY <1>1, <1>5, <1>6 DEF AchievableBy, q, r
<1>8. SumOver(h, table) \in Int
  <2> HIDE DEF h
  <2> QED
    BY <1>1, <1>4, SumInt
<1> HIDE DEF h
<1>9. SumOver(h, table) = Keepable(q, t, table)
  BY DEF Keepable, h
<1> QED
  BY <1>3, <1>7, <1>8, <1>9 DEF q, t

\* A slot kept by its owner costs nothing of the budget, and no other slot gains any.
LEMMA GrantBudget ==
  ASSUME NEW b, NEW o, NEW table, NEW budget, UnderWay(b, o, table, budget),
         NEW m \in table, b.remaining[m] # 0
  PROVE  /\ KeptBy(b, o, m) + AchievableBy(b, o, m) <= budget
         /\ m = o \/ ((o # Unowned => b.remaining[o] = 0) /\ PendingAfter(b, o)[m] < b.remaining[m])
              => KeptBy(b, o, m) + AchievableBy(b, o, m) = budget
<1> DEFINE q == PendingAfter(b, o)[m]
           r == b.remaining[m]
           a == b.achievable
<1>1. /\ r \in Nat \ {0} /\ b.kept \in Nat /\ b.kept + a = budget /\ budget \in Nat
      /\ o # Unowned => o \in table /\ b.pending[o] \in Nat \ {0} /\ b.remaining[o] \in Nat
      /\ Unowned \notin table
  BY DEF UnderWay, Unowned
<1>2. a \in Int
  <2> DEFINE f == [x \in table |-> Least(b.pending[x], b.remaining[x])]
  <2>1. IsFiniteSet(table) /\ a = SumOver(f, table) /\ \A x \in table : f[x] \in Int
    BY DEF UnderWay, Keepable, Least
  <2> HIDE DEF f, a
  <2> QED
    BY <2>1, SumInt
<1>3. q \in Nat /\ (m = o => q = b.pending[o] - 1)
  BY PendingShape
<1>4. AchievableBy(b, o, m) = a - DropOf(b, o) - DropRemaining(q, r)
  BY DEF AchievableBy
<1>5. o = Unowned => DropOf(b, o) = 0
  BY DEF DropOf
<1>6. o # Unowned => DropOf(b, o) = DropPending(b.pending[o], b.remaining[o])
  BY DEF DropOf
<1>7. \A x, y \in Nat : /\ x > 0 => DropPending(x, y) = IF x <= y THEN 1 ELSE 0
                        /\ y > 0 => DropRemaining(x, y) = IF y <= x THEN 1 ELSE 0
  BY DEF DropPending, DropRemaining, Least
<1>8. CASE m = o
  <2>1. o # Unowned /\ b.remaining[o] = r /\ b.pending[o] = q + 1 /\ KeptBy(b, o, m) = b.kept + 1
    BY <1>1, <1>3, <1>8 DEF KeptBy
  <2>2. DropOf(b, o) = DropPending(q + 1, r)
    BY <1>6, <2>1
  <2> HIDE DEF q, r, a
  <2>3. DropOf(b, o) + DropRemaining(q, r) = 1 /\ DropOf(b, o) \in Int /\ DropRemaining(q, r) \in Int
    BY <1>1, <1>3, <1>7, <2>2
  <2> QED
    BY <1>1, <1>2, <1>4, <2>1, <2>3
<1>9. CASE m # o
  <2>1. KeptBy(b, o, m) = b.kept
    BY <1>1, <1>9 DEF KeptBy
  <2>2. /\ DropOf(b, o) \in Nat /\ DropRemaining(q, r) \in Nat
        /\ (o # Unowned => b.remaining[o] = 0) => DropOf(b, o) = 0
        /\ q < r => DropRemaining(q, r) = 0
    <3> HIDE DEF q, r, a
    <3> QED
      BY <1>1, <1>3, <1>5, <1>6, <1>7
  <2> HIDE DEF a
  <2> QED
    BY <1>1, <1>2, <1>4, <1>9, <2>1, <2>2
<1> QED
  BY <1>8, <1>9

\* Some member can be granted the slot within the budget.
LEMMA SomeFeasible ==
  ASSUME NEW b, NEW o, NEW table, NEW budget, UnderWay(b, o, table, budget)
  PROVE  \E m \in table : FeasibleFor(b, o, budget, m)
<1>1. /\ o \in table \cup {Unowned} /\ b.remaining \in [table -> Nat] /\ IsFiniteSet(table)
      /\ budget \in Nat
      /\ SumOver(PendingAfter(b, o), table) < SumOver(b.remaining, table)
  BY DEF UnderWay
<1>2. CASE o # Unowned /\ b.remaining[o] # 0
  <2>1. KeptBy(b, o, o) + AchievableBy(b, o, o) = budget
    BY <1>1, <1>2, GrantBudget
  <2> QED
    BY <1>1, <1>2, <2>1 DEF FeasibleFor
<1>3. CASE o # Unowned => b.remaining[o] = 0
  <2> DEFINE q == PendingAfter(b, o)
             r == b.remaining
  <2>1. q \in [table -> Nat]
    BY PendingShape
  <2>2. \E m \in table : q[m] < r[m]
    <3> SUFFICES ASSUME \A m \in table : ~(q[m] < r[m]) PROVE FALSE
      OBVIOUS
    <3>1. \A m \in table : r[m] \in Int /\ q[m] \in Int /\ r[m] <= q[m]
      BY <1>1, <2>1
    <3> HIDE DEF q, r
    <3>2. SumOver(r, table) <= SumOver(q, table) /\ SumOver(r, table) \in Int /\ SumOver(q, table) \in Int
      BY <1>1, <3>1, SumMono, SumInt
    <3> QED
      BY <1>1, <3>2 DEF q, r
  <2>3. PICK m \in table : q[m] < r[m]
    BY <2>2
  <2>4. r[m] # 0
    BY <1>1, <2>1, <2>3
  <2>5. KeptBy(b, o, m) + AchievableBy(b, o, m) = budget
    BY <1>3, <2>3, <2>4, GrantBudget
  <2> QED
    BY <1>1, <2>4, <2>5 DEF FeasibleFor
<1> QED
  BY <1>2, <1>3

\* One slot: it goes to the smallest feasible member, and the budget stays in reach.
LEMMA DecideSlot ==
  ASSUME NEW b, NEW o, NEW table, NEW budget, UnderWay(b, o, table, budget)
  PROVE  \E m \in table :
           /\ b.remaining[m] # 0
           /\ Decide(b, o, table, budget) = GrantTo(b, o, m)
           /\ KeptBy(b, o, m) + AchievableBy(b, o, m) = budget
           /\ \A n \in table : FeasibleFor(b, o, budget, n) => m <= n
<1> DEFINE F == {m \in table : FeasibleFor(b, o, budget, m)}
           m == CHOOSE m \in table : Smallest(b, o, budget, table, m)
<1>1. \E x \in table : Smallest(b, o, budget, table, x)
  <2>1. F \in SUBSET Nat /\ F # {}
    BY SomeFeasible DEF UnderWay
  <2>2. \E x \in F : \A y \in F : x <= y
    <3> HIDE DEF F
    <3> QED
      BY <2>1, LeastNatural
  <2> QED
    BY <2>2 DEF Smallest
<1>2. m \in table /\ Smallest(b, o, budget, table, m)
  BY <1>1
<1>3. Decide(b, o, table, budget) = GrantTo(b, o, m)
  BY DecideTerms
<1> HIDE DEF m
<1>4. b.remaining[m] # 0 /\ KeptBy(b, o, m) + AchievableBy(b, o, m) >= budget
  BY <1>2 DEF Smallest, FeasibleFor
<1>5. KeptBy(b, o, m) + AchievableBy(b, o, m) <= budget /\ AchievableBy(b, o, m) \in Int
  BY <1>2, <1>4, GrantBudget, GrantKeepable
<1>6. KeptBy(b, o, m) \in Int /\ budget \in Int
  BY DEF UnderWay, KeptBy
<1>7. KeptBy(b, o, m) + AchievableBy(b, o, m) = budget
  BY <1>4, <1>5, <1>6
<1> QED
  BY <1>2, <1>3, <1>4, <1>7 DEF Smallest

----------------------------------------------------------------------------
(* The whole construction.                                                  *)

\* One step of the recursive function of Construct, where g has the steps before.
StepOf(old, held, quota, budget, g, s) ==
  IF s = 0
  THEN [owner |-> Unowned, pending |-> held, remaining |-> quota, achievable |-> budget, kept |-> 0]
  ELSE Decide(g[s - 1], old[s], DOMAIN quota, budget)

IsRun(old, held, quota, budget, n, g) == g = [s \in 0..n |-> StepOf(old, held, quota, budget, g, s)]

\* The function exists, step by step.
LEMMA StepsFixpoint ==
  ASSUME NEW old, NEW held, NEW quota, NEW budget, NEW n \in Nat
  PROVE  \E g : IsRun(old, held, quota, budget, n, g)
<1> DEFINE Step(g, s) == StepOf(old, held, quota, budget, g, s)
           Good(g, k) == \A s \in 0..n : s < k => g[s] = Step(g, s)
           P == {k \in Nat : \E g : Good(g, k)}
<1>1. ASSUME NEW g, NEW k \in Nat, Good(g, k) PROVE Good([s \in 0..n |-> Step(g, s)], k + 1)
  <2> DEFINE h == [s \in 0..n |-> Step(g, s)]
  <2> SUFFICES ASSUME NEW s \in 0..n, s < k + 1 PROVE h[s] = Step(h, s)
    OBVIOUS
  <2>1. h[s] = Step(g, s)
    OBVIOUS
  <2>2. CASE s = 0
    BY <2>1, <2>2 DEF StepOf
  <2>3. CASE s # 0
    <3>1. s - 1 \in 0..n /\ s - 1 < k
      BY <2>3
    <3>2. h[s - 1] = g[s - 1]
      BY <1>1, <3>1
    <3> HIDE DEF h
    <3> QED
      BY <2>1, <2>3, <3>2 DEF StepOf
  <2> QED
    BY <2>2, <2>3
<1>2. 0 \in P
  OBVIOUS
<1>3. \A k \in Nat : k \in P => k + 1 \in P
  <2> SUFFICES ASSUME NEW k \in Nat, k \in P PROVE k + 1 \in P
    OBVIOUS
  <2> HIDE DEF Good
  <2>1. PICK g : Good(g, k)
    OBVIOUS
  <2>2. Good([s \in 0..n |-> Step(g, s)], k + 1)
    BY <1>1, <2>1
  <2> QED
    BY <2>2
<1> HIDE DEF P
<1>4. Nat \subseteq P
  BY <1>2, <1>3, EveryNatural
<1>5. PICK g : Good(g, n + 1)
  BY <1>4 DEF P
<1> DEFINE h == [s \in 0..n |-> Step(g, s)]
<1>6. \A s \in 0..n : h[s] = g[s]
  BY <1>5
<1>7. ASSUME NEW s \in 0..n PROVE Step(g, s) = Step(h, s)
  <2>1. s # 0 => s - 1 \in 0..n
    OBVIOUS
  <2> HIDE DEF h
  <2> QED
    BY <1>6, <2>1 DEF StepOf
<1>8. h = [s \in 0..n |-> Step(h, s)]
  <2>1. h = [s \in 0..n |-> Step(g, s)]
    OBVIOUS
  <2> HIDE DEF h, Step
  <2> QED
    BY <1>7, <2>1
<1> HIDE DEF h
<1>9. IsRun(old, held, quota, budget, n, h)
  BY <1>8 DEF IsRun
<1> QED
  BY <1>9

\* The construction is a run of its steps.
LEMMA ConstructUnfolds ==
  ASSUME NEW old, NEW held, NEW quota, NEW budget
  PROVE  Construct(old, held, quota, budget) =
           LET d == CHOOSE g : IsRun(old, held, quota, budget, Cardinality(DOMAIN old), g)
           IN  [s \in DOMAIN old |-> d[s].owner]
BY DEF Construct, IsRun, StepOf

\* The function d that "new" has its owners from.
RunTo(old, n, held, quota, budget, d, new) ==
  /\ \A s \in 0..n : d[s] = StepOf(old, held, quota, budget, d, s)
  /\ new = [s \in 1..n |-> d[s].owner]

\* The map built is that of the owners which the function has.
LEMMA ConstructTerms ==
  ASSUME NEW n \in Nat, NEW old, DOMAIN old = 1..n, NEW held, NEW quota, NEW budget
  PROVE  \E d : RunTo(old, n, held, quota, budget, d, Construct(old, held, quota, budget))
<1> DEFINE d == CHOOSE g : IsRun(old, held, quota, budget, n, g)
<1>1. IsRun(old, held, quota, budget, n, d)
  BY StepsFixpoint
<1>2. Cardinality(DOMAIN old) = n
  BY FS_Interval
<1>3. Construct(old, held, quota, budget) = [s \in 1..n |-> d[s].owner]
  BY <1>2, ConstructUnfolds
<1> HIDE DEF d
<1>4. \A s \in 0..n : d[s] = StepOf(old, held, quota, budget, d, s)
  BY <1>1 DEF IsRun
<1> QED
  BY <1>3, <1>4 DEF RunTo

\* What rebalance_slots hands to the construction: the old map, what every member
\* of the table holds in it and is to own, and how many slots can keep their owner.
Constructible(old, n, held, quota, budget) ==
  LET table == DOMAIN quota IN
  /\ n \in Nat /\ IsFiniteSet(table) /\ table \subseteq Nat \ {0}
  /\ old \in [1..n -> table \cup {Unowned}]
  /\ quota \in [table -> Nat] /\ SumOver(quota, table) = n
  /\ held \in [table -> Nat] /\ \A m \in table : held[m] = Cardinality(OwnedBy(old, m))
  /\ budget = Keepable(held, quota, table)

\* The slots up to s, and after s, to which two maps give the same owner.
SameUpTo(f, g, s) == {r \in DOMAIN f : r <= s /\ f[r] = g[r]}
SameAfter(f, g, s) == {r \in DOMAIN f : r > s /\ f[r] = g[r]}

\* What the construction has after s slots of the map "new": the counts of the
\* undecided slots, of the seats not yet granted, and of the slots kept.
BuiltUpTo(old, n, quota, budget, new, b, s) ==
  LET table == DOMAIN quota IN
  /\ b.pending \in [table -> Nat] /\ b.remaining \in [table -> Nat] /\ b.kept \in Nat
  /\ \A m \in table : /\ b.pending[m] = Cardinality(OwnedAfter(old, s, m))
                      /\ Cardinality(OwnedUpTo(new, s, m)) + b.remaining[m] = quota[m]
  /\ SumOver(b.remaining, table) = n - s
  /\ b.kept = Cardinality(SameUpTo(new, old, s))
  /\ b.achievable = Keepable(b.pending, b.remaining, table)
  /\ b.kept + b.achievable = budget

\* A slot more, on which two maps agree or not.
LEMMA SameFrom ==
  ASSUME NEW n \in Nat, NEW f, DOMAIN f = 1..n, NEW g, NEW s \in 1..n
  PROVE  /\ Cardinality(SameUpTo(f, g, s - 1)) \in Nat
         /\ Cardinality(SameUpTo(f, g, s)) =
              Cardinality(SameUpTo(f, g, s - 1)) + IF f[s] = g[s] THEN 1 ELSE 0
<1> DEFINE U == SameUpTo(f, g, s - 1)
<1>1. IsFiniteSet(1..n)
  BY FS_Interval
<1>2. /\ U \in SUBSET (1..n) /\ s \notin U
      /\ SameUpTo(f, g, s) = U \cup IF f[s] = g[s] THEN {s} ELSE {}
  BY DEF SameUpTo
<1> HIDE DEF U
<1>3. IsFiniteSet(U)
  BY <1>1, <1>2, FS_Subset
<1>4. Cardinality(U) \in Nat /\ Cardinality(U \cup {s}) = Cardinality(U) + 1
  BY <1>2, <1>3, FS_CardinalityType, FS_AddElement
<1>5. U \cup {} = U
  OBVIOUS
<1>6. Cardinality(SameUpTo(f, g, s)) = Cardinality(U) + IF f[s] = g[s] THEN 1 ELSE 0
  <2>1. CASE f[s] = g[s]
    BY <1>2, <1>4, <2>1
  <2>2. CASE f[s] # g[s]
    BY <1>2, <1>4, <1>5, <2>2
  <2> QED
    BY <2>1, <2>2
<1> QED
  BY <1>4, <1>6 DEF U

\* Before a slot the construction is under way as far as Decide needs it.
LEMMA BuiltUnderWay ==
  ASSUME NEW old, NEW n, NEW held, NEW quota, NEW budget, Constructible(old, n, held, quota, budget),
         NEW new, NEW s \in 1..n, NEW b, BuiltUpTo(old, n, quota, budget, new, b, s - 1)
  PROVE  /\ UnderWay(b, old[s], DOMAIN quota, budget)
         /\ \A m \in DOMAIN quota : PendingAfter(b, old[s])[m] = Cardinality(OwnedAfter(old, s, m))
<1> DEFINE table == DOMAIN quota
           o == old[s]
           q == PendingAfter(b, o)
<1>1. /\ n \in Nat /\ IsFiniteSet(table) /\ table \subseteq Nat \ {0} /\ DOMAIN old = 1..n
      /\ o \in table \cup {Unowned} /\ Unowned \notin table
  BY DEF Constructible, Unowned
<1>2. /\ b.pending \in [table -> Nat] /\ b.remaining \in [table -> Nat] /\ b.kept \in Nat
      /\ \A m \in table : b.pending[m] = Cardinality(OwnedAfter(old, s - 1, m))
      /\ SumOver(b.remaining, table) = n - (s - 1)
      /\ b.achievable = Keepable(b.pending, b.remaining, table)
      /\ b.kept + b.achievable = budget
  BY DEF BuiltUpTo
<1>3. \A m \in table : /\ Cardinality(OwnedAfter(old, s, m)) \in Nat
                       /\ b.pending[m] = Cardinality(OwnedAfter(old, s, m)) + IF o = m THEN 1 ELSE 0
  BY <1>1, <1>2, OwnedFrom, SMTT(30)
<1>4. q \in [table -> Nat] /\ \A m \in table : q[m] = Cardinality(OwnedAfter(old, s, m))
  BY <1>1, <1>2, <1>3, SMTT(30) DEF PendingAfter
<1>5. o # Unowned => b.pending[o] > 0
  BY <1>1, <1>3
<1>6. SumOver(q, table) < SumOver(b.remaining, table)
  <2> HIDE DEF q, o
  <2>1. s \in 0..n
    BY <1>1
  <2>2. SumOver(q, table) \in Nat /\ SumOver(q, table) <= n - s
    BY <1>1, <1>4, <2>1, OwnedAfterSum
  <2> QED
    BY <1>1, <1>2, <2>2
<1>7. budget \in Nat
  <2> DEFINE f == [m \in table |-> Least(held[m], quota[m])]
  <2>1. budget = SumOver(f, table) /\ \A m \in table : f[m] \in Nat
    BY DEF Constructible, Keepable, Least
  <2> HIDE DEF f
  <2> QED
    BY <1>1, <2>1, SumNat
<1> QED
  BY <1>1, <1>2, <1>4, <1>5, <1>6, <1>7 DEF UnderWay

\* A slot granted to a member with capacity leaves the construction as it should be.
LEMMA BuiltFurther ==
  ASSUME NEW old, NEW n, NEW held, NEW quota, NEW budget, Constructible(old, n, held, quota, budget),
         NEW new, DOMAIN new = 1..n, NEW s \in 1..n,
         NEW b, BuiltUpTo(old, n, quota, budget, new, b, s - 1),
         new[s] \in DOMAIN quota, b.remaining[new[s]] # 0,
         KeptBy(b, old[s], new[s]) + AchievableBy(b, old[s], new[s]) = budget
  PROVE  BuiltUpTo(old, n, quota, budget, new, GrantTo(b, old[s], new[s]), s)
<1> DEFINE table == DOMAIN quota
           o == old[s]
           m == new[s]
           q == PendingAfter(b, o)
           t == [b.remaining EXCEPT ![m] = @ - 1]
           c == GrantTo(b, o, m)
<1>1. /\ n \in Nat /\ IsFiniteSet(table) /\ b.remaining \in [table -> Nat] /\ b.kept \in Nat
      /\ \A x \in table : Cardinality(OwnedUpTo(new, s - 1, x)) + b.remaining[x] = quota[x]
      /\ SumOver(b.remaining, table) = n - (s - 1)
      /\ b.kept = Cardinality(SameUpTo(new, old, s - 1))
  BY DEF Constructible, BuiltUpTo
<1>2. UnderWay(b, o, table, budget) /\ \A x \in table : q[x] = Cardinality(OwnedAfter(old, s, x))
  BY BuiltUnderWay
<1>3. q \in [table -> Nat]
  BY <1>2, PendingShape
<1>4. /\ AchievableBy(b, o, m) = Keepable(q, t, table)
      /\ t \in [table -> Nat]
  BY <1>2, GrantKeepable
<1>5. /\ c.pending = q /\ c.remaining = t /\ c.kept = KeptBy(b, o, m)
      /\ c.achievable = AchievableBy(b, o, m)
  BY DEF GrantTo
<1>6. m \in table /\ \A x \in table : t[x] = b.remaining[x] - IF x = m THEN 1 ELSE 0
  BY <1>1
<1>7. \A x \in table : Cardinality(OwnedUpTo(new, s, x)) + t[x] = quota[x]
  <2>1. \A x \in table : /\ Cardinality(OwnedUpTo(new, s - 1, x)) \in Nat
                         /\ Cardinality(OwnedUpTo(new, s, x)) =
                              Cardinality(OwnedUpTo(new, s - 1, x)) + IF m = x THEN 1 ELSE 0
    <3>0. n \in Nat
      BY <1>1
    <3> HIDE DEF table, q, t, c, o
    <3>1. \A x : /\ Cardinality(OwnedUpTo(new, s - 1, x)) \in Nat
                 /\ Cardinality(OwnedUpTo(new, s, x)) =
                      Cardinality(OwnedUpTo(new, s - 1, x)) + IF new[s] = x THEN 1 ELSE 0
      BY <3>0, OwnedFrom
    <3> QED
      BY <3>1, Zenon
  <2> SUFFICES ASSUME NEW x \in table PROVE Cardinality(OwnedUpTo(new, s, x)) + t[x] = quota[x]
    OBVIOUS
  <2> DEFINE u == Cardinality(OwnedUpTo(new, s - 1, x))
             rx == b.remaining[x]
  <2>2. u \in Nat /\ rx \in Nat /\ u + rx = quota[x]
    BY <1>1, <2>1
  <2>3. Cardinality(OwnedUpTo(new, s, x)) = u + IF m = x THEN 1 ELSE 0
    BY <2>1
  <2>4. t[x] = rx - IF x = m THEN 1 ELSE 0
    BY <1>6
  <2> HIDE DEF t, m, u, rx
  <2> QED
    BY <2>2, <2>3, <2>4
<1>8. SumOver(t, table) = n - s
  <2>1. /\ \A x \in table : b.remaining[x] \in Int /\ t[x] \in Int
        /\ \A x \in table \ {m} : t[x] = b.remaining[x]
    BY <1>1, <1>4, <1>6
  <2> DEFINE r == b.remaining
  <2> HIDE DEF t, m
  <2>0. IsFiniteSet(table) /\ m \in table
    BY <1>1, <1>6
  <2>4. /\ \A x \in table : r[x] \in Int /\ t[x] \in Int
        /\ \A x \in table \ {m} : t[x] = r[x]
    BY <2>1
  <2> HIDE DEF r, table
  <2>2. SumOver(t, table) = SumOver(r, table) + t[m] - r[m]
    BY <2>0, <2>4, SumUpdate
  <2>3. t[m] = r[m] - 1 /\ r[m] \in Int /\ SumOver(r, table) = n - (s - 1)
    BY <1>1, <1>6, <2>1 DEF r
  <2> QED
    BY <1>1, <2>2, <2>3
<1>9. c.kept = Cardinality(SameUpTo(new, old, s)) /\ c.kept \in Nat
  <2>0. n \in Nat
    BY <1>1
  <2>1. Cardinality(SameUpTo(new, old, s)) = Cardinality(SameUpTo(new, old, s - 1)) + IF new[s] = old[s] THEN 1 ELSE 0
    BY <2>0, SameFrom
  <2> QED
    BY <1>1, <1>5, <2>1 DEF KeptBy
<1> HIDE DEF q, t, c
<1> QED
  BY <1>2, <1>3, <1>4, <1>5, <1>7, <1>8, <1>9 DEF BuiltUpTo, c

\* The construction runs to the end: after every slot it has what it should, and
\* each slot went to the smallest feasible member.
LEMMA ConstructBuilds ==
  ASSUME NEW old, NEW n, NEW held, NEW quota, NEW budget, Constructible(old, n, held, quota, budget),
         NEW new, new = Construct(old, held, quota, budget)
  PROVE  /\ DOMAIN new = 1..n
         /\ \E d : /\ \A s \in 0..n : BuiltUpTo(old, n, quota, budget, new, d[s], s)
                   /\ \A s \in 1..n : /\ new[s] \in DOMAIN quota
                                      /\ \A x \in DOMAIN quota :
                                           FeasibleFor(d[s - 1], old[s], budget, x) => new[s] <= x
<1> DEFINE table == DOMAIN quota
<1>1. /\ n \in Nat /\ IsFiniteSet(table) /\ table \subseteq Nat \ {0} /\ DOMAIN old = 1..n
      /\ quota \in [table -> Nat] /\ SumOver(quota, table) = n
      /\ held \in [table -> Nat] /\ \A m \in table : held[m] = Cardinality(OwnedBy(old, m))
      /\ budget = Keepable(held, quota, table)
  BY DEF Constructible
<1>2. PICK d : RunTo(old, n, held, quota, budget, d, new)
  BY <1>1, ConstructTerms
<1>3. DOMAIN new = 1..n /\ \A s \in 1..n : new[s] = d[s].owner
  BY <1>2 DEF RunTo
<1> DEFINE Built(s) == BuiltUpTo(old, n, quota, budget, new, d[s], s)
<1>4. Built(0)
  <2> DEFINE b == d[0]
  <2>1. b = [owner |-> Unowned, pending |-> held, remaining |-> quota, achievable |-> budget, kept |-> 0]
    BY <1>1, <1>2 DEF StepOf, RunTo
  <2>2. b.pending = held /\ b.remaining = quota /\ b.achievable = budget /\ b.kept = 0
    BY <2>1
  <2> HIDE DEF b
  <2>3. \A m : OwnedAfter(old, 0, m) = OwnedBy(old, m) /\ OwnedUpTo(new, 0, m) = {}
    BY <1>1, <1>3 DEF OwnedAfter, OwnedUpTo, OwnedBy
  <2>4. SameUpTo(new, old, 0) = {} /\ Cardinality({}) = 0
    BY <1>3, FS_EmptySet DEF SameUpTo
  <2>5. budget \in Int
    <3> DEFINE f == [m \in table |-> Least(held[m], quota[m])]
    <3>1. budget = SumOver(f, table) /\ \A m \in table : f[m] \in Int
      BY <1>1 DEF Keepable, Least
    <3> HIDE DEF f
    <3> QED
      BY <1>1, <3>1, SumInt
  <2>6. ASSUME NEW m \in table PROVE Cardinality(OwnedUpTo(new, 0, m)) + quota[m] = quota[m]
    <3>1. Cardinality(OwnedUpTo(new, 0, m)) = 0
      BY <2>3, <2>4
    <3>2. quota[m] \in Nat
      BY <1>1
    <3> QED
      BY <3>1, <3>2
  <2>7. SumOver(quota, table) = n - 0 /\ 0 + budget = budget
    BY <1>1, <2>5
  <2>8. BuiltUpTo(old, n, quota, budget, new, b, 0)
    <3>1. \A m \in table : held[m] = Cardinality(OwnedAfter(old, 0, m))
      BY <1>1, <2>3
    <3>2. 0 \in Nat /\ 0 = Cardinality(SameUpTo(new, old, 0))
      BY <2>4
    <3> QED
      BY <1>1, <2>2, <2>6, <2>7, <3>1, <3>2 DEF BuiltUpTo
  <2> QED
    BY <2>8 DEF b
<1>5. ASSUME NEW s \in 1..n, Built(s - 1)
      PROVE  /\ Built(s) /\ new[s] \in table
             /\ \A x \in table : FeasibleFor(d[s - 1], old[s], budget, x) => new[s] <= x
  <2> DEFINE b == d[s - 1]
             o == old[s]
  <2>1. UnderWay(b, o, table, budget)
    BY <1>5, BuiltUnderWay
  <2>2. PICK m \in table :
          /\ b.remaining[m] # 0
          /\ Decide(b, o, table, budget) = GrantTo(b, o, m)
          /\ KeptBy(b, o, m) + AchievableBy(b, o, m) = budget
          /\ \A x \in table : FeasibleFor(b, o, budget, x) => m <= x
    BY <2>1, DecideSlot
  <2>3. d[s] = GrantTo(b, o, m)
    <3>1. s \in 0..n /\ s # 0
      BY <1>1
    <3> QED
      BY <1>2, <2>2, <3>1 DEF StepOf, RunTo
  <2>4. new[s] = m
    BY <1>3, <2>3 DEF GrantTo
  <2>5. BuiltUpTo(old, n, quota, budget, new, GrantTo(b, old[s], new[s]), s)
    <3>1. /\ new[s] \in table /\ b.remaining[new[s]] # 0
          /\ KeptBy(b, old[s], new[s]) + AchievableBy(b, old[s], new[s]) = budget
      BY <2>2, <2>4
    <3>2. DOMAIN new = 1..n /\ BuiltUpTo(old, n, quota, budget, new, b, s - 1)
      BY <1>3, <1>5
    <3> HIDE DEF b
    <3> QED
      BY <3>1, <3>2, BuiltFurther
  <2>6. Built(s)
    BY <2>3, <2>4, <2>5
  <2> QED
    BY <2>2, <2>4, <2>6
<1>6. \A s \in 0..n : Built(s)
  <2> DEFINE P == {s \in Nat : s <= n => Built(s)}
  <2> HIDE DEF Built
  <2>1. 0 \in P
    BY <1>4
  <2>2. ASSUME NEW s \in Nat, s \in P PROVE s + 1 \in P
    <3>1. CASE s + 1 <= n
      <4>1. s + 1 \in 1..n /\ (s + 1) - 1 = s /\ Built(s)
        BY <1>1, <2>2, <3>1
      <4>2. Built(s + 1)
        BY <1>5, <4>1
      <4> QED
        BY <4>2
    <3> QED
      BY <3>1
  <2> HIDE DEF P
  <2>3. Nat \subseteq P
    BY <2>1, <2>2, EveryNatural
  <2> QED
    BY <1>1, <2>3 DEF P
<1>7. \A s \in 1..n : s - 1 \in 0..n
  BY <1>1
<1> QED
  BY <1>3, <1>5, <1>6, <1>7

\* Every member of the table is given its quota, and the budget of kept slots is met.
LEMMA ConstructFits ==
  ASSUME NEW old, NEW n, NEW held, NEW quota, NEW budget, Constructible(old, n, held, quota, budget),
         NEW new, new = Construct(old, held, quota, budget)
  PROVE  /\ new \in [1..n -> DOMAIN quota]
         /\ \A m \in DOMAIN quota : Cardinality(OwnedBy(new, m)) = quota[m]
         /\ Cardinality(SameUpTo(new, old, n)) = budget
<1> DEFINE table == DOMAIN quota
<1>1. n \in Nat /\ IsFiniteSet(table) /\ quota \in [table -> Nat] /\ DOMAIN old = 1..n /\ n \in 0..n
  BY DEF Constructible
<1>2. DOMAIN new = 1..n /\ \A s \in 1..n : new[s] \in table
  BY ConstructBuilds
<1>3. PICK b : BuiltUpTo(old, n, quota, budget, new, b, n)
  BY <1>1, ConstructBuilds
<1>4. /\ b.pending \in [table -> Nat] /\ b.remaining \in [table -> Nat] /\ b.kept \in Nat
      /\ \A m \in table : /\ b.pending[m] = Cardinality(OwnedAfter(old, n, m))
                          /\ Cardinality(OwnedUpTo(new, n, m)) + b.remaining[m] = quota[m]
      /\ SumOver(b.remaining, table) = 0
      /\ b.kept = Cardinality(SameUpTo(new, old, n))
      /\ b.achievable = Keepable(b.pending, b.remaining, table)
      /\ b.kept + b.achievable = budget
  BY <1>1, <1>3 DEF BuiltUpTo
<1>5. \A m \in table : b.remaining[m] = 0
  <2> DEFINE r == b.remaining
  <2>1. r \in [table -> Nat] /\ SumOver(r, table) = 0
    BY <1>4
  <2> HIDE DEF r
  <2>2. \A m \in table : r[m] <= 0
    BY <1>1, <2>1, SumNat
  <2>3. \A m \in table : r[m] = 0
    BY <2>1, <2>2
  <2> QED
    BY <2>3 DEF r
<1>6. b.achievable = 0
  <2> DEFINE f == [m \in table |-> Least(b.pending[m], b.remaining[m])]
  <2>1. b.achievable = SumOver(f, table) /\ \A m \in table : f[m] = 0
    BY <1>4, <1>5 DEF Keepable, Least
  <2> HIDE DEF f
  <2> QED
    BY <1>1, <2>1, SumZero
<1>7. ASSUME NEW m \in table PROVE Cardinality(OwnedBy(new, m)) = quota[m]
  <2>1. OwnedUpTo(new, n, m) = OwnedBy(new, m)
    BY <1>1, <1>2 DEF OwnedUpTo, OwnedBy
  <2>2. IsFiniteSet(OwnedBy(new, m))
    <3>1. OwnedBy(new, m) \in SUBSET (1..n) /\ IsFiniteSet(1..n)
      BY <1>1, <1>2, FS_Interval DEF OwnedBy
    <3> QED
      BY <3>1, FS_Subset
  <2>3. Cardinality(OwnedBy(new, m)) \in Nat
    BY <2>2, FS_CardinalityType
  <2>4. Cardinality(OwnedBy(new, m)) + 0 = quota[m]
    BY <1>4, <1>5, <2>1
  <2> QED
    BY <2>3, <2>4
<1>8. new \in [1..n -> table]
  <2>0. \E d : RunTo(old, n, held, quota, budget, d, new)
    BY <1>1, ConstructTerms
  <2>1. new = [s \in 1..n |-> new[s]]
    BY <2>0 DEF RunTo
  <2> QED
    BY <1>2, <2>1
<1>9. Cardinality(SameUpTo(new, old, n)) = budget
  BY <1>4, <1>6
<1> QED
  BY <1>7, <1>8, <1>9

----------------------------------------------------------------------------
(* Other maps with the same counts.                                         *)

\* A set of slots is cut in two at any slot.
SlotsUpTo(X, s) == {r \in X : r <= s}
SlotsAfter(X, s) == {r \in X : r > s}

\* The parts have the sizes that add up to the size of the set.
LEMMA CutAt ==
  ASSUME NEW n \in Nat, NEW X \in SUBSET (1..n), NEW s \in 0..n
  PROVE  /\ Cardinality(SlotsUpTo(X, s)) + Cardinality(SlotsAfter(X, s)) = Cardinality(X)
         /\ Cardinality(SlotsUpTo(X, s)) \in Nat /\ Cardinality(SlotsAfter(X, s)) \in Nat
<1> DEFINE U == SlotsUpTo(X, s)
           V == SlotsAfter(X, s)
<1>1. IsFiniteSet(1..n)
  BY FS_Interval
<1>2. U \in SUBSET (1..n) /\ V \in SUBSET (1..n) /\ U \cup V = X /\ U \cap V = {}
  <2>1. \A r \in X : r \in 1..n /\ (r \in U \/ r \in V) /\ ~(r \in U /\ r \in V)
    BY DEF SlotsUpTo, SlotsAfter
  <2>2. U \subseteq X /\ V \subseteq X
    BY DEF SlotsUpTo, SlotsAfter
  <2> HIDE DEF U, V
  <2> QED
    BY <2>1, <2>2
<1> HIDE DEF U, V
<1>3. IsFiniteSet(U) /\ IsFiniteSet(V)
  BY <1>1, <1>2, FS_Subset
<1>4. Cardinality(U \cup V) = Cardinality(U) + Cardinality(V) - Cardinality(U \cap V)
  BY <1>3, FS_Union
<1>5. Cardinality(U) \in Nat /\ Cardinality(V) \in Nat /\ Cardinality(U \cap V) = 0
  BY <1>2, <1>3, FS_CardinalityType, FS_EmptySet
<1>6. Cardinality(U \cup V) = Cardinality(U) + Cardinality(V)
  BY <1>4, <1>5
<1>7. Cardinality(U) + Cardinality(V) = Cardinality(X)
  BY <1>2, <1>6, Zenon
<1> QED
  BY <1>5, <1>7 DEF U, V

\* Of each member no map keeps more slots than it owned, nor than the map gives it.
LEMMA KeptAtMost ==
  ASSUME NEW n \in Nat, NEW table, IsFiniteSet(table), NEW f \in [1..n -> table], NEW old, DOMAIN old = 1..n,
         NEW s \in 0..n, NEW p, NEW r,
         \A m \in table : p[m] = Cardinality(OwnedAfter(old, s, m)) /\ r[m] = Cardinality(OwnedAfter(f, s, m))
  PROVE  /\ Cardinality(SameAfter(f, old, s)) <= Keepable(p, r, table)
         /\ Cardinality(SameAfter(f, old, s)) = Keepable(p, r, table) =>
              \A m \in table : Cardinality(SlotsOf(SameAfter(f, old, s), f, m)) = Least(p[m], r[m])
<1> DEFINE A == SameAfter(f, old, s)
           kept == [m \in table |-> Cardinality(SlotsOf(A, f, m))]
           low == [m \in table |-> Least(p[m], r[m])]
<1>1. IsFiniteSet(1..n)
  BY FS_Interval
<1>2. A \in SUBSET (1..n) /\ IsFiniteSet(A) /\ SlotsOfAll(A, f, table) = A
  <2>1. A \in SUBSET (1..n) /\ SlotsOfAll(A, f, table) = A
    BY DEF SameAfter, SlotsOfAll
  <2> QED
    BY <1>1, <2>1, FS_Subset
<1>3. ASSUME NEW m \in table PROVE kept[m] \in Int /\ low[m] \in Int /\ kept[m] <= low[m]
  <2> DEFINE K == SlotsOf(A, f, m)
             P == OwnedAfter(old, s, m)
             R == OwnedAfter(f, s, m)
  <2>1. K \subseteq P /\ K \subseteq R /\ P \in SUBSET (1..n) /\ R \in SUBSET (1..n)
    BY DEF SlotsOf, SameAfter, OwnedAfter
  <2>2. kept[m] = Cardinality(K) /\ low[m] = Least(Cardinality(P), Cardinality(R))
    OBVIOUS
  <2> HIDE DEF K, P, R, kept, low
  <2>3. IsFiniteSet(P) /\ IsFiniteSet(R) /\ IsFiniteSet(K)
    BY <1>1, <2>1, FS_Subset
  <2>4. /\ Cardinality(P) \in Nat /\ Cardinality(R) \in Nat /\ Cardinality(K) \in Nat
        /\ Cardinality(K) <= Cardinality(P) /\ Cardinality(K) <= Cardinality(R)
    BY <2>1, <2>3, FS_CardinalityType, FS_Subset
  <2> QED
    BY <2>2, <2>4 DEF Least
<1>4. SumOver(kept, table) = Cardinality(A)
  <2>1. \A m \in table : kept[m] = Cardinality(SlotsOf(A, f, m))
    OBVIOUS
  <2> HIDE DEF kept, A
  <2> QED
    BY <1>2, <2>1, SumOfOwned
<1>5. SumOver(low, table) = Keepable(p, r, table)
  BY DEF Keepable
<1>6. /\ SumOver(kept, table) <= SumOver(low, table)
      /\ SumOver(kept, table) = SumOver(low, table) => \A m \in table : kept[m] = low[m]
  <2> HIDE DEF kept, low
  <2> QED
    BY <1>3, SumMono
<1>7. Cardinality(A) <= Keepable(p, r, table)
  BY <1>4, <1>5, <1>6
<1>8. ASSUME Cardinality(A) = Keepable(p, r, table), NEW m \in table
      PROVE  Cardinality(SlotsOf(A, f, m)) = Least(p[m], r[m])
  <2>1. kept[m] = low[m]
    <3> HIDE DEF kept, low, A
    <3> QED
      BY <1>4, <1>5, <1>6, <1>8
  <2> QED
    BY <2>1
<1> QED
  BY <1>7, <1>8

\* No map with the quotas keeps more than the budget, and one that keeps all of it
\* keeps of each member what the member can keep.
LEMMA BudgetIsMost ==
  ASSUME NEW old, NEW n, NEW held, NEW quota, NEW budget, Constructible(old, n, held, quota, budget),
         NEW f \in [1..n -> DOMAIN quota], \A m \in DOMAIN quota : Cardinality(OwnedBy(f, m)) = quota[m]
  PROVE  /\ Cardinality(SameUpTo(f, old, n)) <= budget
         /\ Cardinality(SameUpTo(f, old, n)) = budget =>
              \A m \in DOMAIN quota : Cardinality(SlotsOf(SameUpTo(f, old, n), f, m)) = Least(held[m], quota[m])
<1>1. /\ n \in Nat /\ IsFiniteSet(DOMAIN quota) /\ DOMAIN old = 1..n /\ 0 \in 0..n
      /\ budget = Keepable(held, quota, DOMAIN quota)
      /\ \A m \in DOMAIN quota : held[m] = Cardinality(OwnedBy(old, m))
  BY DEF Constructible
<1>2. SameUpTo(f, old, n) = SameAfter(f, old, 0)
  BY <1>1 DEF SameUpTo, SameAfter
<1>3. \A m : OwnedAfter(old, 0, m) = OwnedBy(old, m) /\ OwnedAfter(f, 0, m) = OwnedBy(f, m)
  BY <1>1 DEF OwnedAfter, OwnedBy
<1>4. \A m \in DOMAIN quota : /\ held[m] = Cardinality(OwnedAfter(old, 0, m))
                              /\ quota[m] = Cardinality(OwnedAfter(f, 0, m))
  BY <1>1, <1>3
<1>5. /\ Cardinality(SameAfter(f, old, 0)) <= Keepable(held, quota, DOMAIN quota)
      /\ Cardinality(SameAfter(f, old, 0)) = Keepable(held, quota, DOMAIN quota) =>
           \A m \in DOMAIN quota : Cardinality(SlotsOf(SameAfter(f, old, 0), f, m)) = Least(held[m], quota[m])
  BY <1>1, <1>4, KeptAtMost
<1> QED
  BY <1>1, <1>2, <1>5

HasQuotas(f, n, quota) ==
  f \in [1..n -> DOMAIN quota] /\ \A m \in DOMAIN quota : Cardinality(OwnedBy(f, m)) = quota[m]
BeginsLike(f, new, s) == \A r \in 1..(s - 1) : f[r] = new[r]

\* A map with the quotas that keeps the whole budget and begins like the map built
\* shows that its next owner is feasible.
LEMMA BuiltIsSmallest ==
  ASSUME NEW old, NEW n, NEW held, NEW quota, NEW budget, Constructible(old, n, held, quota, budget),
         NEW new, new = Construct(old, held, quota, budget),
         NEW f, HasQuotas(f, n, quota), Cardinality(SameUpTo(f, old, n)) = budget,
         NEW s \in 1..n, BeginsLike(f, new, s)
  PROVE  new[s] <= f[s]
<1>0. /\ f \in [1..n -> DOMAIN quota] /\ \A m \in DOMAIN quota : Cardinality(OwnedBy(f, m)) = quota[m]
      /\ \A r \in 1..(s - 1) : f[r] = new[r]
  BY DEF HasQuotas, BeginsLike
<1> USE <1>0
<1> DEFINE table == DOMAIN quota
           o == old[s]
           m == f[s]
<1>1. n \in Nat /\ IsFiniteSet(table) /\ DOMAIN old = 1..n /\ quota \in [table -> Nat] /\ m \in table
      /\ DOMAIN f = 1..n
  BY DEF Constructible
<1>2. DOMAIN new = 1..n
  BY ConstructBuilds
<1>3. PICK b : /\ BuiltUpTo(old, n, quota, budget, new, b, s - 1)
               /\ \A x \in table : FeasibleFor(b, o, budget, x) => new[s] <= x
  <2>1. s - 1 \in 0..n
    BY <1>1
  <2> QED
    BY <2>1, ConstructBuilds
<1>4. /\ b.remaining \in [table -> Nat] /\ b.kept = Cardinality(SameUpTo(new, old, s - 1)) /\ b.kept \in Nat
      /\ \A x \in table : Cardinality(OwnedUpTo(new, s - 1, x)) + b.remaining[x] = quota[x]
  BY <1>3 DEF BuiltUpTo
<1> DEFINE q == PendingAfter(b, o)
           t == [b.remaining EXCEPT ![m] = @ - 1]
<1>5. UnderWay(b, o, table, budget) /\ \A x \in table : q[x] = Cardinality(OwnedAfter(old, s, x))
  <2>1. BuiltUpTo(old, n, quota, budget, new, b, s - 1)
    BY <1>3
  <2> HIDE DEF q
  <2>2. UnderWay(b, old[s], DOMAIN quota, budget)
    BY <2>1, BuiltUnderWay
  <2>3. \A x \in DOMAIN quota : PendingAfter(b, old[s])[x] = Cardinality(OwnedAfter(old, s, x))
    BY <2>1, BuiltUnderWay
  <2> QED
    BY <2>2, <2>3 DEF q
<1>6. SameUpTo(new, old, s - 1) = SameUpTo(f, old, s - 1)
      /\ \A x : OwnedUpTo(new, s - 1, x) = OwnedUpTo(f, s - 1, x)
  <2>1. \A r \in 1..n : r <= s - 1 => f[r] = new[r]
    BY <1>1
  <2> QED
    BY <1>1, <1>2, <2>1 DEF SameUpTo, OwnedUpTo
<1>7. \A x \in table : /\ b.remaining[x] = Cardinality(OwnedAfter(f, s, x)) + IF m = x THEN 1 ELSE 0
                       /\ Cardinality(OwnedAfter(f, s, x)) \in Nat
  <2> SUFFICES ASSUME NEW x \in table
               PROVE  /\ b.remaining[x] = Cardinality(OwnedAfter(f, s, x)) + IF m = x THEN 1 ELSE 0
                      /\ Cardinality(OwnedAfter(f, s, x)) \in Nat
    OBVIOUS
  <2>1. /\ Cardinality(OwnedUpTo(f, s - 1, x)) + Cardinality(OwnedAfter(f, s - 1, x)) = Cardinality(OwnedBy(f, x))
        /\ Cardinality(OwnedUpTo(f, s - 1, x)) \in Nat /\ Cardinality(OwnedAfter(f, s - 1, x)) \in Nat
    <3> DEFINE X == OwnedBy(f, x)
    <3>1. /\ X \in SUBSET (1..n) /\ s - 1 \in 0..n
          /\ OwnedUpTo(f, s - 1, x) = SlotsUpTo(X, s - 1)
          /\ OwnedAfter(f, s - 1, x) = SlotsAfter(X, s - 1)
      BY <1>1 DEF OwnedBy, OwnedUpTo, OwnedAfter, SlotsUpTo, SlotsAfter
    <3> HIDE DEF X
    <3>2. /\ Cardinality(OwnedUpTo(f, s - 1, x)) + Cardinality(OwnedAfter(f, s - 1, x)) = Cardinality(X)
          /\ Cardinality(OwnedUpTo(f, s - 1, x)) \in Nat /\ Cardinality(OwnedAfter(f, s - 1, x)) \in Nat
      BY <1>1, <3>1, CutAt
    <3> QED
      BY <3>2 DEF X
  <2>2. Cardinality(OwnedUpTo(f, s - 1, x)) + b.remaining[x] = quota[x] /\ b.remaining[x] \in Nat
    BY <1>4, <1>6
  <2>3. /\ Cardinality(OwnedAfter(f, s, x)) \in Nat
        /\ Cardinality(OwnedAfter(f, s - 1, x)) = Cardinality(OwnedAfter(f, s, x)) + IF m = x THEN 1 ELSE 0
    BY <1>1, OwnedFrom
  <2>4. Cardinality(OwnedBy(f, x)) = quota[x]
    OBVIOUS
  <2> HIDE DEF m
  <2> QED
    BY <2>1, <2>2, <2>3, <2>4
<1>8. b.remaining[m] # 0
  BY <1>1, <1>7
<1>9. \A x \in table : t[x] = Cardinality(OwnedAfter(f, s, x))
  BY <1>1, <1>4, <1>7
<1>10. AchievableBy(b, o, m) = Keepable(q, t, table) /\ AchievableBy(b, o, m) \in Int
  BY <1>1, <1>5, <1>8, GrantKeepable
<1>11. Cardinality(SameAfter(f, old, s)) <= Keepable(q, t, table)
  <2>1. s \in 0..n /\ n \in Nat /\ IsFiniteSet(table) /\ f \in [1..n -> table] /\ DOMAIN old = 1..n
    BY <1>1
  <2>2. \A x \in table : q[x] = Cardinality(OwnedAfter(old, s, x)) /\ t[x] = Cardinality(OwnedAfter(f, s, x))
    BY <1>5, <1>9
  <2> HIDE DEF q, t, table
  <2> QED
    BY <2>1, <2>2, KeptAtMost
<1>12. KeptBy(b, o, m) = Cardinality(SameUpTo(f, old, s))
  <2>1. Cardinality(SameUpTo(f, old, s)) = Cardinality(SameUpTo(f, old, s - 1)) + IF f[s] = old[s] THEN 1 ELSE 0
    BY <1>1, SameFrom, SMTT(30)
  <2> QED
    BY <1>4, <1>6, <2>1 DEF KeptBy
<1>13. /\ Cardinality(SameUpTo(f, old, s)) + Cardinality(SameAfter(f, old, s)) = budget
       /\ Cardinality(SameUpTo(f, old, s)) \in Nat /\ Cardinality(SameAfter(f, old, s)) \in Nat
  <2> DEFINE X == SameUpTo(f, old, n)
  <2>1. /\ X \in SUBSET (1..n) /\ s \in 0..n
        /\ SameUpTo(f, old, s) = SlotsUpTo(X, s)
        /\ SameAfter(f, old, s) = SlotsAfter(X, s)
    BY <1>1 DEF SameUpTo, SameAfter, SlotsUpTo, SlotsAfter
  <2>2. Cardinality(X) = budget
    OBVIOUS
  <2> HIDE DEF X
  <2> QED
    BY <1>1, <2>1, <2>2, CutAt
<1>14. KeptBy(b, o, m) + AchievableBy(b, o, m) >= budget
  <2> HIDE DEF m, o, q, t
  <2> QED
    BY <1>10, <1>11, <1>12, <1>13
<1> QED
  BY <1>1, <1>3, <1>8, <1>14 DEF FeasibleFor

----------------------------------------------------------------------------
(* rebalance_slots.                                                         *)

\* A request for a map: seats for members, as many as there are slots, and a map
\* in force, if any, whose owners are finitely many.
IsRebalance(current, space, target) ==
  /\ space \in Nat /\ IsFiniteSet(DOMAIN target) /\ DOMAIN target \subseteq Nat \ {0}
  /\ target \in [DOMAIN target -> Nat \ {0}] /\ SumFunction(target) = space
  /\ IsFiniteSet(Range(current)) /\ Range(current) \subseteq Nat
  /\ current = [s \in DOMAIN current |-> current[s]]

\* The maps that give every member its seats.
Fits(f, space, target) ==
  /\ f \in [1..space -> DOMAIN target]
  /\ \A m \in DOMAIN target : Cardinality(OwnedBy(f, m)) = target[m]

\* The map that the request starts from, and what becomes of the target.
OldOf(current, space) == IF DOMAIN current = 1..space THEN current ELSE Unassigned(space)
TableOf(current, space, target) == DOMAIN target \cup (Range(OldOf(current, space)) \ {Unowned})
QuotaOf(current, space, target) ==
  [m \in TableOf(current, space, target) |-> IF m \in DOMAIN target THEN target[m] ELSE 0]
HeldOf(current, space, target) ==
  [m \in TableOf(current, space, target) |-> Cardinality(OwnedBy(OldOf(current, space), m))]
BudgetOf(current, space, target) ==
  Keepable(HeldOf(current, space, target), QuotaOf(current, space, target), TableOf(current, space, target))

\* The request as the construction gets it.
LEMMA RebalanceTerms ==
  ASSUME NEW current, NEW space, NEW target, IsRebalance(current, space, target)
  PROVE  LET old == OldOf(current, space)
             held == HeldOf(current, space, target)
             quota == QuotaOf(current, space, target)
             budget == BudgetOf(current, space, target)
         IN  /\ Rebalance(current, space, target) = Construct(old, held, quota, budget)
             /\ Constructible(old, space, held, quota, budget)
             /\ DOMAIN quota = TableOf(current, space, target)
<1> DEFINE old == OldOf(current, space)
           table == TableOf(current, space, target)
           held == HeldOf(current, space, target)
           quota == QuotaOf(current, space, target)
           budget == BudgetOf(current, space, target)
<1>1. Rebalance(current, space, target) = Construct(old, held, quota, budget)
  BY DEF Rebalance, OldOf, TableOf, HeldOf, QuotaOf, BudgetOf, Keepable, SumFunction, SumOver
<1>2. /\ space \in Nat /\ IsFiniteSet(DOMAIN target) /\ DOMAIN target \subseteq Nat \ {0}
      /\ target \in [DOMAIN target -> Nat \ {0}] /\ SumOver(target, DOMAIN target) = space
      /\ IsFiniteSet(Range(current)) /\ Range(current) \subseteq Nat
      /\ current = [s \in DOMAIN current |-> current[s]]
  BY DEF IsRebalance, SumFunction, SumOver
<1>3. DOMAIN old = 1..space /\ Range(old) \in SUBSET (Range(current) \cup {Unowned})
      /\ old \in [1..space -> Range(old)]
  BY <1>2 DEF OldOf, Unassigned, Range
<1>4. IsFiniteSet(table) /\ table \subseteq Nat \ {0}
  <2>1. IsFiniteSet(Range(current) \cup {Unowned})
    BY <1>2, FS_AddElement
  <2>2. Range(old) \ {Unowned} \in SUBSET (Range(current) \cup {Unowned})
    BY <1>3
  <2>3. IsFiniteSet(Range(old) \ {Unowned})
    BY <2>1, <2>2, FS_Subset
  <2>4. IsFiniteSet(table)
    BY <1>2, <2>3, FS_Union DEF TableOf
  <2> QED
    BY <1>2, <1>3, <2>4 DEF TableOf, Unowned
<1>5. old \in [1..space -> table \cup {Unowned}]
  BY <1>3 DEF TableOf
<1>6. /\ DOMAIN quota = table /\ quota \in [table -> Nat]
      /\ \A m \in DOMAIN target : quota[m] = target[m]
      /\ \A m \in table \ DOMAIN target : quota[m] = 0
      /\ DOMAIN target \in SUBSET table
  BY <1>2 DEF QuotaOf, TableOf
<1>7. held \in [table -> Nat] /\ \A m \in table : held[m] = Cardinality(OwnedBy(old, m))
  <2>1. ASSUME NEW m PROVE Cardinality(OwnedBy(old, m)) \in Nat
    <3>1. OwnedBy(old, m) \in SUBSET (1..space) /\ IsFiniteSet(1..space)
      BY <1>2, <1>3, FS_Interval DEF OwnedBy
    <3>2. IsFiniteSet(OwnedBy(old, m))
      BY <3>1, FS_Subset
    <3> QED
      BY <3>2, FS_CardinalityType
  <2> HIDE DEF old
  <2> QED
    BY <2>1 DEF HeldOf, old
<1> HIDE DEF old, table, held, quota
<1>8. SumOver(quota, table) = space
  <2>1. \A m \in table : quota[m] \in Int
    BY <1>6
  <2>2. SumOver(quota, table) = SumOver(quota, DOMAIN target)
    BY <1>4, <1>6, <2>1, SumSupport
  <2>3. \A m \in DOMAIN target : target[m] \in Int /\ quota[m] = target[m]
    BY <1>2, <1>6
  <2>4. SumOver(quota, DOMAIN target) = SumOver(target, DOMAIN target)
    BY <1>2, <2>3, SumCong
  <2> QED
    BY <1>2, <2>2, <2>4
<1>9. budget = Keepable(held, quota, table)
  BY DEF BudgetOf, held, quota, table
<1> HIDE DEF budget
<1>10. Constructible(old, space, held, quota, budget)
  BY <1>2, <1>4, <1>5, <1>6, <1>7, <1>8, <1>9 DEF Constructible
<1> QED
  BY <1>1, <1>6, <1>10 DEF old, table, held, quota, budget

\* The maps that fit the request are those that give the quotas.
LEMMA FitsQuota ==
  ASSUME NEW current, NEW space, NEW target, IsRebalance(current, space, target),
         NEW quota, quota = QuotaOf(current, space, target), NEW f
  PROVE  Fits(f, space, target) <=>
           f \in [1..space -> DOMAIN quota] /\ \A m \in DOMAIN quota : Cardinality(OwnedBy(f, m)) = quota[m]
<1>1. /\ space \in Nat /\ DOMAIN target \subseteq DOMAIN quota
      /\ \A m \in DOMAIN target : quota[m] = target[m]
      /\ \A m \in DOMAIN quota \ DOMAIN target : quota[m] = 0
  BY DEF IsRebalance, QuotaOf, TableOf
<1>2. IsFiniteSet(1..space)
  BY <1>1, FS_Interval
<1>3. ASSUME f \in [1..space -> DOMAIN quota], NEW m
      PROVE  IsFiniteSet(OwnedBy(f, m)) /\ (Cardinality(OwnedBy(f, m)) = 0 <=> OwnedBy(f, m) = {})
  <2>1. OwnedBy(f, m) \in SUBSET (1..space)
    BY <1>3 DEF OwnedBy
  <2>2. IsFiniteSet(OwnedBy(f, m))
    BY <1>2, <2>1, FS_Subset
  <2> QED
    BY <2>2, FS_EmptySet
<1>4. ASSUME Fits(f, space, target)
      PROVE  f \in [1..space -> DOMAIN quota] /\ \A m \in DOMAIN quota : Cardinality(OwnedBy(f, m)) = quota[m]
  <2>1. f \in [1..space -> DOMAIN target] /\ f \in [1..space -> DOMAIN quota]
    BY <1>1, <1>4 DEF Fits
  <2>2. \A m \in DOMAIN quota \ DOMAIN target : OwnedBy(f, m) = {}
    BY <2>1 DEF OwnedBy
  <2>3. \A m \in DOMAIN quota \ DOMAIN target : Cardinality(OwnedBy(f, m)) = quota[m]
    BY <1>1, <1>3, <2>1, <2>2
  <2> QED
    BY <1>1, <1>4, <2>1, <2>3 DEF Fits
<1>5. ASSUME f \in [1..space -> DOMAIN quota], \A m \in DOMAIN quota : Cardinality(OwnedBy(f, m)) = quota[m]
      PROVE  Fits(f, space, target)
  <2>1. ASSUME NEW s \in 1..space PROVE f[s] \in DOMAIN target
    <3>1. f[s] \in DOMAIN quota /\ s \in OwnedBy(f, f[s])
      BY <1>5 DEF OwnedBy
    <3>2. Cardinality(OwnedBy(f, f[s])) # 0
      BY <1>3, <1>5, <3>1
    <3> QED
      BY <1>1, <1>5, <3>1, <3>2
  <2> QED
    BY <1>1, <1>5, <2>1 DEF Fits
<1> QED
  BY <1>4, <1>5

\* Of a map that fits the request, the slots that move are those that do not keep
\* their owner in the map the construction starts from.
LEMMA ChurnIsRest ==
  ASSUME NEW current, NEW space, NEW target, IsRebalance(current, space, target),
         NEW f, Fits(f, space, target)
  PROVE  /\ Churn(current, f) = space - Cardinality(SameUpTo(f, OldOf(current, space), space))
         /\ Cardinality(SameUpTo(f, OldOf(current, space), space)) \in Nat
         /\ Churn(current, f) \in Int
<1> DEFINE old == OldOf(current, space)
           X == SameUpTo(f, old, space)
           D == {s \in 1..space : old[s] # f[s]}
<1>1. /\ space \in Nat /\ DOMAIN f = 1..space /\ f \in [1..space -> DOMAIN target]
      /\ DOMAIN target \subseteq Nat \ {0} /\ IsFiniteSet(1..space) /\ Cardinality(1..space) = space
  <2>1. space \in Nat /\ DOMAIN target \subseteq Nat \ {0} /\ f \in [1..space -> DOMAIN target]
    BY DEF IsRebalance, Fits
  <2>2. IsFiniteSet(1..space) /\ Cardinality(1..space) = space
    BY <2>1, FS_Interval
  <2> QED
    BY <2>1, <2>2
<1>2. X = {s \in 1..space : f[s] = old[s]}
  BY <1>1 DEF SameUpTo
<1>3. X \in SUBSET (1..space) /\ D \in SUBSET (1..space) /\ D = (1..space) \ X
  BY <1>2
<1>4. Churn(current, f) = Cardinality(D)
  <2>1. CASE DOMAIN current = 1..space
    BY <1>1, <2>1 DEF Churn, OldOf
  <2>2. CASE DOMAIN current # 1..space
    <3>1. D = 1..space
      BY <1>1, <2>2 DEF OldOf, Unassigned, Unowned
    <3> HIDE DEF D
    <3> QED
      BY <1>1, <2>2, <3>1 DEF Churn
  <2> QED
    BY <2>1, <2>2
<1> HIDE DEF X, D
<1>5. IsFiniteSet(X) /\ IsFiniteSet(D)
  BY <1>1, <1>3, FS_Subset
<1>6. Cardinality(X) \in Nat /\ Cardinality(D) \in Nat
  BY <1>5, FS_CardinalityType
<1>7. Cardinality(D) = Cardinality(1..space) - Cardinality((1..space) \cap X)
  BY <1>1, <1>3, FS_Difference
<1>8. (1..space) \cap X = X
  BY <1>3
<1>9. Cardinality(D) = space - Cardinality(X)
  BY <1>1, <1>7, <1>8
<1> QED
  BY <1>1, <1>4, <1>6, <1>9 DEF X

\* rebalance_slots gives every member its seats and no other a slot, and moves as
\* many slots as the budget leaves.
THEOREM RebalanceFits ==
  ASSUME NEW current, NEW space, NEW target, IsRebalance(current, space, target)
  PROVE  /\ Fits(Rebalance(current, space, target), space, target)
         /\ Churn(current, Rebalance(current, space, target)) = space - BudgetOf(current, space, target)
<1> DEFINE old == OldOf(current, space)
           held == HeldOf(current, space, target)
           quota == QuotaOf(current, space, target)
           budget == BudgetOf(current, space, target)
           new == Rebalance(current, space, target)
<1>1. new = Construct(old, held, quota, budget) /\ Constructible(old, space, held, quota, budget)
  BY RebalanceTerms
<1>2. quota = QuotaOf(current, space, target)
  OBVIOUS
<1> HIDE DEF old, held, quota, budget, new
<1>3. /\ new \in [1..space -> DOMAIN quota]
      /\ \A m \in DOMAIN quota : Cardinality(OwnedBy(new, m)) = quota[m]
      /\ Cardinality(SameUpTo(new, old, space)) = budget
  BY <1>1, ConstructFits
<1>4. Fits(new, space, target)
  BY <1>2, <1>3, FitsQuota
<1>5. Churn(current, new) = space - Cardinality(SameUpTo(new, OldOf(current, space), space))
  BY <1>4, ChurnIsRest
<1> QED
  BY <1>3, <1>4, <1>5 DEF old, new, budget

\* The slot-to-owner vector of f comes before that of g.
Before(f, g, space) ==
  \E s \in 1..space : f[s] < g[s] /\ \A r \in 1..(s - 1) : f[r] = g[r]

\* Every other map with the seats moves more slots, or as many and comes later: the
\* greedy construction of rebalance_slots answers the least map there is.
THEOREM RebalanceIsLeast ==
  ASSUME NEW current, NEW space, NEW target, IsRebalance(current, space, target),
         NEW f, Fits(f, space, target), f # Rebalance(current, space, target)
  PROVE  LET new == Rebalance(current, space, target) IN
         \/ Churn(current, f) > Churn(current, new)
         \/ Churn(current, f) = Churn(current, new) /\ Before(new, f, space)
<1> DEFINE old == OldOf(current, space)
           held == HeldOf(current, space, target)
           quota == QuotaOf(current, space, target)
           budget == BudgetOf(current, space, target)
           new == Rebalance(current, space, target)
<1>1. new = Construct(old, held, quota, budget) /\ Constructible(old, space, held, quota, budget)
  BY RebalanceTerms
<1>2. quota = QuotaOf(current, space, target) /\ f # new
  OBVIOUS
<1>3. /\ Churn(current, f) = space - Cardinality(SameUpTo(f, old, space))
      /\ Cardinality(SameUpTo(f, old, space)) \in Nat
  BY ChurnIsRest
<1>4. Fits(new, space, target) /\ Churn(current, new) = space - budget
  BY RebalanceFits
<1>5. Cardinality(SameUpTo(new, old, space)) = budget /\ Cardinality(SameUpTo(new, old, space)) \in Nat
  <2>1. Cardinality(SameUpTo(new, OldOf(current, space), space)) \in Nat
    BY <1>4, ChurnIsRest
  <2> HIDE DEF held, quota, budget, new
  <2>2. Cardinality(SameUpTo(new, old, space)) = budget
    BY <1>1, ConstructFits
  <2> QED
    BY <2>1, <2>2
<1> HIDE DEF old, held, quota, budget, new
<1>6. f \in [1..space -> DOMAIN quota] /\ \A m \in DOMAIN quota : Cardinality(OwnedBy(f, m)) = quota[m]
  BY <1>2, FitsQuota
<1>7. Cardinality(SameUpTo(f, old, space)) <= budget
  BY <1>1, <1>6, BudgetIsMost
<1>8. space \in Nat /\ DOMAIN target \subseteq Nat
  BY DEF IsRebalance
<1>9. CASE Cardinality(SameUpTo(f, old, space)) = budget
  <2> DEFINE T == {s \in 1..space : f[s] # new[s]}
  <2>1. T \in SUBSET Nat /\ T # {}
    <3>1. f \in [1..space -> DOMAIN target] /\ new \in [1..space -> DOMAIN target]
      BY <1>4 DEF Fits
    <3>2. \E s \in 1..space : f[s] # new[s]
      <4>1. f = [s \in 1..space |-> f[s]] /\ new = [s \in 1..space |-> new[s]]
        BY <3>1
      <4> QED
        BY <1>2, <4>1, Zenon
    <3> QED
      BY <1>8, <3>2
  <2>2. PICK s \in T : \A r \in T : s <= r
    BY <2>1, LeastNatural
  <2>3. s \in 1..space /\ f[s] # new[s] /\ \A r \in 1..(s - 1) : f[r] = new[r]
    BY <1>8, <2>2
  <2> HIDE DEF T
  <2>4. new[s] <= f[s]
    <3>1. HasQuotas(f, space, quota)
      BY <1>6 DEF HasQuotas
    <3>2. new = Construct(old, held, quota, budget) /\ Constructible(old, space, held, quota, budget)
      BY <1>1
    <3>3. Cardinality(SameUpTo(f, old, space)) = budget
      BY <1>9
    <3>4. s \in 1..space /\ BeginsLike(f, new, s)
      BY <2>3 DEF BeginsLike
    <3> QED
      BY <3>1, <3>2, <3>3, <3>4, BuiltIsSmallest
  <2>5. new[s] \in Nat /\ f[s] \in Nat
    BY <1>4, <1>8, <2>3 DEF Fits
  <2>6. Before(new, f, space)
    BY <2>3, <2>4, <2>5 DEF Before
  <2> QED
    BY <1>3, <1>4, <1>9, <2>6 DEF new
<1>10. CASE Cardinality(SameUpTo(f, old, space)) # budget
  BY <1>3, <1>4, <1>5, <1>7, <1>8, <1>10 DEF new
<1> QED
  BY <1>9, <1>10

\* The seats a member gains on what it holds in the map in force.
GainOf(current, space, target) ==
  [m \in DOMAIN target |->
     LET Held == IF DOMAIN current = 1..space THEN Cardinality(OwnedBy(current, m)) ELSE 0
     IN  IF target[m] > Held THEN target[m] - Held ELSE 0]

\* The slots rebalance_slots moves are exactly the seats that members gain.
THEOREM RebalanceMovesGain ==
  ASSUME NEW current, NEW space, NEW target, IsRebalance(current, space, target)
  PROVE  Churn(current, Rebalance(current, space, target)) = SumFunction(GainOf(current, space, target))
<1> DEFINE old == OldOf(current, space)
           table == TableOf(current, space, target)
           held == HeldOf(current, space, target)
           quota == QuotaOf(current, space, target)
           budget == BudgetOf(current, space, target)
           gain == GainOf(current, space, target)
           low == [m \in table |-> Least(held[m], quota[m])]
<1>1. Constructible(old, space, held, quota, budget) /\ DOMAIN quota = table
  BY RebalanceTerms
<1>2. /\ space \in Nat /\ IsFiniteSet(DOMAIN target) /\ target \in [DOMAIN target -> Nat \ {0}]
      /\ SumOver(target, DOMAIN target) = space /\ DOMAIN target \subseteq Nat \ {0}
  BY DEF IsRebalance, SumFunction, SumOver
<1>3. /\ DOMAIN target \in SUBSET table
      /\ \A m \in DOMAIN target : quota[m] = target[m]
      /\ \A m \in table \ DOMAIN target : quota[m] = 0
  BY DEF TableOf, QuotaOf
<1>4. IsFiniteSet(table) /\ held \in [table -> Nat] /\ quota \in [table -> Nat]
  <2> HIDE DEF old, held, quota, table, budget
  <2> QED
    BY <1>1 DEF Constructible
<1>5. ASSUME NEW m \in DOMAIN target
      PROVE  held[m] = IF DOMAIN current = 1..space THEN Cardinality(OwnedBy(current, m)) ELSE 0
  <2>1. held[m] = Cardinality(OwnedBy(old, m))
    BY <1>3 DEF HeldOf
  <2>2. CASE DOMAIN current = 1..space
    BY <2>1, <2>2 DEF OldOf
  <2>3. CASE DOMAIN current # 1..space
    <3>1. OwnedBy(old, m) = {}
      BY <1>2, <2>3 DEF OldOf, OwnedBy, Unassigned, Unowned
    <3> HIDE DEF old, held
    <3> QED
      BY <2>1, <2>3, <3>1, FS_EmptySet
  <2> QED
    BY <2>2, <2>3
<1>6. budget = SumOver(low, table)
  BY DEF BudgetOf, Keepable
<1>7. \A m \in table : low[m] = Least(held[m], quota[m])
  OBVIOUS
<1>8. \A m \in DOMAIN target : gain[m] = IF target[m] > held[m] THEN target[m] - held[m] ELSE 0
  BY <1>5 DEF GainOf
<1>9. DOMAIN gain = DOMAIN target
  BY DEF GainOf
<1> HIDE DEF old, held, quota, table, gain, low
<1>10. \A m \in table : low[m] \in Nat
  BY <1>4, <1>7 DEF Least
<1>11. \A m \in table \ DOMAIN target : low[m] = 0
  BY <1>3, <1>4, <1>7 DEF Least
<1>12. \A m \in DOMAIN target : low[m] \in Int /\ gain[m] \in Int /\ target[m] = low[m] + gain[m]
  BY <1>2, <1>3, <1>4, <1>7, <1>8 DEF Least
<1>13. SumOver(low, table) = SumOver(low, DOMAIN target)
  BY <1>3, <1>4, <1>10, <1>11, SumSupport
<1>14. SumOver(target, DOMAIN target) = SumOver(low, DOMAIN target) + SumOver(gain, DOMAIN target)
  BY <1>2, <1>12, SumAdd
<1>15. SumOver(gain, DOMAIN target) \in Int /\ SumOver(low, DOMAIN target) \in Int
  BY <1>2, <1>12, SumInt
<1>16. SumFunction(gain) = SumOver(gain, DOMAIN target)
  BY <1>9 DEF SumFunction, SumOver
<1>17. Churn(current, Rebalance(current, space, target)) = space - budget
  BY RebalanceFits
<1> HIDE DEF budget
<1>18. Churn(current, Rebalance(current, space, target)) = SumFunction(gain)
  BY <1>2, <1>6, <1>13, <1>14, <1>15, <1>16, <1>17
<1> QED
  BY <1>18 DEF gain

\* A map in force that already gives every member its seats is answered unchanged.
THEOREM RebalanceKeepsFitting ==
  ASSUME NEW current, NEW space, NEW target, IsRebalance(current, space, target),
         Fits(current, space, target)
  PROVE  Rebalance(current, space, target) = current
<1> DEFINE new == Rebalance(current, space, target)
<1>1. /\ space \in Nat /\ DOMAIN current = 1..space
  BY DEF IsRebalance, Fits
<1>2. Churn(current, current) = 0
  <2>1. {s \in DOMAIN current : current[s] # current[s]} = {}
    OBVIOUS
  <2>2. Churn(current, current) = Cardinality({})
    BY <2>1 DEF Churn
  <2> QED
    BY <2>2, FS_EmptySet
<1>3. Fits(new, space, target) /\ Churn(current, new) \in Int
  BY RebalanceFits, ChurnIsRest
<1>4. Churn(current, new) = Cardinality({s \in DOMAIN new : current[s] # new[s]}) /\ DOMAIN new = 1..space
      /\ new = [s \in 1..space |-> new[s]]
  BY <1>1, <1>3 DEF Fits, Churn
<1> DEFINE D == {s \in DOMAIN new : current[s] # new[s]}
<1>5. IsFiniteSet(D) /\ Cardinality(D) \in Nat
  <2>1. D \in SUBSET (1..space) /\ IsFiniteSet(1..space)
    BY <1>1, <1>4, FS_Interval
  <2>2. IsFiniteSet(D)
    BY <2>1, FS_Subset
  <2> QED
    BY <2>2, FS_CardinalityType
<1>6. SUFFICES ASSUME current # new PROVE FALSE
  OBVIOUS
<1>7. \/ 0 > Churn(current, new)
      \/ 0 = Churn(current, new) /\ Before(new, current, space)
  BY <1>2, <1>6, RebalanceIsLeast
<1>8. Cardinality(D) = 0
  <2> HIDE DEF D, new
  <2> QED
    BY <1>4, <1>5, <1>7 DEF D
<1>9. D = {}
  BY <1>5, <1>8, FS_EmptySet
<1>10. \A s \in 1..space : current[s] = new[s]
  BY <1>4, <1>9
<1> QED
  BY <1>1, <1>4, <1>6, <1>10 DEF IsRebalance

\* Of the slots a member held in a map of the same size, as many stay with it as it
\* is to own: no slot moves without need.
THEOREM RebalanceKeepsMost ==
  ASSUME NEW current, NEW space, NEW target, IsRebalance(current, space, target),
         DOMAIN current = 1..space, NEW new, new = Rebalance(current, space, target), NEW m, m # Unowned
  PROVE  Cardinality(SlotsOf(OwnedBy(current, m), new, m)) =
           Least(Cardinality(OwnedBy(current, m)), Cardinality(OwnedBy(new, m)))
<1> DEFINE held == HeldOf(current, space, target)
           quota == QuotaOf(current, space, target)
           budget == BudgetOf(current, space, target)
           table == TableOf(current, space, target)
<1>1. OldOf(current, space) = current
  BY DEF OldOf
<1>2. /\ new = Construct(current, held, quota, budget)
      /\ Constructible(current, space, held, quota, budget)
      /\ DOMAIN quota = table
  <2>1. LET old == OldOf(current, space)
        IN  /\ Rebalance(current, space, target) = Construct(old, held, quota, budget)
            /\ Constructible(old, space, held, quota, budget) /\ DOMAIN quota = table
    BY RebalanceTerms
  <2> QED
    BY <1>1, <2>1
<1>3. \A x \in table : held[x] = Cardinality(OwnedBy(current, x))
  BY <1>1 DEF HeldOf
<1> HIDE DEF held, quota, budget
<1>4. /\ new \in [1..space -> DOMAIN quota]
      /\ \A x \in DOMAIN quota : Cardinality(OwnedBy(new, x)) = quota[x]
      /\ Cardinality(SameUpTo(new, current, space)) = budget
  BY <1>2, ConstructFits
<1>5. \A x \in DOMAIN quota :
        Cardinality(SlotsOf(SameUpTo(new, current, space), new, x)) = Least(held[x], quota[x])
  BY <1>2, <1>4, BudgetIsMost
<1>6. SlotsOf(SameUpTo(new, current, space), new, m) = SlotsOf(OwnedBy(current, m), new, m)
  <2>1. space \in Nat /\ DOMAIN new = 1..space
    BY <1>4 DEF IsRebalance
  <2> QED
    BY <2>1 DEF SlotsOf, SameUpTo, OwnedBy
<1>7. CASE m \in table
  BY <1>2, <1>3, <1>4, <1>5, <1>6, <1>7
<1>8. CASE m \notin table
  <2>1. m \notin Range(current) /\ m \notin DOMAIN quota
    BY <1>1, <1>2, <1>8 DEF TableOf
  <2>2. OwnedBy(current, m) = {} /\ OwnedBy(new, m) = {} /\ SlotsOf(OwnedBy(current, m), new, m) = {}
    BY <1>4, <2>1 DEF OwnedBy, Range, SlotsOf
  <2> QED
    BY <2>2, FS_EmptySet DEF Least
<1> QED
  BY <1>7, <1>8

\* The seats of the members that have some.
SeatedOf(seats) == [m \in {x \in DOMAIN seats : seats[x] > 0} |-> seats[m]]

\* The seats that apportion() deals out ask for a map, whatever map there was.
LEMMA SeatsAskForMap ==
  ASSUME NEW space, NEW w, IsRequest(space, w), DOMAIN w \subseteq Nat \ {0}, NEW current,
         IsFiniteSet(Range(current)), Range(current) \subseteq Nat,
         current = [s \in DOMAIN current |-> current[s]]
  PROVE  LET seats == Apportion(space, w) IN
         /\ IsRebalance(current, space, SeatedOf(seats))
         /\ DOMAIN seats = DOMAIN w /\ \A m \in DOMAIN w : seats[m] \in Nat
<1> DEFINE seats == Apportion(space, w)
           D == DOMAIN w
           T == {x \in DOMAIN seats : seats[x] > 0}
           target == SeatedOf(seats)
<1>1. DOMAIN seats = D /\ space \in Nat /\ IsFiniteSet(D) /\ D \subseteq Nat \ {0}
  BY DEF Apportion, IsRequest
<1>2. \A m \in D : seats[m] \in Nat
  BY SeatsWithinQuota
<1>3. SumOver(seats, D) = space
  BY <1>1, SeatsFillSpace DEF SumOver, SumFunction
<1>4. /\ DOMAIN target = T /\ T \in SUBSET D /\ IsFiniteSet(T) /\ T \subseteq Nat \ {0}
      /\ \A m \in T : target[m] = seats[m] /\ seats[m] \in Nat \ {0} /\ seats[m] \in Int
  <2>1. T \in SUBSET D /\ DOMAIN target = T /\ \A m \in T : target[m] = seats[m]
    BY <1>1 DEF SeatedOf
  <2>2. IsFiniteSet(T)
    BY <1>1, <2>1, FS_Subset
  <2> QED
    BY <1>1, <1>2, <2>1, <2>2
<1>5. target \in [DOMAIN target -> Nat \ {0}]
  BY <1>4 DEF SeatedOf
<1>6. SumFunction(target) = space
  <2>1. \A m \in D \ T : seats[m] = 0
    BY <1>1, <1>2
  <2>2. \A m \in D : seats[m] \in Int
    BY <1>2
  <2> HIDE DEF T, D, seats, target
  <2>3. SumOver(seats, D) = SumOver(seats, T)
    BY <1>1, <1>4, <2>1, <2>2, SumSupport
  <2>4. SumOver(target, T) = SumOver(seats, T)
    BY <1>4, SumCong
  <2> QED
    BY <1>3, <1>4, <2>3, <2>4 DEF SumFunction, SumOver
<1>7. IsRebalance(current, space, target)
  BY <1>1, <1>4, <1>5, <1>6 DEF IsRebalance
<1> QED
  BY <1>1, <1>2, <1>7

=============================================================================
