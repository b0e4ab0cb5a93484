---------------------------- MODULE Sums_proofs ----------------------------
(***************************************************************************)
(* Facts about the sums of natural numbers that TotalsAddUp and DropsAddUp *)
(* speak of.                                                               *)
(*                                                                         *)
(* The argument.  A sum is a recursive function on the subsets of its      *)
(* index set.  The area under the summands, a set of pairs, satisfies the  *)
(* same recursion, so that function exists; by the well-foundedness of the *)
(* finite subsets no other one does, so the sum is the number of elements  *)
(* of the area.  What is wanted of sums is then a matter of counting.      *)
(***************************************************************************)
EXTENDS Functions, FiniteSetTheorems, WellFoundedInduction, TLAPS

\* Among the subsets of a finite set that are in Q there is one none of whose
\* strict subsets is in Q.
LEMMA SmallestSubset ==
  ASSUME NEW S, IsFiniteSet(S), NEW Q, Q \subseteq SUBSET S, Q # {}
  PROVE  \E T \in Q : \A U \in Q : U \subseteq T => U = T
<1>1. IsWellFoundedOn(StrictSubsetOrdering(S), SUBSET S)
  BY FS_StrictSubsetOrderingWellFounded, FS_FiniteSubsetsOfFinite
<1>2. PICK T \in Q : \A U \in Q : <<U, T>> \notin StrictSubsetOrdering(S)
  BY <1>1, WFMin
<1>3. ASSUME NEW U \in Q, U \subseteq T PROVE U = T
  <2>1. <<U, T>> \in (SUBSET S) \X (SUBSET S) /\ <<U, T>>[1] = U /\ <<U, T>>[2] = T
    OBVIOUS
  <2>2. QED
    BY <1>2, <1>3, <2>1 DEF StrictSubsetOrdering
<1>4. QED
  BY <1>3

\* What the empty set has and a set keeps when an element is added, every
\* finite set has.
LEMMA AddingReaches ==
  ASSUME NEW S, IsFiniteSet(S), NEW Q, {} \in Q,
         \A T \in SUBSET S : \A x \in S \ T : T \in Q => T \cup {x} \in Q
  PROVE  S \in Q
<1> SUFFICES ASSUME S \notin Q PROVE FALSE
  OBVIOUS
<1>1. PICK T \in (SUBSET S) \ Q : \A U \in (SUBSET S) \ Q : U \subseteq T => U = T
  <2>1. PICK R : R = (SUBSET S) \ Q
    OBVIOUS
  <2>2. R \subseteq SUBSET S /\ R # {}
    BY <2>1
  <2>3. \E T \in R : \A U \in R : U \subseteq T => U = T
    BY <2>2, SmallestSubset
  <2>4. QED
    BY <2>1, <2>3
<1>2. PICK x \in T : TRUE
  OBVIOUS
<1>3. PICK U : U = T \ {x}
  OBVIOUS
<1>4. U \in SUBSET S /\ x \in S \ U /\ U \cup {x} = T /\ U \subseteq T /\ U # T
  BY <1>2, <1>3
<1>5. QED
  BY <1>1, <1>4

-----------------------------------------------------------------------------
\* The area under the values of f on S.
Area(f, S) == {p \in S \X Nat : p[2] < f[p[1]]}

LEMMA AreaMembers ==
  ASSUME NEW f, NEW S, NEW x, NEW k
  PROVE  <<x, k>> \in Area(f, S) <=> x \in S /\ k \in Nat /\ k < f[x]
BY DEF Area

LEMMA AreaAdd ==
  ASSUME NEW f, NEW S, NEW x, x \notin S, f[x] \in Nat, IsFiniteSet(Area(f, S))
  PROVE  /\ IsFiniteSet(Area(f, S \cup {x}))
         /\ Cardinality(Area(f, S \cup {x})) = Cardinality(Area(f, S)) + f[x]
<1>1. PICK n \in Nat : n = f[x]
  OBVIOUS
<1>2. PICK I : I = 0 .. (n - 1)
  OBVIOUS
<1>3. IsFiniteSet(I) /\ Cardinality(I) = n
  <2>1. n - 1 \in Int /\ 0 \in Int
    OBVIOUS
  <2>2. IsFiniteSet(I) /\ Cardinality(I) = IF 0 > n - 1 THEN 0 ELSE (n - 1) - 0 + 1
    BY <1>2, <2>1, FS_Interval
  <2>3. QED
    BY <2>2
<1>4. PICK C : C = {x} \X I
  OBVIOUS
<1>5. IsFiniteSet(C) /\ Cardinality(C) = n
  <2>1. IsFiniteSet({x}) /\ Cardinality({x}) = 1
    BY FS_Singleton
  <2>2. IsFiniteSet(C) /\ Cardinality(C) = Cardinality({x}) * Cardinality(I)
    BY <1>3, <1>4, <2>1, FS_Product
  <2>3. QED
    BY <1>3, <2>1, <2>2
<1>6. Area(f, S \cup {x}) = Area(f, S) \cup C
  BY <1>1, <1>2, <1>4 DEF Area
<1>7. Area(f, S) \cap C = {}
  BY <1>4 DEF Area
<1>8. Cardinality(Area(f, S) \cap C) = 0
  BY <1>7, FS_EmptySet
<1>9. IsFiniteSet(Area(f, S) \cup C) /\
      Cardinality(Area(f, S) \cup C) =
        Cardinality(Area(f, S)) + Cardinality(C) - Cardinality(Area(f, S) \cap C)
  BY <1>5, FS_Union
<1>10. Cardinality(Area(f, S)) \in Nat
  BY FS_CardinalityType
<1>11. QED
  <2>1. IsFiniteSet(Area(f, S \cup {x}))
    BY <1>6, <1>9
  <2>2. PICK A \in Nat : A = Cardinality(Area(f, S))
    BY <1>10
  <2>3. Cardinality(Area(f, S) \cup C) = A + n - 0
    BY <1>5, <1>8, <1>9, <2>2
  <2>4. QED
    <3>1. A + n - 0 = A + n
      OBVIOUS
    <3>2. QED
      BY <1>1, <1>6, <2>1, <2>2, <2>3, <3>1, Zenon

LEMMA AreaFinite ==
  ASSUME NEW f, NEW S, IsFiniteSet(S), \A x \in S : f[x] \in Nat
  PROVE  IsFiniteSet(Area(f, S)) /\ Cardinality(Area(f, S)) \in Nat
<1> DEFINE Q == {T \in SUBSET S : IsFiniteSet(Area(f, T))}
<1>1. {} \in Q
  <2>1. Area(f, {}) = {}
    BY DEF Area
  <2>2. QED
    BY <2>1, FS_EmptySet
<1>2. ASSUME NEW T \in SUBSET S, NEW x \in S \ T, T \in Q
      PROVE  T \cup {x} \in Q
  BY <1>2, AreaAdd
<1>3. S \in Q
  <2> HIDE DEF Q
  <2>1. QED
    BY <1>1, <1>2, AddingReaches
<1>4. QED
  BY <1>3, FS_CardinalityType

-----------------------------------------------------------------------------
\* g is the function by which the sum of f over S is defined.
Sums(f, S, g) ==
  g = [T \in SUBSET S |->
         IF T = {} THEN 0
         ELSE f[CHOOSE x \in T : TRUE] + g[T \ {CHOOSE x \in T : TRUE}]]

LEMMA SumUnfolded ==
  ASSUME NEW f, NEW S
  PROVE  SumFunctionOnSet(f, S) = (CHOOSE g : Sums(f, S, g))[S]
BY DEF SumFunctionOnSet, FoldFunctionOnSet, MapThenFoldSet, Sums

LEMMA SumIsArea ==
  ASSUME NEW f, NEW S, IsFiniteSet(S), \A x \in S : f[x] \in Nat
  PROVE  SumFunctionOnSet(f, S) = Cardinality(Area(f, S))
<1> DEFINE a == [T \in SUBSET S |-> Cardinality(Area(f, T))]
           pick(T) == CHOOSE x \in T : TRUE
<1>1. Cardinality(Area(f, {})) = 0
  <2>1. Area(f, {}) = {}
    BY DEF Area
  <2>2. QED
    BY <2>1, FS_EmptySet
<1>2. ASSUME NEW T \in SUBSET S, T # {}
      PROVE  /\ pick(T) \in T
             /\ T \ {pick(T)} \in SUBSET S
             /\ Cardinality(Area(f, T)) = f[pick(T)] + Cardinality(Area(f, T \ {pick(T)}))
  <2>1. pick(T) \in T
    BY <1>2
  <2>2. PICK x, U : x = pick(T) /\ U = T \ {x}
    OBVIOUS
  <2> HIDE DEF pick
  <2>3. U \in SUBSET S /\ x \notin U /\ U \cup {x} = T /\ f[x] \in Nat
    BY <2>1, <2>2
  <2>4. IsFiniteSet(U)
    BY <2>3, FS_Subset
  <2>5. IsFiniteSet(Area(f, U)) /\ Cardinality(Area(f, U)) \in Nat
    BY <2>3, <2>4, AreaFinite
  <2>6. Cardinality(Area(f, U \cup {x})) = Cardinality(Area(f, U)) + f[x]
    BY <2>3, <2>5, AreaAdd
  <2>7. QED
    BY <2>1, <2>2, <2>3, <2>5, <2>6
<1>3. Sums(f, S, a)
  <2>1. ASSUME NEW T \in SUBSET S
        PROVE  a[T] = IF T = {} THEN 0 ELSE f[pick(T)] + a[T \ {pick(T)}]
    BY <1>1, <1>2
  <2>2. QED
    BY <2>1 DEF Sums
<1>4. PICK g : g = CHOOSE h : Sums(f, S, h)
  OBVIOUS
<1>5. Sums(f, S, g)
  BY <1>3, <1>4
<1>6. \A T \in SUBSET S : g[T] = IF T = {} THEN 0 ELSE f[pick(T)] + g[T \ {pick(T)}]
  BY <1>5 DEF Sums
<1>7. PICK Q : Q = {T \in SUBSET S : g[T] # Cardinality(Area(f, T))}
  OBVIOUS
<1>8. Q = {}
  <2> SUFFICES ASSUME Q # {} PROVE FALSE
    OBVIOUS
  <2>1. PICK T \in Q : \A U \in Q : U \subseteq T => U = T
    BY <1>7, SmallestSubset
  <2>2. T \in SUBSET S /\ g[T] # Cardinality(Area(f, T))
    BY <1>7, <2>1
  <2>3. T # {}
    BY <1>1, <1>6, <2>2
  <2>4. PICK x, U : x = pick(T) /\ U = T \ {pick(T)}
    OBVIOUS
  <2>5. x \in T /\ U \in SUBSET S /\ U \subseteq T /\ U # T
    BY <1>2, <2>2, <2>3, <2>4
  <2>6. g[U] = Cardinality(Area(f, U))
    BY <1>7, <2>1, <2>5
  <2>7. g[T] = f[x] + g[U]
    BY <1>6, <2>2, <2>3, <2>4
  <2>8. Cardinality(Area(f, T)) = f[x] + Cardinality(Area(f, U))
    BY <1>2, <2>2, <2>3, <2>4
  <2>9. QED
    BY <2>2, <2>6, <2>7, <2>8
<1>9. SumFunctionOnSet(f, S) = g[S]
  BY <1>4, SumUnfolded
<1>10. QED
  BY <1>7, <1>8, <1>9
-----------------------------------------------------------------------------
LEMMA SumEmpty == ASSUME NEW f PROVE SumFunctionOnSet(f, {}) = 0
<1>1. Area(f, {}) = {}
  BY DEF Area
<1>2. SumFunctionOnSet(f, {}) = Cardinality(Area(f, {}))
  BY FS_EmptySet, SumIsArea
<1>3. QED
  BY <1>1, <1>2, FS_EmptySet

\* One more element adds its value, in whatever order the sum is taken.
LEMMA SumExtended ==
  ASSUME NEW f, NEW S, IsFiniteSet(S), NEW x, x \notin S, \A y \in S \cup {x} : f[y] \in Nat
  PROVE  /\ SumFunctionOnSet(f, S) \in Nat
         /\ SumFunctionOnSet(f, S \cup {x}) = SumFunctionOnSet(f, S) + f[x]
<1>1. IsFiniteSet(S \cup {x})
  BY FS_AddElement
<1>2. PICK T : T = S \cup {x}
  OBVIOUS
<1>3. SumFunctionOnSet(f, T) = Cardinality(Area(f, T))
  BY <1>1, <1>2, SumIsArea
<1>4. SumFunctionOnSet(f, S) = Cardinality(Area(f, S))
  BY SumIsArea
<1>5. IsFiniteSet(Area(f, S)) /\ Cardinality(Area(f, S)) \in Nat
  BY AreaFinite
<1>6. Cardinality(Area(f, T)) = Cardinality(Area(f, S)) + f[x]
  BY <1>2, <1>5, AreaAdd
<1>7. QED
  BY <1>2, <1>3, <1>4, <1>5, <1>6

\* A sum depends only on the values it adds up.
LEMMA SumSame ==
  ASSUME NEW S, IsFiniteSet(S), NEW f, NEW g,
         \A x \in S : f[x] \in Nat /\ g[x] = f[x]
  PROVE  SumFunctionOnSet(g, S) = SumFunctionOnSet(f, S)
<1>1. Area(g, S) = Area(f, S)
  BY DEF Area
<1>2. SumFunctionOnSet(g, S) = Cardinality(Area(g, S))
  BY SumIsArea
<1>3. SumFunctionOnSet(f, S) = Cardinality(Area(f, S))
  BY SumIsArea
<1>4. QED
  BY <1>1, <1>2, <1>3

\* Adding one to the values of A adds the size of A to the sum.
LEMMA SumGrown ==
  ASSUME NEW S, IsFiniteSet(S), NEW A \in SUBSET S, NEW f, NEW g,
         \A x \in S : f[x] \in Nat /\ g[x] = IF x \in A THEN f[x] + 1 ELSE f[x]
  PROVE  SumFunctionOnSet(g, S) = SumFunctionOnSet(f, S) + Cardinality(A)
<1> DEFINE Q == {T \in SUBSET S :
                   SumFunctionOnSet(g, T) = SumFunctionOnSet(f, T) + Cardinality(A \cap T)}
<1>1. {} \in Q
  <2>1. Cardinality(A \cap {}) = 0
    <3>1. A \cap {} = {}
      OBVIOUS
    <3>2. QED
      BY <3>1, FS_EmptySet
  <2>2. SumFunctionOnSet(g, {}) = 0 /\ SumFunctionOnSet(f, {}) = 0
    BY SumEmpty
  <2>3. QED
    BY <2>1, <2>2
<1>2. ASSUME NEW T \in SUBSET S, NEW x \in S \ T, T \in Q
      PROVE  T \cup {x} \in Q
  <2>1. PICK U, B, C : U = T \cup {x} /\ B = A \cap T /\ C = A \cap (T \cup {x})
    OBVIOUS
  <2>2. IsFiniteSet(T) /\ U \in SUBSET S
    BY <2>1, FS_Subset
  <2>3. \A y \in T \cup {x} : f[y] \in Nat /\ g[y] \in Nat
    OBVIOUS
  <2>4. /\ SumFunctionOnSet(f, T) \in Nat
        /\ SumFunctionOnSet(f, U) = SumFunctionOnSet(f, T) + f[x]
        /\ SumFunctionOnSet(g, U) = SumFunctionOnSet(g, T) + g[x]
    BY <2>1, <2>2, <2>3, SumExtended
  <2>5. IsFiniteSet(B) /\ Cardinality(B) \in Nat
    <3>1. B \in SUBSET T
      BY <2>1
    <3>2. QED
      BY <2>2, <3>1, FS_Subset, FS_CardinalityType
  <2>6. Cardinality(C) = Cardinality(B) + (IF x \in A THEN 1 ELSE 0)
    <3>1. Cardinality(B \cup {x}) = IF x \in B THEN Cardinality(B) ELSE Cardinality(B) + 1
      BY <2>5, FS_AddElement
    <3>2. x \in A => C = B \cup {x} /\ x \notin B
      BY <2>1
    <3>3. x \notin A => C = B
      BY <2>1
    <3>4. QED
      BY <2>5, <3>1, <3>2, <3>3
  <2>7. SumFunctionOnSet(g, T) = SumFunctionOnSet(f, T) + Cardinality(B)
    BY <1>2, <2>1
  <2>8. SumFunctionOnSet(g, U) = SumFunctionOnSet(f, U) + Cardinality(C)
    BY <2>4, <2>5, <2>6, <2>7
  <2>9. QED
    BY <2>1, <2>2, <2>8
<1>3. S \in Q
  <2> HIDE DEF Q
  <2>1. QED
    BY <1>1, <1>2, AddingReaches
<1>4. A \cap S = A
  OBVIOUS
<1>5. QED
  BY <1>3, <1>4
\* A sequence of values that grows by one at its end.
LEMMA SumAppended ==
  ASSUME NEW n \in Nat, NEW f, NEW g, DOMAIN f = 1..n, DOMAIN g = 1..(n + 1),
         \A i \in 1..n : f[i] \in Nat /\ g[i] = f[i], g[n + 1] \in Nat
  PROVE  SumFunction(g) = SumFunction(f) + g[n + 1]
<1>1. PICK S, x : S = 1..n /\ x = n + 1
  OBVIOUS
<1>2. IsFiniteSet(S)
  BY <1>1, FS_Interval
<1>3. x \notin S /\ S \cup {x} = 1..(n + 1) /\ \A y \in S \cup {x} : g[y] \in Nat
  BY <1>1
<1>4. /\ SumFunctionOnSet(g, S) \in Nat
      /\ SumFunctionOnSet(g, S \cup {x}) = SumFunctionOnSet(g, S) + g[x]
  BY <1>2, <1>3, SumExtended
<1>5. SumFunctionOnSet(g, S) = SumFunctionOnSet(f, S)
  BY <1>1, <1>2, SumSame
<1>6. SumFunction(f) = SumFunctionOnSet(f, S) /\ SumFunction(g) = SumFunctionOnSet(g, S \cup {x})
  BY <1>1, <1>3 DEF SumFunction
<1>7. QED
  BY <1>1, <1>4, <1>5, <1>6


=============================================================================
