------------------------------ MODULE SetLemmas ------------------------------
(***************************************************************************)
(* What the proofs of several components need of sets: the largest number  *)
(* of a set, as SELECT max(...) and ORDER BY ... DESC LIMIT 1 find it, and *)
(* sums over a set, as sum(...) computes them.                             *)
(***************************************************************************)
EXTENDS Integers, FiniteSetsExt, FiniteSetTheorems, WellFoundedInduction, TLAPS

\* A bounded set of natural numbers that is not empty has a largest one.
LEMMA MaxOfBounded ==
  ASSUME NEW S \in SUBSET Nat, NEW n \in Nat, \A s \in S : s <= n, S # {}
  PROVE  Max(S) \in S /\ \A s \in S : s <= Max(S)
<1> DEFINE T == {n - s : s \in S}
<1>1. T \subseteq Nat /\ T # {}
  <2>1. \A s \in S : n - s \in Nat
    OBVIOUS
  <2>2. T \subseteq Nat
    BY <2>1
  <2>3. PICK s \in S : TRUE
    OBVIOUS
  <2>4. n - s \in T
    OBVIOUS
  <2> QED
    BY <2>2, <2>4
<1>2. \E d \in T : \A e \in T : ~(<<e, d>> \in OpToRel(<, Nat))
  BY <1>1, NatLessThanWellFounded, WFMin, Zenon
<1>3. \A d, e \in Nat : <<e, d>> \in OpToRel(<, Nat) <=> e < d
  BY DEF OpToRel
<1>4. PICK m \in S : \A e \in T : ~(e < n - m)
  <2>1. PICK d \in T : \A e \in T : ~(<<e, d>> \in OpToRel(<, Nat))
    BY <1>2
  <2>2. \A e \in T : ~(e < d)
    <3> HIDE DEF T
    <3> QED
      BY <1>1, <1>3, <2>1
  <2> QED
    BY <2>2
<1>5. \A s \in S : s <= m
  <2>1. ASSUME NEW s \in S
        PROVE  s <= m
    <3>1. ~(n - s < n - m)
      BY <1>4
    <3> HIDE DEF T
    <3> QED
      BY <3>1
  <2> QED
    BY <2>1
<1> QED
  BY <1>5 DEF Max

\* Among some subsets of a finite set one is the smallest that there is.
LEMMA SmallestSet ==
  ASSUME NEW S, IsFiniteSet(S), NEW C, C \subseteq SUBSET S, C # {}
  PROVE  \E T \in C : \A U \in C : U \subseteq T => U = T
<1>1. FiniteSubsetsOf(S) = SUBSET S
  BY FS_FiniteSubsetsOfFinite, Zenon
<1>2. IsWellFoundedOn(StrictSubsetOrdering(S), SUBSET S)
  BY <1>1, FS_StrictSubsetOrderingWellFounded, Zenon
<1>3. PICK T \in C : \A U \in C : ~(<<U, T>> \in StrictSubsetOrdering(S))
  BY <1>2, WFMin, Zenon
<1>4. ASSUME NEW U \in C, U \subseteq T
      PROVE  U = T
  BY <1>3, <1>4 DEF StrictSubsetOrdering
<1> QED
  BY <1>4
-------------------------------------------------------------------------------
(***************************************************************************)
(* Sums.  MapThenSumSet takes one element after the other off the set,     *)
(* as CHOOSE finds them; that it does not matter which is SumStep.         *)
(***************************************************************************)
Sum(f, S) == MapThenSumSet(LAMBDA x : f[x], S)

Pick(S) == CHOOSE x \in S : TRUE

LEMMA PickIn == ASSUME NEW S, S # {} PROVE Pick(S) \in S
  BY DEF Pick

\* g sums f over the subsets of S.
SumsUp(g, f, S) ==
  g = [s \in SUBSET S |-> IF s = {} THEN 0 ELSE f[Pick(s)] + g[s \ {Pick(s)}]]

LEMMA SumIsSums ==
  ASSUME NEW f, NEW S
  PROVE  Sum(f, S) = (CHOOSE g : SumsUp(g, f, S))[S]
  BY DEF Sum, MapThenSumSet, MapThenFoldSet, SumsUp, Pick

LEMMA SumsAgree ==
  ASSUME NEW f, NEW S, IsFiniteSet(S), NEW g, SumsUp(g, f, S),
         NEW T \in SUBSET S, NEW h, SumsUp(h, f, T)
  PROVE  h[T] = g[T]
<1> DEFINE C == {U \in SUBSET T : h[U] # g[U]}
<1> SUFFICES ASSUME C # {}
             PROVE  FALSE
  OBVIOUS
<1>1. IsFiniteSet(T)
  BY FS_Subset
<1>2. PICK U \in C : \A V \in C : V \subseteq U => V = U
  <2>1. C \subseteq SUBSET T
    OBVIOUS
  <2> HIDE DEF C
  <2> QED
    BY <1>1, <2>1, SmallestSet
<1>3. U # {}
  BY DEF SumsUp
<1>4. h[U \ {Pick(U)}] = g[U \ {Pick(U)}]
  BY <1>2, <1>3, PickIn
<1>5. /\ h[U] = f[Pick(U)] + h[U \ {Pick(U)}]
      /\ g[U] = f[Pick(U)] + g[U \ {Pick(U)}]
  BY <1>3 DEF SumsUp
<1> QED
  BY <1>4, <1>5

LEMMA SumsExist ==
  ASSUME NEW f, NEW S, IsFiniteSet(S)
  PROVE  \E g : SumsUp(g, f, S)
<1> DEFINE C == {T \in SUBSET S : ~\E g : SumsUp(g, f, T)}
<1> SUFFICES ASSUME C # {}
             PROVE  FALSE
  BY Zenon
<1>1. PICK T \in C : \A U \in C : U \subseteq T => U = T
  <2>1. C \subseteq SUBSET S
    OBVIOUS
  <2> HIDE DEF C
  <2> QED
    BY <2>1, SmallestSet
<1>2. IsFiniteSet(T)
  BY FS_Subset
<1> DEFINE G(U) == CHOOSE g : SumsUp(g, f, U)
           p == Pick(T)
<1>3. ASSUME NEW U \in SUBSET T, U # T
      PROVE  SumsUp(G(U), f, U)
  <2>1. \E g : SumsUp(g, f, U)
    BY <1>1, <1>3
  <2> QED
    BY <2>1
<1> DEFINE h == [U \in SUBSET T |-> IF U = T /\ T # {} THEN f[p] + G(T \ {p})[T \ {p}] ELSE G(U)[U]]
<1>4. T # {}
  <2>1. SUFFICES ASSUME T = {}
                 PROVE  \E g : SumsUp(g, f, T)
    BY <1>1
  <2>2. SumsUp([s \in SUBSET T |-> 0], f, T)
    BY <2>1 DEF SumsUp
  <2> QED
    BY <2>2
<1>5. p \in T
  BY <1>4, PickIn
<1>6. ASSUME NEW U \in SUBSET T
      PROVE  h[U] = IF U = {} THEN 0 ELSE f[Pick(U)] + h[U \ {Pick(U)}]
  <2>1. CASE U = {}
    <3>1. h[U] = G(U)[U] /\ SumsUp(G(U), f, U)
      BY <1>3, <1>4, <2>1
    <3> HIDE DEF G, h
    <3> QED
      BY <2>1, <3>1 DEF SumsUp
  <2>2. CASE U = T
    <3>1. T \ {p} \in SUBSET T /\ T \ {p} # T
      BY <1>5
    <3>2. h[T \ {p}] = G(T \ {p})[T \ {p}]
      BY <3>1
    <3>3. h[T] = f[p] + G(T \ {p})[T \ {p}]
      BY <1>4
    <3> QED
      BY <1>4, <2>2, <3>2, <3>3
  <2>3. CASE U # {} /\ U # T
    <3> DEFINE q == Pick(U)
    <3>1. q \in U
      BY <2>3, PickIn
    <3>2. U \ {q} \in SUBSET U /\ U \ {q} \in SUBSET T /\ U \ {q} # T
      BY <2>3
    <3>3. SumsUp(G(U), f, U) /\ SumsUp(G(U \ {q}), f, U \ {q})
      BY <1>3, <2>3, <3>2
    <3>4. h[U] = G(U)[U] /\ h[U \ {q}] = G(U \ {q})[U \ {q}]
      BY <2>3, <3>2
    <3>5. IsFiniteSet(U)
      BY <1>2, FS_Subset
    <3> HIDE DEF G, h
    <3>6. G(U \ {q})[U \ {q}] = G(U)[U \ {q}]
      BY <3>2, <3>3, <3>5, SumsAgree
    <3>7. G(U)[U] = f[q] + G(U)[U \ {q}]
      BY <2>3, <3>3 DEF SumsUp
    <3> QED
      BY <2>3, <3>4, <3>6, <3>7
  <2> QED
    BY <2>1, <2>2, <2>3
<1>7. SumsUp(h, f, T)
  <2>1. h = [U \in SUBSET T |-> h[U]]
    OBVIOUS
  <2> HIDE DEF h
  <2> QED
    BY <1>6, <2>1 DEF SumsUp
<1> QED
  BY <1>1, <1>7

LEMMA SumEmpty == ASSUME NEW f PROVE Sum(f, {}) = 0
<1>1. PICK g : SumsUp(g, f, {}) /\ Sum(f, {}) = g[{}]
  BY SumsExist, SumIsSums, FS_EmptySet, Zenon
<1> QED
  BY <1>1 DEF SumsUp

LEMMA SumPick ==
  ASSUME NEW f, NEW S, IsFiniteSet(S), S # {}
  PROVE  Sum(f, S) = f[Pick(S)] + Sum(f, S \ {Pick(S)})
<1> DEFINE T == S \ {Pick(S)}
<1>1. T \in SUBSET S /\ IsFiniteSet(T)
  BY FS_Subset
<1>2. PICK g : SumsUp(g, f, S) /\ Sum(f, S) = g[S]
  BY SumsExist, SumIsSums, Zenon
<1>3. PICK h : SumsUp(h, f, T) /\ Sum(f, T) = h[T]
  BY <1>1, SumsExist, SumIsSums, Zenon
<1>4. g[S] = f[Pick(S)] + g[T]
  BY <1>2 DEF SumsUp
<1> HIDE DEF T
<1>5. h[T] = g[T]
  BY <1>1, <1>2, <1>3, SumsAgree
<1> QED
  BY <1>2, <1>3, <1>4, <1>5 DEF T

\* A sum of integers is one, and one of natural numbers, too.
LEMMA SumType ==
  ASSUME NEW R \in {Int, Nat}, NEW S, IsFiniteSet(S), NEW f, \A x \in S : f[x] \in R
  PROVE  Sum(f, S) \in R
<1> DEFINE C == {T \in SUBSET S : Sum(f, T) \notin R}
<1> SUFFICES ASSUME C # {}
             PROVE  FALSE
  OBVIOUS
<1>1. PICK T \in C : \A U \in C : U \subseteq T => U = T
  <2>1. C \subseteq SUBSET S
    OBVIOUS
  <2> HIDE DEF C
  <2> QED
    BY <2>1, SmallestSet
<1>2. T # {}
  BY SumEmpty
<1>3. Pick(T) \in T /\ IsFiniteSet(T)
  BY <1>2, PickIn, FS_Subset
<1>4. Sum(f, T \ {Pick(T)}) \in R
  BY <1>1, <1>3
<1>5. Sum(f, T) = f[Pick(T)] + Sum(f, T \ {Pick(T)})
  BY <1>2, <1>3, SumPick
<1> QED
  BY <1>3, <1>4, <1>5

\* Any element may be taken off the sum.
LEMMA SumStep ==
  ASSUME NEW S, IsFiniteSet(S), NEW f, \A x \in S : f[x] \in Int, NEW x \in S
  PROVE  Sum(f, S) = f[x] + Sum(f, S \ {x})
<1> DEFINE C == {T \in SUBSET S : \E y \in T : Sum(f, T) # f[y] + Sum(f, T \ {y})}
<1> SUFFICES ASSUME C # {}
             PROVE  FALSE
  OBVIOUS
<1>1. PICK T \in C : \A U \in C : U \subseteq T => U = T
  <2>1. C \subseteq SUBSET S
    OBVIOUS
  <2> HIDE DEF C
  <2> QED
    BY <2>1, SmallestSet
<1>2. PICK y \in T : Sum(f, T) # f[y] + Sum(f, T \ {y})
  BY <1>1
<1> DEFINE p == Pick(T)
<1>3. p \in T /\ T # {} /\ T \subseteq S /\ IsFiniteSet(T)
  BY <1>1, <1>2, PickIn, FS_Subset
<1>4. Sum(f, T) = f[p] + Sum(f, T \ {p})
  BY <1>3, SumPick
<1>5. p # y
  BY <1>2, <1>4
<1>6. \A U \in SUBSET T : U # T => \A z \in U : Sum(f, U) = f[z] + Sum(f, U \ {z})
  BY <1>1
<1> DEFINE V == (T \ {p}) \ {y}
<1> HIDE DEF p, C
<1>7. V = (T \ {y}) \ {p} /\ V \in SUBSET T
  OBVIOUS
<1>8. Sum(f, T \ {p}) = f[y] + Sum(f, V)
  BY <1>3, <1>5, <1>6
<1>9. Sum(f, T \ {y}) = f[p] + Sum(f, V)
  BY <1>2, <1>3, <1>5, <1>6, <1>7
<1>10. f[p] \in Int /\ f[y] \in Int
  BY <1>3
<1>11. Sum(f, V) \in Int
  <2>1. IsFiniteSet(V)
    BY <1>3, <1>7, FS_Subset
  <2>2. \A z \in V : f[z] \in Int
    BY <1>3
  <2> HIDE DEF V
  <2> QED
    BY <2>1, <2>2, SumType
<1> QED
  BY <1>2, <1>4, <1>8, <1>9, <1>10, <1>11

\* An element more is a summand more.
LEMMA SumAdd ==
  ASSUME NEW S, IsFiniteSet(S), NEW x, x \notin S, NEW f, \A y \in S \cup {x} : f[y] \in Int
  PROVE  Sum(f, S \cup {x}) = f[x] + Sum(f, S)
<1> DEFINE T == S \cup {x}
<1>1. IsFiniteSet(T) /\ x \in T /\ T \ {x} = S
  BY FS_AddElement
<1> HIDE DEF T
<1>2. Sum(f, T) = f[x] + Sum(f, T \ {x})
  BY <1>1, SumStep DEF T
<1> QED
  BY <1>1, <1>2 DEF T

\* One set summed by two functions that take its elements to each other.
LEMMA SumMapped ==
  ASSUME NEW S, IsFiniteSet(S), NEW R, NEW b \in Bijection(S, R), NEW f, NEW g,
         \A x \in S : f[x] \in Int /\ g[b[x]] = f[x]
  PROVE  IsFiniteSet(R) /\ Sum(g, R) = Sum(f, S)
<1> DEFINE I(T) == {b[x] : x \in T}
           C == {T \in SUBSET S : ~(IsFiniteSet(I(T)) /\ Sum(g, I(T)) = Sum(f, T))}
<1>1. R = I(S) /\ \A x, y \in S : b[x] = b[y] => x = y
  BY DEF Bijection, Injection, IsInjective, Surjection
<1> SUFFICES ASSUME C # {}
             PROVE  FALSE
  <2>1. C = {} => IsFiniteSet(I(S)) /\ Sum(g, I(S)) = Sum(f, S)
    OBVIOUS
  <2> HIDE DEF I, C
  <2> QED
    BY <1>1, <2>1
<1>2. PICK T \in C : \A U \in C : U \subseteq T => U = T
  <2>1. C \subseteq SUBSET S
    OBVIOUS
  <2> HIDE DEF C
  <2> QED
    BY <2>1, SmallestSet
<1>3. T # {}
  <2>1. ASSUME T = {}
        PROVE  I(T) = {}
    BY <2>1
  <2> HIDE DEF I
  <2> QED
    BY <1>2, <2>1, SumEmpty, FS_EmptySet
<1>4. Pick(T) \in T /\ T \subseteq S /\ IsFiniteSet(T)
  BY <1>2, <1>3, PickIn, FS_Subset
<1> DEFINE p == Pick(T)
           U == T \ {p}
<1>5. IsFiniteSet(I(U)) /\ Sum(g, I(U)) = Sum(f, U)
  <2>1. U # T /\ U \subseteq T
    BY <1>4
  <2>2. U \notin C
    <3> HIDE DEF U, C
    <3> QED
      BY <1>2, <2>1
  <2>3. U \in SUBSET S
    BY <1>4
  <2> HIDE DEF U
  <2> QED
    BY <2>2, <2>3
<1>6. Sum(f, T) = f[p] + Sum(f, U)
  BY <1>3, <1>4, SumPick
<1> HIDE DEF p
<1>7. b[p] \notin I(U) /\ I(T) = I(U) \cup {b[p]}
  BY <1>1, <1>4 DEF p
<1>8. IsFiniteSet(I(U)) /\ \A y \in I(U) \cup {b[p]} : g[y] \in Int
  <2>1. \A y \in I(U) \cup {b[p]} : g[y] \in Int
    BY <1>4 DEF p
  <2> HIDE DEF I
  <2> QED
    BY <1>5, <2>1
<1>9. Sum(g, I(T)) = g[b[p]] + Sum(g, I(U))
  <2> HIDE DEF I, U
  <2> QED
    BY <1>7, <1>8, SumAdd
<1>10. g[b[p]] = f[p]
  BY <1>4 DEF p
<1>11. IsFiniteSet(I(T))
  <2> HIDE DEF I, U
  <2> QED
    BY <1>5, <1>7, FS_AddElement
<1> QED
  BY <1>2, <1>5, <1>6, <1>9, <1>10, <1>11

\* Functions that agree on a set have the same sum over it.
LEMMA SumSame ==
  ASSUME NEW S, IsFiniteSet(S), NEW f, NEW g, \A x \in S : f[x] = g[x]
  PROVE  Sum(f, S) = Sum(g, S)
<1> DEFINE C == {T \in SUBSET S : Sum(f, T) # Sum(g, T)}
<1> SUFFICES ASSUME C # {}
             PROVE  FALSE
  OBVIOUS
<1>1. PICK T \in C : \A U \in C : U \subseteq T => U = T
  <2>1. C \subseteq SUBSET S
    OBVIOUS
  <2> HIDE DEF C
  <2> QED
    BY <2>1, SmallestSet
<1>2. T # {}
  BY <1>1, SumEmpty
<1>3. Pick(T) \in T /\ IsFiniteSet(T) /\ T \subseteq S
  BY <1>1, <1>2, PickIn, FS_Subset
<1>4. Sum(f, T \ {Pick(T)}) = Sum(g, T \ {Pick(T)})
  BY <1>1, <1>3
<1>5. Sum(f, T) = f[Pick(T)] + Sum(f, T \ {Pick(T)})
  BY <1>2, <1>3, SumPick
<1>6. Sum(g, T) = g[Pick(T)] + Sum(g, T \ {Pick(T)})
  BY <1>2, <1>3, SumPick
<1>7. f[Pick(T)] = g[Pick(T)] /\ Sum(f, T) # Sum(g, T)
  BY <1>1, <1>3
<1> QED
  BY <1>4, <1>5, <1>6, <1>7, Zenon

\* A part of a sum of natural numbers is at most the whole.
LEMMA SumOfPart ==
  ASSUME NEW S, IsFiniteSet(S), NEW f, \A x \in S : f[x] \in Nat, NEW T \in SUBSET S
  PROVE  Sum(f, T) <= Sum(f, S)
<1> DEFINE C == {U \in SUBSET S : T \subseteq U /\ ~(Sum(f, T) <= Sum(f, U))}
<1> SUFFICES ASSUME C # {}
             PROVE  FALSE
  OBVIOUS
<1>1. PICK U \in C : \A V \in C : V \subseteq U => V = U
  <2>1. C \subseteq SUBSET S
    OBVIOUS
  <2> HIDE DEF C
  <2> QED
    BY <2>1, SmallestSet
<1>2. IsFiniteSet(T) /\ IsFiniteSet(U) /\ U \subseteq S
  BY <1>1, FS_Subset
<1>3. Sum(f, T) \in Nat /\ Sum(f, U) \in Nat
  BY <1>2, SumType
<1>4. PICK x \in U : x \notin T
  <2>1. T \subseteq U /\ ~(Sum(f, T) <= Sum(f, U))
    BY <1>1
  <2>2. T # U
    BY <1>3, <2>1
  <2> QED
    BY <2>1, <2>2, Zenon
<1>5. T \subseteq U \ {x} /\ IsFiniteSet(U \ {x})
  BY <1>1, <1>2, <1>4, FS_Subset
<1>6. Sum(f, T) <= Sum(f, U \ {x})
  BY <1>1, <1>2, <1>5
<1>7. Sum(f, U) = f[x] + Sum(f, U \ {x})
  BY <1>2, SumStep
<1>8. Sum(f, U \ {x}) \in Nat /\ f[x] \in Nat
  BY <1>2, <1>5, SumType
<1> QED
  BY <1>1, <1>3, <1>6, <1>7, <1>8
==============================================================================
