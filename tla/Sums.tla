-------------------------------- MODULE Sums --------------------------------
(***************************************************************************)
(* Sums over finite sets: what SumFunctionOnSet(w, S) of the community      *)
(* modules, the total of the weights w[x] for x in S, satisfies.  It is a   *)
(* fold that picks its elements by CHOOSE; the lemmas show that a pick      *)
(* order does not matter, and what adding, removing or reweighing one       *)
(* element does to the total.  Induction is on the set, as a set of subsets *)
(* that holds every set when it is closed under the step.                   *)
(***************************************************************************)
EXTENDS Functions, FiniteSetTheorems, WellFoundedInduction, TLAPS

-----------------------------------------------------------------------------
(* Induction over the subsets of a finite set. *)

\* A non-empty set of subsets of a finite set has a member without a smaller one.
LEMMA SmallestSubset ==
  ASSUME NEW S, IsFiniteSet(S), NEW B, B \subseteq SUBSET S, B # {}
  PROVE  \E T \in B : \A U \in B : U \subseteq T => U = T
<1>1. B \subseteq FiniteSubsetsOf(S)
  BY FS_Subset DEF FiniteSubsetsOf
<1>2. IsWellFoundedOn(StrictSubsetOrdering(S), FiniteSubsetsOf(S))
  BY FS_StrictSubsetOrderingWellFounded
<1>3. \E T \in B : \A U \in B : ~(<<U, T>> \in StrictSubsetOrdering(S))
  BY <1>1, <1>2, WFMin
<1> QED BY <1>3 DEF StrictSubsetOrdering

\* A set of subsets of S that holds every subset all of whose smaller subsets
\* it holds, holds them all.
LEMMA SubsetInduction ==
  ASSUME NEW S, IsFiniteSet(S), NEW P,
         \A T \in SUBSET S : (\A U \in SUBSET T : U # T => U \in P) => T \in P
  PROVE  \A T \in SUBSET S : T \in P
<1> SUFFICES ASSUME NEW T \in SUBSET S, T \notin P
             PROVE  FALSE
  OBVIOUS
<1> DEFINE B == {U \in SUBSET S : U \notin P}
<1>1. PICK M \in B : \A U \in B : U \subseteq M => U = M
  <2>1. B \subseteq SUBSET S /\ B # {}
    OBVIOUS
  <2> HIDE DEF B
  <2> QED BY <2>1, SmallestSubset
<1>2. \A U \in SUBSET M : U # M => U \in P
  BY <1>1
<1> QED BY <1>1, <1>2

-----------------------------------------------------------------------------
(* The fold behind SumFunctionOnSet. *)

Pick(s) == CHOOSE x \in s : TRUE

IsFold(g, w, S) ==
  g = [s \in SUBSET S |-> IF s = {} THEN 0 ELSE w[Pick(s)] + g[s \ {Pick(s)}]]

Fold(w, S) == CHOOSE g : IsFold(g, w, S)

LEMMA SumIsFold ==
  ASSUME NEW w, NEW S
  PROVE  SumFunctionOnSet(w, S) = Fold(w, S)[S]
BY DEF SumFunctionOnSet, FoldFunctionOnSet, MapThenFoldSet, Fold, IsFold, Pick

LEMMA FoldAt ==
  ASSUME NEW w, NEW S, NEW g, IsFold(g, w, S), NEW s \in SUBSET S
  PROVE  g[s] = IF s = {} THEN 0 ELSE w[Pick(s)] + g[s \ {Pick(s)}]
BY DEF IsFold

LEMMA PickIn == \A s : s # {} => Pick(s) \in s
BY DEF Pick

\* Two folds agree wherever both are defined.
LEMMA FoldsAgree ==
  ASSUME NEW w, NEW S, NEW T, NEW g, NEW h, IsFold(g, w, S), IsFold(h, w, T),
         NEW U, IsFiniteSet(U), U \subseteq S, U \subseteq T
  PROVE  g[U] = h[U]
<1> DEFINE P == {V \in SUBSET U : g[V] = h[V]}
<1>1. ASSUME NEW V \in SUBSET U, \A W \in SUBSET V : W # V => W \in P
      PROVE  V \in P
  <2>1. CASE V = {}
    BY <2>1, FoldAt
  <2>2. CASE V # {}
    <3>1. Pick(V) \in V
      BY <2>2, PickIn
    <3>2. V \ {Pick(V)} \in P
      BY <1>1, <3>1
    <3>3. g[V \ {Pick(V)}] = h[V \ {Pick(V)}]
      BY <3>2
    <3>4. g[V] = w[Pick(V)] + g[V \ {Pick(V)}]
      BY <2>2, FoldAt
    <3>5. h[V] = w[Pick(V)] + h[V \ {Pick(V)}]
      BY <2>2, FoldAt
    <3> QED BY <3>3, <3>4, <3>5
  <2> QED BY <2>1, <2>2
<1>2. U \in P
  <2> HIDE DEF P
  <2> QED BY <1>1, SubsetInduction
<1> QED BY <1>2

\* The recursive definition behind the sum over a finite set is satisfiable.
LEMMA FoldExists ==
  ASSUME NEW w, NEW S, IsFiniteSet(S)
  PROVE  IsFold(Fold(w, S), w, S)
<1> DEFINE P == {T \in SUBSET S : IsFold(Fold(w, T), w, T)}
<1>1. ASSUME NEW T \in SUBSET S, \A U \in SUBSET T : U # T => U \in P
      PROVE  T \in P
  <2> DEFINE g == [s \in SUBSET T |->
                     IF s = {} THEN 0
                     ELSE w[Pick(s)] + Fold(w, s \ {Pick(s)})[s \ {Pick(s)}]]
  <2>1. ASSUME NEW s \in SUBSET T, s # {}
        PROVE  g[s \ {Pick(s)}] = Fold(w, s \ {Pick(s)})[s \ {Pick(s)}]
    <3> DEFINE u == s \ {Pick(s)}
    <3>1. u \in SUBSET T /\ u # T /\ u \in P
      BY <1>1, <2>1, PickIn
    <3>2. IsFold(Fold(w, u), w, u)
      BY <3>1
    <3>3. CASE u = {}
      BY <3>1, <3>2, <3>3, FoldAt
    <3>4. CASE u # {}
      <4> DEFINE v == u \ {Pick(u)}
      <4>1. v \in SUBSET u /\ v \in SUBSET T /\ v # T /\ IsFiniteSet(v)
        BY <3>1, <3>4, PickIn, FS_Subset
      <4>2. v \in P
        BY <1>1, <4>1
      <4>3. IsFold(Fold(w, v), w, v)
        BY <4>2
      <4>4. Fold(w, u)[v] = Fold(w, v)[v]
        <5> HIDE DEF u, v, P
        <5> QED BY <3>2, <4>1, <4>3, FoldsAgree
      <4>5. Fold(w, u)[u] = w[Pick(u)] + Fold(w, u)[v]
        <5>1. u \in SUBSET u
          OBVIOUS
        <5> HIDE DEF u
        <5> QED BY <3>2, <3>4, <5>1, FoldAt
      <4>6. g[u] = w[Pick(u)] + Fold(w, v)[v]
        BY <3>1, <3>4
      <4> HIDE DEF g, u, v
      <4> QED BY <4>4, <4>5, <4>6 DEF u
    <3> QED BY <3>3, <3>4
  <2>2. \A s \in SUBSET T :
          g[s] = IF s = {} THEN 0 ELSE w[Pick(s)] + g[s \ {Pick(s)}]
    <3> SUFFICES ASSUME NEW s \in SUBSET T
                 PROVE  g[s] = IF s = {} THEN 0 ELSE w[Pick(s)] + g[s \ {Pick(s)}]
      OBVIOUS
    <3>1. CASE s = {}
      BY <3>1
    <3>2. CASE s # {}
      <4>1. g[s] = w[Pick(s)] + Fold(w, s \ {Pick(s)})[s \ {Pick(s)}]
        BY <3>2
      <4>2. g[s \ {Pick(s)}] = Fold(w, s \ {Pick(s)})[s \ {Pick(s)}]
        BY <2>1, <3>2
      <4> HIDE DEF g
      <4> QED BY <3>2, <4>1, <4>2
    <3> QED BY <3>1, <3>2
  <2>3. IsFold(g, w, T)
    <3>1. g = [s \in SUBSET T |-> g[s]]
      OBVIOUS
    <3> HIDE DEF g
    <3> QED BY <2>2, <3>1 DEF IsFold
  <2>4. IsFold(Fold(w, T), w, T)
    <3> HIDE DEF g
    <3> QED BY <2>3 DEF Fold
  <2> QED BY <2>4
<1>2. S \in P
  <2> HIDE DEF P
  <2> QED BY <1>1, SubsetInduction
<1> QED BY <1>2

-----------------------------------------------------------------------------
(* What a sum is, whatever the order of the fold. *)

\* Nothing adds up to nothing.
LEMMA SumEmpty ==
  ASSUME NEW w
  PROVE  SumFunctionOnSet(w, {}) = 0
BY SumIsFold, FoldExists, FoldAt, FS_EmptySet

\* The fold's own step.
LEMMA SumPick ==
  ASSUME NEW w, NEW S, IsFiniteSet(S), S # {}
  PROVE  SumFunctionOnSet(w, S) = w[Pick(S)] + SumFunctionOnSet(w, S \ {Pick(S)})
<1> DEFINE T == S \ {Pick(S)}
<1>1. IsFiniteSet(T) /\ T \subseteq S /\ T \subseteq T
  BY FS_RemoveElement
<1>2. IsFold(Fold(w, S), w, S) /\ IsFold(Fold(w, T), w, T)
  BY <1>1, FoldExists
<1>3. Fold(w, S)[S] = w[Pick(S)] + Fold(w, S)[T]
  BY <1>2, FoldAt
<1> HIDE DEF T
<1>4. Fold(w, S)[T] = Fold(w, T)[T]
  BY <1>1, <1>2, FoldsAgree
<1> QED BY <1>3, <1>4, SumIsFold DEF T

\* A sum of integers is an integer, and of naturals a natural.
LEMMA SumType ==
  ASSUME NEW w, NEW S, IsFiniteSet(S), \A x \in S : w[x] \in Nat
  PROVE  SumFunctionOnSet(w, S) \in Nat
<1> DEFINE P == {T \in SUBSET S : SumFunctionOnSet(w, T) \in Nat}
<1>1. ASSUME NEW T \in SUBSET S, \A U \in SUBSET T : U # T => U \in P
      PROVE  T \in P
  <2>1. CASE T = {}
    BY <2>1, SumEmpty
  <2>2. CASE T # {}
    <3>1. IsFiniteSet(T) /\ Pick(T) \in T
      BY <2>2, PickIn, FS_Subset
    <3>2. T \ {Pick(T)} \in P
      BY <1>1, <3>1
    <3>3. SumFunctionOnSet(w, T \ {Pick(T)}) \in Nat
      BY <3>2
    <3>4. SumFunctionOnSet(w, T) = w[Pick(T)] + SumFunctionOnSet(w, T \ {Pick(T)})
      BY <2>2, <3>1, SumPick
    <3>5. w[Pick(T)] \in Nat
      BY <3>1
    <3>6. SumFunctionOnSet(w, T) \in Nat
      BY <3>3, <3>4, <3>5
    <3> QED BY <3>6
  <2> QED BY <2>1, <2>2
<1>2. S \in P
  <2> HIDE DEF P
  <2> QED BY <1>1, SubsetInduction
<1> QED BY <1>2

\* Any element may be taken out first.
LEMMA SumRemove ==
  ASSUME NEW w, NEW S, IsFiniteSet(S), \A x \in S : w[x] \in Nat, NEW x \in S
  PROVE  SumFunctionOnSet(w, S) = w[x] + SumFunctionOnSet(w, S \ {x})
<1> DEFINE P == {T \in SUBSET S :
                   \A y \in T : SumFunctionOnSet(w, T)
                                  = w[y] + SumFunctionOnSet(w, T \ {y})}
<1>1. ASSUME NEW T \in SUBSET S, \A U \in SUBSET T : U # T => U \in P
      PROVE  T \in P
  <2> SUFFICES ASSUME NEW y \in T
               PROVE  SumFunctionOnSet(w, T) = w[y] + SumFunctionOnSet(w, T \ {y})
    OBVIOUS
  <2> DEFINE p == Pick(T)
             Tp == T \ {p}
             Ty == T \ {y}
             Tpy == Tp \ {y}
  <2>1. IsFiniteSet(T) /\ p \in T
    BY PickIn, FS_Subset
  <2>2. SumFunctionOnSet(w, T) = w[p] + SumFunctionOnSet(w, Tp)
    BY <2>1, SumPick
  <2>3. CASE y = p
    BY <2>2, <2>3
  <2>4. CASE y # p
    <3>1. /\ Tp \in SUBSET T /\ Tp # T /\ y \in Tp
          /\ Ty \in SUBSET T /\ Ty # T /\ p \in Ty
          /\ Ty \ {p} = Tpy
      BY <2>1, <2>4
    <3>2. Tp \in P /\ Ty \in P
      BY <1>1, <3>1
    <3>3. SumFunctionOnSet(w, Tp) = w[y] + SumFunctionOnSet(w, Tpy)
      BY <3>1, <3>2
    <3>4. SumFunctionOnSet(w, Ty) = w[p] + SumFunctionOnSet(w, Tpy)
      <4>1. SumFunctionOnSet(w, Ty) = w[p] + SumFunctionOnSet(w, Ty \ {p})
        BY <3>1, <3>2
      <4> HIDE DEF Ty, Tpy, p
      <4> QED BY <3>1, <4>1
    <3>5. w[p] \in Nat /\ w[y] \in Nat /\ SumFunctionOnSet(w, Tpy) \in Nat
      <4>1. IsFiniteSet(Tpy) /\ Tpy \subseteq S
        BY <2>1, FS_Subset
      <4> HIDE DEF Tpy, p
      <4> QED BY <2>1, <4>1, SumType
    <3>6. SumFunctionOnSet(w, T) = w[y] + SumFunctionOnSet(w, Ty)
      <4> HIDE DEF p, Tp, Ty, Tpy, P
      <4> QED BY <2>2, <3>3, <3>4, <3>5
    <3> QED BY <3>6
  <2> QED BY <2>3, <2>4
<1>2. S \in P
  <2> HIDE DEF P
  <2> QED BY <1>1, SubsetInduction
<1> QED BY <1>2

\* An element that was not there adds its weight.
LEMMA SumAdd ==
  ASSUME NEW w, NEW S, IsFiniteSet(S), NEW x, x \notin S,
         \A y \in S \cup {x} : w[y] \in Nat
  PROVE  SumFunctionOnSet(w, S \cup {x}) = w[x] + SumFunctionOnSet(w, S)
<1>1. IsFiniteSet(S \cup {x}) /\ x \in S \cup {x}
  BY FS_AddElement
<1>2. (S \cup {x}) \ {x} = S
  OBVIOUS
<1> QED BY <1>1, <1>2, SumRemove

\* The total depends on nothing but the weights of the elements.
LEMMA SumSame ==
  ASSUME NEW v, NEW w, NEW S, IsFiniteSet(S), \A x \in S : v[x] = w[x]
  PROVE  SumFunctionOnSet(v, S) = SumFunctionOnSet(w, S)
<1> DEFINE P == {T \in SUBSET S : SumFunctionOnSet(v, T) = SumFunctionOnSet(w, T)}
<1>1. ASSUME NEW T \in SUBSET S, \A U \in SUBSET T : U # T => U \in P
      PROVE  T \in P
  <2>1. CASE T = {}
    BY <2>1, SumEmpty
  <2>2. CASE T # {}
    <3>1. IsFiniteSet(T) /\ Pick(T) \in T
      BY <2>2, PickIn, FS_Subset
    <3>2. T \ {Pick(T)} \in P
      BY <1>1, <3>1
    <3>3. SumFunctionOnSet(v, T \ {Pick(T)}) = SumFunctionOnSet(w, T \ {Pick(T)})
      BY <3>2
    <3>4. v[Pick(T)] = w[Pick(T)]
      BY <3>1
    <3>5. SumFunctionOnSet(v, T) = SumFunctionOnSet(w, T)
      BY <2>2, <3>1, <3>3, <3>4, SumPick
    <3> QED BY <3>5
  <2> QED BY <2>1, <2>2
<1>2. S \in P
  <2> HIDE DEF P
  <2> QED BY <1>1, SubsetInduction
<1> QED BY <1>2

\* A part never adds up to more than the whole.
LEMMA SumSubset ==
  ASSUME NEW w, NEW S, IsFiniteSet(S), \A x \in S : w[x] \in Nat, NEW T \in SUBSET S
  PROVE  SumFunctionOnSet(w, T) <= SumFunctionOnSet(w, S)
<1> DEFINE P == {U \in SUBSET S :
                   T \subseteq U => SumFunctionOnSet(w, T) <= SumFunctionOnSet(w, U)}
<1>1. ASSUME NEW U \in SUBSET S, \A V \in SUBSET U : V # U => V \in P
      PROVE  U \in P
  <2> SUFFICES ASSUME T \subseteq U
               PROVE  SumFunctionOnSet(w, T) <= SumFunctionOnSet(w, U)
    OBVIOUS
  <2>1. IsFiniteSet(U) /\ SumFunctionOnSet(w, U) \in Nat
    BY FS_Subset, SumType
  <2>2. CASE T = U
    BY <2>1, <2>2
  <2>3. CASE T # U
    <3>1. PICK x \in U : x \notin T
      BY <2>3
    <3> DEFINE V == U \ {x}
    <3>2. V \in P /\ T \subseteq V /\ IsFiniteSet(V) /\ V \subseteq S
      BY <1>1, <2>1, <3>1, FS_Subset
    <3>3. SumFunctionOnSet(w, T) <= SumFunctionOnSet(w, V)
      BY <3>2
    <3>4. SumFunctionOnSet(w, U) = w[x] + SumFunctionOnSet(w, V)
      BY <2>1, SumRemove
    <3>5. SumFunctionOnSet(w, V) \in Nat /\ SumFunctionOnSet(w, T) \in Nat
      <4>1. IsFiniteSet(T)
        BY FS_Subset
      <4> HIDE DEF V, P
      <4> QED BY <3>2, <4>1, SumType
    <3>6. w[x] \in Nat
      OBVIOUS
    <3> HIDE DEF V, P
    <3> QED BY <3>3, <3>4, <3>5, <3>6
  <2> QED BY <2>2, <2>3
<1>2. S \in P
  <2> HIDE DEF P
  <2> QED BY <1>1, SubsetInduction
<1> QED BY <1>2

\* Renaming the elements one to one keeps the total.
LEMMA SumRename ==
  ASSUME NEW v, NEW w, NEW f, NEW S, IsFiniteSet(S),
         \A x \in S : v[x] = w[f[x]] /\ w[f[x]] \in Nat,
         \A x, y \in S : f[x] = f[y] => x = y
  PROVE  SumFunctionOnSet(v, S) = SumFunctionOnSet(w, {f[x] : x \in S})
<1> DEFINE Img(T) == {f[x] : x \in T}
           P == {T \in SUBSET S :
                   /\ IsFiniteSet(Img(T))
                   /\ SumFunctionOnSet(v, T) = SumFunctionOnSet(w, Img(T))}
<1>1. ASSUME NEW T \in SUBSET S, \A U \in SUBSET T : U # T => U \in P
      PROVE  T \in P
  <2>1. CASE T = {}
    <3>1. Img(T) = {}
      BY <2>1
    <3>2. IsFiniteSet(Img(T)) /\ SumFunctionOnSet(v, T) = SumFunctionOnSet(w, Img(T))
      BY <2>1, <3>1, SumEmpty, FS_EmptySet
    <3> QED BY <3>2
  <2>2. CASE T # {}
    <3>1. PICK x \in T : TRUE
      BY <2>2
    <3> DEFINE U == T \ {x}
    <3>2. U \in P
      BY <1>1, <3>1
    <3>3. IsFiniteSet(Img(U)) /\ SumFunctionOnSet(v, U) = SumFunctionOnSet(w, Img(U))
      BY <3>2
    <3>4. Img(T) = Img(U) \cup {f[x]} /\ f[x] \notin Img(U)
      OBVIOUS
    <3>5. IsFiniteSet(T) /\ \A y \in T : v[y] \in Nat
      BY FS_Subset
    <3>6. SumFunctionOnSet(v, T) = v[x] + SumFunctionOnSet(v, U)
      BY <3>5, SumRemove
    <3>7. \A z \in Img(U) \cup {f[x]} : w[z] \in Nat
      OBVIOUS
    <3>8. IsFiniteSet(Img(T))
      <4> HIDE DEF Img, U
      <4> QED BY <3>3, <3>4, FS_AddElement
    <3>9. SumFunctionOnSet(w, Img(T)) = w[f[x]] + SumFunctionOnSet(w, Img(U))
      <4> HIDE DEF Img, U
      <4> QED BY <3>3, <3>4, <3>7, SumAdd
    <3>10. v[x] = w[f[x]]
      OBVIOUS
    <3>11. SumFunctionOnSet(v, T) = SumFunctionOnSet(w, Img(T))
      <4> HIDE DEF Img, U
      <4> QED BY <3>3, <3>6, <3>9, <3>10
    <3> QED BY <3>8, <3>11
  <2> QED BY <2>1, <2>2
<1>2. S \in P
  <2> HIDE DEF P
  <2> QED BY <1>1, SubsetInduction
<1> QED BY <1>2

\* Reweighing one element moves the total by as much.
LEMMA SumReweigh ==
  ASSUME NEW v, NEW w, NEW S, IsFiniteSet(S), NEW x \in S,
         \A y \in S : v[y] \in Nat /\ w[y] \in Nat,
         \A y \in S \ {x} : v[y] = w[y]
  PROVE  SumFunctionOnSet(v, S) + w[x] = SumFunctionOnSet(w, S) + v[x]
<1> DEFINE T == S \ {x}
<1>1. IsFiniteSet(T) /\ \A y \in T : v[y] = w[y] /\ w[y] \in Nat
  BY FS_Subset
<1>2. SumFunctionOnSet(v, S) = v[x] + SumFunctionOnSet(v, T)
  BY SumRemove
<1>3. SumFunctionOnSet(w, S) = w[x] + SumFunctionOnSet(w, T)
  BY SumRemove
<1> HIDE DEF T
<1>4. SumFunctionOnSet(v, T) = SumFunctionOnSet(w, T)
  BY <1>1, SumSame
<1>5. SumFunctionOnSet(w, T) \in Nat
  BY <1>1, SumType
<1>6. v[x] \in Nat /\ w[x] \in Nat
  OBVIOUS
<1> QED BY <1>2, <1>3, <1>4, <1>5, <1>6

\* Equal weights add up to their number times the weight.
LEMMA SumConstant ==
  ASSUME NEW w, NEW S, IsFiniteSet(S), NEW k \in Nat, \A x \in S : w[x] = k
  PROVE  SumFunctionOnSet(w, S) = k * Cardinality(S)
<1> DEFINE P == {T \in SUBSET S : SumFunctionOnSet(w, T) = k * Cardinality(T)}
<1>1. ASSUME NEW T \in SUBSET S, \A U \in SUBSET T : U # T => U \in P
      PROVE  T \in P
  <2>1. CASE T = {}
    BY <2>1, SumEmpty, FS_EmptySet
  <2>2. CASE T # {}
    <3>1. PICK x \in T : TRUE
      BY <2>2
    <3> DEFINE U == T \ {x}
    <3>2. U \in P
      BY <1>1, <3>1
    <3>3. SumFunctionOnSet(w, U) = k * Cardinality(U)
      BY <3>2
    <3>4. /\ IsFiniteSet(T) /\ IsFiniteSet(U)
          /\ Cardinality(T) \in Nat /\ Cardinality(U) = Cardinality(T) - 1
      BY FS_Subset, FS_RemoveElement, FS_CardinalityType
    <3>5. SumFunctionOnSet(w, T) = k + SumFunctionOnSet(w, U)
      BY <3>4, SumRemove
    <3>6. SumFunctionOnSet(w, T) = k * Cardinality(T)
      <4> HIDE DEF U
      <4>1. ASSUME NEW n \in Nat PROVE k + k * (n - 1) = k * n
        OBVIOUS
      <4> QED BY <3>3, <3>4, <3>5, <4>1
    <3> QED BY <3>6
  <2> QED BY <2>1, <2>2
<1>2. S \in P
  <2> HIDE DEF P
  <2> QED BY <1>1, SubsetInduction
<1> QED BY <1>2
=============================================================================
