---------------------------- MODULE ERC1155Proof ----------------------------
(***************************************************************************)
(* Proofs about ERC1155, for any accounts in any order of their keys, any  *)
(* tokens, amounts and width of the integers, any number of transactions   *)
(* in flight, length of the batches and length of the ledger.              *)
(*                                                                         *)
(* Balances are sums over finite sets, and what a sum is for every set is  *)
(* proved by induction.  The principle is stated for a set of sets, which  *)
(* the provers can instantiate, and derived from the well-foundedness of   *)
(* the strict inclusion of finite sets.                                    *)
(***************************************************************************)
EXTENDS ERC1155, FiniteSetTheorems, TLAPS

-----------------------------------------------------------------------------
(* Sums over finite sets.                                                  *)

\* Induction over the subsets of a finite set, as a fact about a set of sets.
LEMMA SetInduction ==
    ASSUME NEW S, IsFiniteSet(S), NEW P, {} \in P,
           \A T \in SUBSET S, x \in S : T \in P /\ x \notin T => T \union {x} \in P
    PROVE  S \in P
<1> SUFFICES ASSUME S \notin P PROVE FALSE
  OBVIOUS
<1> DEFINE Bad == {T \in SUBSET S : T \notin P}
<1>1. Bad \subseteq FiniteSubsetsOf(S)
  BY FS_Subset DEF FiniteSubsetsOf
<1>2. S \in Bad
  OBVIOUS
<1>3. PICK T \in Bad : \A U \in Bad : <<U, T>> \notin StrictSubsetOrdering(S)
  <2> HIDE DEF Bad
  <2> QED
    BY <1>1, <1>2, FS_StrictSubsetOrderingWellFounded, WFMin
<1>4. T # {} /\ T \in SUBSET S
  OBVIOUS
<1>5. PICK x \in T : TRUE
  BY <1>4
<1>6. T \ {x} \in P
  <2>1. <<T \ {x}, T>> \in StrictSubsetOrdering(S)
    BY <1>4, <1>5 DEF StrictSubsetOrdering
  <2> QED
    BY <1>3, <1>4, <2>1
<1>7. (T \ {x}) \union {x} = T
  BY <1>5
<1> QED
  BY <1>4, <1>5, <1>6, <1>7

\* How SumFunctionOnSet adds: one chosen element first.
Some(s) == CHOOSE x \in s : TRUE
Step(f, g, s) == IF s = {} THEN 0 ELSE f[Some(s)] + g[s \ {Some(s)}]
IsIter(f, S, g) == g = [s \in SUBSET S |-> Step(f, g, s)]
Iter(f, S) == CHOOSE g : IsIter(f, S, g)

\* A sum is the value at the set of the function that is chosen for it.
LEMMA Unfold == \A f, S : SumFunctionOnSet(f, S) = Iter(f, S)[S]
  BY DEF SumFunctionOnSet, FoldFunctionOnSet, MapThenFoldSet, Iter, IsIter, Step, Some

\* The chosen element.
LEMMA SomeFacts == \A s : s # {} => Some(s) \in s
  BY DEF Some

\* Two such functions agree where both are defined.
LEMMA IterUnique ==
    ASSUME NEW f, NEW S, NEW T, NEW g, NEW h, IsIter(f, S, g), IsIter(f, T, h),
           NEW W, IsFiniteSet(W), W \subseteq S, W \subseteq T
    PROVE  g[W] = h[W]
<1> SUFFICES ASSUME g[W] # h[W] PROVE FALSE
  OBVIOUS
<1> DEFINE Bad == {U \in SUBSET W : g[U] # h[U]}
<1>1. Bad \subseteq FiniteSubsetsOf(W)
  BY FS_Subset DEF FiniteSubsetsOf
<1>2. W \in Bad
  OBVIOUS
<1>3. PICK U \in Bad : \A V \in Bad : <<V, U>> \notin StrictSubsetOrdering(W)
  <2> HIDE DEF Bad
  <2> QED
    BY <1>1, <1>2, FS_StrictSubsetOrderingWellFounded, WFMin
<1>4. /\ g[U] = Step(f, g, U) /\ h[U] = Step(f, h, U)
      /\ U \in SUBSET W
  BY DEF IsIter
<1>5. U # {}
  BY <1>4 DEF Step
<1> DEFINE V == U \ {Some(U)}
<1>6. <<V, U>> \in StrictSubsetOrdering(W)
  BY <1>4, <1>5, SomeFacts DEF StrictSubsetOrdering
<1>7. g[V] = h[V]
  BY <1>3, <1>4, <1>6
<1> QED
  BY <1>4, <1>5, <1>7 DEF Step

\* And there is one.
LEMMA IterExists ==
    ASSUME NEW f, NEW S, IsFiniteSet(S)
    PROVE  IsIter(f, S, Iter(f, S))
<1> SUFFICES ASSUME ~IsIter(f, S, Iter(f, S)) PROVE FALSE
  OBVIOUS
<1> DEFINE Bad == {U \in SUBSET S : ~IsIter(f, U, Iter(f, U))}
<1>1. Bad \subseteq FiniteSubsetsOf(S)
  BY FS_Subset DEF FiniteSubsetsOf
<1>2. S \in Bad
  OBVIOUS
<1>3. PICK U \in Bad : \A V \in Bad : <<V, U>> \notin StrictSubsetOrdering(S)
  <2> HIDE DEF Bad
  <2> QED
    BY <1>1, <1>2, FS_StrictSubsetOrderingWellFounded, WFMin
<1>4. U \in SUBSET S /\ IsFiniteSet(U) /\ ~IsIter(f, U, Iter(f, U))
  BY FS_Subset
<1>5. \A V \in SUBSET U : V # U => IsFiniteSet(V) /\ IsIter(f, V, Iter(f, V))
  <2> SUFFICES ASSUME NEW V \in SUBSET U, V # U
               PROVE  IsFiniteSet(V) /\ IsIter(f, V, Iter(f, V))
    OBVIOUS
  <2>1. <<V, U>> \in StrictSubsetOrdering(S)
    BY <1>4 DEF StrictSubsetOrdering
  <2> QED
    BY <1>3, <1>4, <2>1, FS_Subset
<1> DEFINE Value(s) == IF s = {} THEN 0
                       ELSE f[Some(s)] + Iter(f, s \ {Some(s)})[s \ {Some(s)}]
           h == [s \in SUBSET U |-> Value(s)]
<1>6. ASSUME NEW V \in SUBSET U, V # U
      PROVE  h[V] = Iter(f, V)[V]
  <2>1. Iter(f, V)[V] = Step(f, Iter(f, V), V)
    BY <1>5, <1>6 DEF IsIter
  <2>2. CASE V = {}
    BY <2>1, <2>2 DEF Step
  <2>3. CASE V # {}
    <3> DEFINE Y == V \ {Some(V)}
    <3>1. Y \in SUBSET U /\ Y # U /\ Y \subseteq V
      BY <1>6, <2>3, SomeFacts
    <3>2. Iter(f, V)[Y] = Iter(f, Y)[Y]
      <4> HIDE DEF Y
      <4> QED
        BY <1>5, <1>6, <3>1, IterUnique
    <3> QED
      BY <2>1, <2>3, <3>2 DEF Step
  <2> QED
    BY <2>2, <2>3
<1>7. ASSUME NEW s \in SUBSET U
      PROVE  h[s] = Step(f, h, s)
  <2>1. CASE s = {}
    BY <2>1 DEF Step
  <2>2. CASE s # {}
    <3>1. s \ {Some(s)} \in SUBSET U /\ s \ {Some(s)} # U
      BY <2>2, SomeFacts
    <3>2. h[s \ {Some(s)}] = Iter(f, s \ {Some(s)})[s \ {Some(s)}]
      BY <1>6, <3>1
    <3>3. h[s] = f[Some(s)] + Iter(f, s \ {Some(s)})[s \ {Some(s)}]
      BY <2>2
    <3> HIDE DEF h
    <3> QED
      BY <2>2, <3>2, <3>3 DEF Step
  <2> QED
    BY <2>1, <2>2
<1>8. h = [s \in SUBSET U |-> Step(f, h, s)]
  <2>1. h = [s \in SUBSET U |-> h[s]]
    OBVIOUS
  <2> HIDE DEF h
  <2> QED
    BY <1>7, <2>1
<1> QED
  <2> HIDE DEF h
  <2> QED
    BY <1>4, <1>8 DEF IsIter, Iter

\* The two clauses of a sum.
LEMMA SumClauses ==
    /\ \A f : SumFunctionOnSet(f, {}) = 0
    /\ \A f, S : IsFiniteSet(S) /\ S # {} =>
          SumFunctionOnSet(f, S) = f[Some(S)] + SumFunctionOnSet(f, S \ {Some(S)})
<1>1. ASSUME NEW f, NEW S, IsFiniteSet(S)
      PROVE  SumFunctionOnSet(f, S) = Step(f, Iter(f, S), S)
  <2>1. IsIter(f, S, Iter(f, S))
    BY <1>1, IterExists
  <2>2. Iter(f, S)[S] = Step(f, Iter(f, S), S)
    BY <2>1 DEF IsIter
  <2> QED
    BY <2>2, Unfold
<1>2. ASSUME NEW f
      PROVE  SumFunctionOnSet(f, {}) = 0
  BY <1>1, FS_EmptySet DEF Step
<1>3. ASSUME NEW f, NEW S, IsFiniteSet(S), S # {}
      PROVE  SumFunctionOnSet(f, S) = f[Some(S)] + SumFunctionOnSet(f, S \ {Some(S)})
  <2> DEFINE T == S \ {Some(S)}
  <2>1. IsFiniteSet(T) /\ T \subseteq S
    BY <1>3, FS_Subset
  <2>2. IsIter(f, S, Iter(f, S)) /\ IsIter(f, T, Iter(f, T))
    BY <1>3, <2>1, IterExists
  <2>3. Iter(f, S)[T] = Iter(f, T)[T]
    <3> HIDE DEF T
    <3> QED
      BY <2>1, <2>2, IterUnique
  <2>4. SumFunctionOnSet(f, T) = Iter(f, T)[T]
    BY Unfold
  <2> QED
    BY <1>1, <1>3, <2>3, <2>4 DEF Step
<1> QED
  BY <1>2, <1>3

-----------------------------------------------------------------------------
(* Sums of ints over finite sets, in any order.                            *)

\* A sum of ints is an int.
LEMMA SumInt ==
    ASSUME NEW S, IsFiniteSet(S), NEW f, \A x \in S : f[x] \in Int
    PROVE  SumFunctionOnSet(f, S) \in Int
<1> SUFFICES ASSUME SumFunctionOnSet(f, S) \notin Int PROVE FALSE
  OBVIOUS
<1> DEFINE Bad == {U \in SUBSET S : SumFunctionOnSet(f, U) \notin Int}
<1>1. Bad \subseteq FiniteSubsetsOf(S)
  BY FS_Subset DEF FiniteSubsetsOf
<1>2. S \in Bad
  OBVIOUS
<1>3. PICK U \in Bad : \A V \in Bad : <<V, U>> \notin StrictSubsetOrdering(S)
  <2> HIDE DEF Bad
  <2> QED
    BY <1>1, <1>2, FS_StrictSubsetOrderingWellFounded, WFMin
<1>4. U \in SUBSET S /\ IsFiniteSet(U) /\ SumFunctionOnSet(f, U) \notin Int
  BY FS_Subset
<1>5. U # {}
  BY <1>4, SumClauses
<1> DEFINE V == U \ {Some(U)}
<1>6. <<V, U>> \in StrictSubsetOrdering(S) /\ V \in SUBSET S
  BY <1>4, <1>5, SomeFacts DEF StrictSubsetOrdering
<1>7. SumFunctionOnSet(f, V) \in Int
  BY <1>3, <1>6
<1>8. f[Some(U)] \in Int
  BY <1>4, <1>5, SomeFacts
<1>9. SumFunctionOnSet(f, U) = f[Some(U)] + SumFunctionOnSet(f, V)
  BY <1>4, <1>5, SumClauses
<1> HIDE DEF V
<1> QED
  BY <1>4, <1>7, <1>8, <1>9

\* Any element of the set may be split off.
LEMMA SumSplit ==
    ASSUME NEW S, IsFiniteSet(S), NEW f, \A x \in S : f[x] \in Int, NEW x \in S
    PROVE  SumFunctionOnSet(f, S) = f[x] + SumFunctionOnSet(f, S \ {x})
<1> DEFINE Good(U) == \A y \in U : SumFunctionOnSet(f, U) = f[y] + SumFunctionOnSet(f, U \ {y})
<1> SUFFICES ASSUME ~Good(S) PROVE FALSE
  OBVIOUS
<1> DEFINE Bad == {U \in SUBSET S : ~Good(U)}
<1>1. Bad \subseteq FiniteSubsetsOf(S)
  BY FS_Subset DEF FiniteSubsetsOf
<1>2. S \in Bad
  OBVIOUS
<1>3. PICK U \in Bad : \A V \in Bad : <<V, U>> \notin StrictSubsetOrdering(S)
  <2> HIDE DEF Bad
  <2> QED
    BY <1>1, <1>2, FS_StrictSubsetOrderingWellFounded, WFMin
<1>4. U \in SUBSET S /\ IsFiniteSet(U)
  BY FS_Subset
<1>5. PICK y \in U : SumFunctionOnSet(f, U) # f[y] + SumFunctionOnSet(f, U \ {y})
  OBVIOUS
<1> DEFINE z == Some(U)
           V == U \ {z}
           W == U \ {y}
           B == U \ {y, z}
<1>6. z \in U /\ SumFunctionOnSet(f, U) = f[z] + SumFunctionOnSet(f, V)
  <2>1. U # {}
    BY <1>5
  <2> QED
    BY <1>4, <2>1, SumClauses, SomeFacts
<1>7. y # z
  BY <1>5, <1>6
<1>8. Good(V) /\ Good(W)
  <2>1. /\ <<V, U>> \in StrictSubsetOrdering(S) /\ V \in SUBSET S
        /\ <<W, U>> \in StrictSubsetOrdering(S) /\ W \in SUBSET S
    BY <1>4, <1>5, <1>6 DEF StrictSubsetOrdering
  <2> HIDE DEF Good
  <2> QED
    BY <1>3, <2>1
<1>9. /\ SumFunctionOnSet(f, V) = f[y] + SumFunctionOnSet(f, B)
      /\ SumFunctionOnSet(f, W) = f[z] + SumFunctionOnSet(f, B)
  <2>1. y \in V /\ z \in W /\ V \ {y} = B /\ W \ {z} = B
    BY <1>5, <1>6, <1>7
  <2> HIDE DEF V, W, B, z
  <2> QED
    BY <1>8, <2>1
<1>10. f[y] \in Int /\ f[z] \in Int /\ SumFunctionOnSet(f, B) \in Int
  <2>1. IsFiniteSet(B) /\ B \subseteq S
    BY <1>4, FS_Subset
  <2> HIDE DEF B
  <2> QED
    BY <1>4, <1>5, <1>6, <2>1, SumInt
<1> HIDE DEF V, W, B, z
<1> QED
  BY <1>5, <1>6, <1>9, <1>10 DEF W

\* And any other added.
LEMMA SumAdd ==
    ASSUME NEW S, IsFiniteSet(S), NEW f, \A x \in S : f[x] \in Int,
           NEW x, x \notin S, f[x] \in Int
    PROVE  SumFunctionOnSet(f, S \union {x}) = SumFunctionOnSet(f, S) + f[x]
<1> DEFINE T == S \union {x}
<1>1. IsFiniteSet(T) /\ x \in T /\ T \ {x} = S /\ \A y \in T : f[y] \in Int
  BY FS_AddElement
<1>2. SumFunctionOnSet(f, T) = f[x] + SumFunctionOnSet(f, S)
  <2> HIDE DEF T
  <2> QED
    BY <1>1, SumSplit
<1>3. SumFunctionOnSet(f, S) \in Int
  BY SumInt
<1> QED
  BY <1>2, <1>3

\* The sum of two functions that agree on the set.
LEMMA SumSame ==
    ASSUME NEW S, IsFiniteSet(S), NEW f, NEW g,
           \A x \in S : f[x] \in Int /\ f[x] = g[x]
    PROVE  SumFunctionOnSet(f, S) = SumFunctionOnSet(g, S)
<1> DEFINE P == {T \in SUBSET S : SumFunctionOnSet(f, T) = SumFunctionOnSet(g, T)}
<1>1. {} \in P
  BY SumClauses
<1>2. ASSUME NEW T \in SUBSET S, NEW x \in S, T \in P, x \notin T
      PROVE  T \union {x} \in P
  <2>1. IsFiniteSet(T)
    BY FS_Subset
  <2>2. SumFunctionOnSet(f, T \union {x}) = SumFunctionOnSet(f, T) + f[x]
    BY <1>2, <2>1, SumAdd
  <2>3. SumFunctionOnSet(g, T \union {x}) = SumFunctionOnSet(g, T) + g[x]
    BY <1>2, <2>1, SumAdd
  <2> QED
    BY <1>2, <2>2, <2>3
<1>3. S \in P
  <2> HIDE DEF P
  <2> QED
    BY <1>1, <1>2, SetInduction
<1> QED
  BY <1>3

\* The sum of the sums of two functions.
LEMMA SumPlus ==
    ASSUME NEW S, IsFiniteSet(S), NEW f, NEW g, NEW h,
           \A x \in S : f[x] \in Int /\ g[x] \in Int /\ h[x] = f[x] + g[x]
    PROVE  SumFunctionOnSet(h, S) = SumFunctionOnSet(f, S) + SumFunctionOnSet(g, S)
<1> DEFINE P == {T \in SUBSET S :
                    SumFunctionOnSet(h, T) = SumFunctionOnSet(f, T) + SumFunctionOnSet(g, T)}
<1>1. {} \in P
  BY SumClauses
<1>2. ASSUME NEW T \in SUBSET S, NEW x \in S, T \in P, x \notin T
      PROVE  T \union {x} \in P
  <2>1. IsFiniteSet(T)
    BY FS_Subset
  <2>2. SumFunctionOnSet(f, T \union {x}) = SumFunctionOnSet(f, T) + f[x]
    BY <1>2, <2>1, SumAdd
  <2>3. SumFunctionOnSet(g, T \union {x}) = SumFunctionOnSet(g, T) + g[x]
    BY <1>2, <2>1, SumAdd
  <2>4. SumFunctionOnSet(h, T \union {x}) = SumFunctionOnSet(h, T) + h[x]
    BY <1>2, <2>1, SumAdd
  <2>5. SumFunctionOnSet(f, T) \in Int /\ SumFunctionOnSet(g, T) \in Int
    BY <2>1, SumInt
  <2>6. /\ f[x] \in Int /\ g[x] \in Int /\ h[x] = f[x] + g[x]
        /\ SumFunctionOnSet(h, T) = SumFunctionOnSet(f, T) + SumFunctionOnSet(g, T)
    BY <1>2
  <2> HIDE DEF P
  <2>7. SumFunctionOnSet(h, T \union {x})
          = SumFunctionOnSet(f, T \union {x}) + SumFunctionOnSet(g, T \union {x})
    BY <2>2, <2>3, <2>4, <2>5, <2>6
  <2> QED
    BY <2>7 DEF P
<1>3. S \in P
  <2> HIDE DEF P
  <2> QED
    BY <1>1, <1>2, SetInduction
<1> QED
  BY <1>3

\* A sum of zeros.
LEMMA SumZero ==
    ASSUME NEW S, IsFiniteSet(S), NEW f, \A x \in S : f[x] = 0
    PROVE  SumFunctionOnSet(f, S) = 0
<1>1. SumFunctionOnSet(f, S) \in Int
  BY SumInt
<1>2. SumFunctionOnSet(f, S) = SumFunctionOnSet(f, S) + SumFunctionOnSet(f, S)
  BY SumPlus
<1>3. \A n \in Int : n = n + n => n = 0
  OBVIOUS
<1> QED
  BY <1>1, <1>2, <1>3

\* A function that is zero but at x.
LEMMA SumOne ==
    ASSUME NEW S, IsFiniteSet(S), NEW x \in S, NEW f,
           f[x] \in Int, \A y \in S \ {x} : f[y] = 0
    PROVE  SumFunctionOnSet(f, S) = f[x]
<1> DEFINE T == S \ {x}
<1>1. IsFiniteSet(T)
  BY FS_Subset
<1>2. SumFunctionOnSet(f, T) = 0
  BY <1>1, SumZero
<1>3. \A y \in S : f[y] \in Int
  OBVIOUS
<1>4. SumFunctionOnSet(f, S) = f[x] + SumFunctionOnSet(f, T)
  BY <1>3, SumSplit
<1> QED
  BY <1>2, <1>4

\* A sum of naturals is one, and no part of it is greater.
LEMMA SumNat ==
    ASSUME NEW S, IsFiniteSet(S), NEW f, \A x \in S : f[x] \in Nat
    PROVE  SumFunctionOnSet(f, S) \in Nat
<1> DEFINE P == {T \in SUBSET S : SumFunctionOnSet(f, T) \in Nat}
<1>1. {} \in P
  BY SumClauses
<1>2. ASSUME NEW T \in SUBSET S, NEW x \in S, T \in P, x \notin T
      PROVE  T \union {x} \in P
  <2>1. IsFiniteSet(T)
    BY FS_Subset
  <2>2. SumFunctionOnSet(f, T \union {x}) = SumFunctionOnSet(f, T) + f[x]
    BY <1>2, <2>1, SumAdd
  <2>3. f[x] \in Nat /\ SumFunctionOnSet(f, T) \in Nat
    BY <1>2
  <2>4. SumFunctionOnSet(f, T \union {x}) \in Nat
    BY <2>2, <2>3
  <2> QED
    BY <2>4
<1>3. S \in P
  <2> HIDE DEF P
  <2> QED
    BY <1>1, <1>2, SetInduction
<1> QED
  BY <1>3

\* Two disjoint sets.
LEMMA SumUnion ==
    ASSUME NEW S, IsFiniteSet(S), NEW T, IsFiniteSet(T), S \cap T = {},
           NEW f, \A x \in S \union T : f[x] \in Int
    PROVE  SumFunctionOnSet(f, S \union T) = SumFunctionOnSet(f, S) + SumFunctionOnSet(f, T)
<1> DEFINE P == {U \in SUBSET T : SumFunctionOnSet(f, S \union U)
                                    = SumFunctionOnSet(f, S) + SumFunctionOnSet(f, U)}
<1>0. SumFunctionOnSet(f, S) \in Int
  BY SumInt
<1>1. {} \in P
  <2>1. S \union {} = S
    OBVIOUS
  <2> QED
    BY <1>0, <2>1, SumClauses
<1>2. ASSUME NEW U \in SUBSET T, NEW x \in T, U \in P, x \notin U
      PROVE  U \union {x} \in P
  <2> DEFINE V == S \union U
  <2>1. IsFiniteSet(U) /\ IsFiniteSet(V)
    BY FS_Subset, FS_Union
  <2>2. SumFunctionOnSet(f, U \union {x}) = SumFunctionOnSet(f, U) + f[x]
    BY <1>2, <2>1, SumAdd
  <2>3. SumFunctionOnSet(f, V \union {x}) = SumFunctionOnSet(f, V) + f[x]
    <3>1. x \notin V /\ \A y \in V : f[y] \in Int
      BY <1>2
    <3> HIDE DEF V
    <3> QED
      BY <2>1, <3>1, SumAdd
  <2>4. f[x] \in Int /\ SumFunctionOnSet(f, U) \in Int
    BY <2>1, SumInt
  <2>5. V \union {x} = S \union (U \union {x})
    OBVIOUS
  <2>6. SumFunctionOnSet(f, V) = SumFunctionOnSet(f, S) + SumFunctionOnSet(f, U)
    BY <1>2
  <2>7. SumFunctionOnSet(f, V \union {x}) = SumFunctionOnSet(f, S) + SumFunctionOnSet(f, U \union {x})
    <3> HIDE DEF V, P
    <3> QED
      BY <1>0, <2>2, <2>3, <2>4, <2>6
  <2> QED
    BY <2>5, <2>7
<1>3. T \in P
  <2> HIDE DEF P
  <2> QED
    BY <1>1, <1>2, SetInduction
<1> QED
  BY <1>3

\* No part of a sum of naturals is greater than the whole.
LEMMA SumPart ==
    ASSUME NEW S, IsFiniteSet(S), NEW f, \A x \in S : f[x] \in Nat, NEW T \in SUBSET S
    PROVE  SumFunctionOnSet(f, T) <= SumFunctionOnSet(f, S)
<1> DEFINE U == S \ T
<1>1. IsFiniteSet(T) /\ IsFiniteSet(U) /\ T \cap U = {} /\ T \union U = S
  BY FS_Subset
<1>2. SumFunctionOnSet(f, T) \in Nat /\ SumFunctionOnSet(f, U) \in Nat
  BY <1>1, SumNat
<1>3. SumFunctionOnSet(f, T \union U) = SumFunctionOnSet(f, T) + SumFunctionOnSet(f, U)
  <2> HIDE DEF U
  <2>1. \A x \in T \union U : f[x] \in Int
    BY <1>1
  <2> QED
    BY <1>1, <2>1, SumUnion
<1>4. \A m, n \in Nat : m <= m + n
  OBVIOUS
<1> HIDE DEF U
<1> QED
  BY <1>1, <1>2, <1>3, <1>4

\* A set of naturals has a least element.
LEMMA Least ==
    ASSUME NEW T \in SUBSET Nat, T # {}
    PROVE  \E n \in T : \A m \in T : n <= m
<1>1. IsWellFoundedOn(OpToRel(<, Nat), Nat)
  BY NatLessThanWellFounded
<1>2. PICK n \in T : \A m \in T : <<m, n>> \notin OpToRel(<, Nat)
  BY <1>1, WFMin
<1>3. ASSUME NEW m \in T PROVE n <= m
  <2>1. ~(m < n)
    BY <1>2 DEF OpToRel
  <2>2. m \in Nat /\ n \in Nat
    OBVIOUS
  <2> QED
    BY <2>1, <2>2
<1> QED
  BY <1>3

-----------------------------------------------------------------------------
(* The inductive invariant.                                                *)

\* What an absent part counts.
Value(v) == IF v = Absent THEN 0 ELSE v

\* The balance of c in a world state w.
PartsIn(w, c, t) == [i \in DOMAIN KeyOrder |-> Value(w[BalanceKey(c, t, KeyOrder[i])])]
BalanceIn(w, c, t) == SumFunction(PartsIn(w, c, t))

\* What a transaction found, and what it makes of that.
FoundBy(tx) == [k \in Key |-> tx.reads[k].value]
MadeBy(tx) == [k \in Key |-> IF k \in DOMAIN tx.writes THEN tx.writes[k]
                             ELSE tx.reads[k].value]

\* What its event says that c received and paid.
Received(tx, c, t) ==
    IF tx.event.name = "Transfer" THEN Share(tx.event.payments, c, t) ELSE 0
Paid(tx, c, t) ==
    IF tx.event.name = "Transfer" /\ c = tx.event.from THEN Need(tx.event.payments, t) ELSE 0

\* The three things a transaction does to a balance.
Untouched(tx, c, t) ==
    /\ RangeKeys(c, t) \cap DOMAIN tx.writes = {}
    /\ Received(tx, c, t) = 0 /\ Paid(tx, c, t) = 0

Deposited(tx, c, t) ==
    \E s \in Client :
        LET k == BalanceKey(c, t, s) IN
        /\ RangeKeys(c, t) \cap DOMAIN tx.writes = {k}
        /\ k \in DOMAIN tx.reads
        /\ tx.writes[k] = Value(tx.reads[k].value) + Received(tx, c, t)
        /\ Paid(tx, c, t) = 0

Withdrawn(tx, c, t) ==
    /\ RangeKeys(c, t) \subseteq DOMAIN tx.reads
    /\ Received(tx, c, t) = 0
    /\ BalanceIn(MadeBy(tx), c, t) + Paid(tx, c, t) = BalanceIn(FoundBy(tx), c, t)

BalanceWrites(tx) ==
    /\ \A k \in BalanceKeys : k \in DOMAIN tx.writes /\ tx.writes[k] # Absent =>
          tx.writes[k] \in 0..MaxInt /\ k[2][1] # Zero
    /\ \A c \in Client, t \in Token :
          Untouched(tx, c, t) \/ Deposited(tx, c, t) \/ Withdrawn(tx, c, t)

\* Payments as the contract functions and BroadcastTokenExistance name them.
IsPayments(p) ==
    \E m \in Nat : p \in [1..m -> [to : Account, token : Token, amount : Nat]]

\* Who may be behind a transfer event.
Minting(tx) == tx.event.from = Zero /\ tx.creator \in Minter
Burning(tx) ==
    /\ tx.event.from \in Client /\ tx.creator \in Minter
    /\ \A i \in DOMAIN tx.event.payments : tx.event.payments[i].to = Zero
Transferring(tx) ==
    /\ tx.event.from \in Client
    /\ \A i \in DOMAIN tx.event.payments :
          tx.event.payments[i].to \in Client \ {tx.event.from}
    /\ \/ tx.creator = tx.event.from
       \/ LET k == ApprovalKey(tx.event.from, tx.creator) IN
          k \in DOMAIN tx.reads /\ tx.reads[k].value = TRUE

Authorised(tx) ==
    tx.event.name = "Transfer" =>
        /\ IsPayments(tx.event.payments)
        /\ Minting(tx) \/ Burning(tx) \/ Transferring(tx)

\* The only transaction that writes an approval, and all it writes.
ApprovalWrites(tx) ==
    IF tx.event.name = "ApprovalForAll"
    THEN /\ tx.event.owner = tx.creator /\ tx.event.owner \in Client
         /\ tx.event.operator \in Client /\ tx.event.approved \in BOOLEAN
         /\ tx.writes = Put(ApprovalKey(tx.event.owner, tx.event.operator), tx.event.approved)
    ELSE ApprovalKeys \cap DOMAIN tx.writes = {}

\* A transaction that found no name writes name and symbol, any other neither.
OptionsWritten(tx) ==
    /\ NameKey \in DOMAIN tx.reads
    /\ \A k \in OptionKeys : k \in DOMAIN tx.writes => tx.writes[k] \in Option \union {Absent}
    /\ IF tx.reads[NameKey].value = Absent
       THEN DOMAIN tx.writes = {NameKey, OptionKey("symbol")}
       ELSE NameKey \notin DOMAIN tx.writes /\ OptionKey("symbol") \notin DOMAIN tx.writes

\* What each contract function leaves in the pool.
Simulated(tx) ==
    /\ tx.creator \in Client
    /\ DOMAIN tx.reads \subseteq Key /\ DOMAIN tx.writes \subseteq Key
    /\ BalanceWrites(tx)
    /\ Authorised(tx)
    /\ ApprovalWrites(tx)
    /\ OptionsWritten(tx)

\* What a transaction read is of the past, and still there if its version is.
ReadsOK(tx) ==
    \A k \in DOMAIN tx.reads :
        /\ tx.reads[k].version \in 0..height
        /\ tx.reads[k].version = 0 <=> tx.reads[k].value = Absent
        /\ tx.reads[k].version = version[k] => tx.reads[k].value = world[k]

LedgerOK ==
    /\ DOMAIN world = Key /\ DOMAIN pool = TxId
    /\ version \in [Key -> 0..height]
    /\ \A k \in Key : version[k] = 0 <=> world[k] = Absent

\* Without a name nothing is stored but what Initialize with an empty name left.
EmptyBefore == ~Initialized => \A k \in Key : world[k] # Absent => k = OptionKey("symbol")

IInv ==
    /\ TypeOK
    /\ LedgerOK
    /\ \A id \in InFlight : ReadsOK(pool[id]) /\ Simulated(pool[id])
    /\ EmptyBefore
    /\ ObserverAgrees

-----------------------------------------------------------------------------
(* Keys and accounts.                                                      *)

\* A key tells its kind and its parts.
LEMMA KeyFacts ==
    /\ \A c, d, t, u, s, r : BalanceKey(c, t, s) = BalanceKey(d, u, r) => c = d /\ t = u /\ s = r
    /\ \A c, t, s : BalanceKey(c, t, s)[2][1] = c /\ BalanceKey(c, t, s)[2][2] = t
    /\ \A c, d, o, q : ApprovalKey(c, o) = ApprovalKey(d, q) => c = d /\ o = q
    /\ \A k, n : OptionKey(k) = OptionKey(n) => k = n
    /\ \A c, t, s, d, o : BalanceKey(c, t, s) # ApprovalKey(d, o)
    /\ \A c, t, s, n : BalanceKey(c, t, s) # OptionKey(n)
    /\ \A d, o, n : ApprovalKey(d, o) # OptionKey(n)
<1>1. \A c, d, t, u, s, r : BalanceKey(c, t, s) = BalanceKey(d, u, r) => c = d /\ t = u /\ s = r
  BY DEF BalanceKey
<1>2. \A c, t, s : BalanceKey(c, t, s)[2][1] = c /\ BalanceKey(c, t, s)[2][2] = t
  BY DEF BalanceKey
<1>3. \A c, d, o, q : ApprovalKey(c, o) = ApprovalKey(d, q) => c = d /\ o = q
  BY DEF ApprovalKey
<1>4. \A k, n : OptionKey(k) = OptionKey(n) => k = n
  BY DEF OptionKey
<1>5. \A c, t, s, d, o : BalanceKey(c, t, s) # ApprovalKey(d, o)
  BY DEF BalanceKey, ApprovalKey
<1>6. \A c, t, s, n : BalanceKey(c, t, s) # OptionKey(n)
  BY DEF BalanceKey, OptionKey
<1>7. \A d, o, n : ApprovalKey(d, o) # OptionKey(n)
  BY DEF ApprovalKey, OptionKey
<1> QED
  BY <1>1, <1>2, <1>3, <1>4, <1>5, <1>6, <1>7

\* The keys of each kind.
LEMMA KindFacts ==
    /\ \A c \in Account, t \in Token, s \in Client : BalanceKey(c, t, s) \in BalanceKeys
    /\ \A c \in Client, o \in Client : ApprovalKey(c, o) \in ApprovalKeys
    /\ NameKey \in OptionKeys /\ OptionKey("symbol") \in OptionKeys
    /\ OptionKey("uri") \in OptionKeys
    /\ NameKey # OptionKey("symbol") /\ NameKey # OptionKey("uri")
    /\ OptionKey("symbol") # OptionKey("uri")
    /\ BalanceKeys \subseteq Key /\ ApprovalKeys \subseteq Key /\ OptionKeys \subseteq Key
    /\ Key = BalanceKeys \union ApprovalKeys \union OptionKeys
    /\ BalanceKeys \cap ApprovalKeys = {} /\ BalanceKeys \cap OptionKeys = {}
    /\ ApprovalKeys \cap OptionKeys = {}
<1>1. /\ \A c \in Account, t \in Token, s \in Client : BalanceKey(c, t, s) \in BalanceKeys
      /\ \A c \in Client, o \in Client : ApprovalKey(c, o) \in ApprovalKeys
  BY DEF BalanceKeys, ApprovalKeys
<1>2. /\ NameKey \in OptionKeys /\ OptionKey("symbol") \in OptionKeys
      /\ OptionKey("uri") \in OptionKeys
  BY DEF NameKey, OptionKeys
<1>3. /\ NameKey # OptionKey("symbol") /\ NameKey # OptionKey("uri")
      /\ OptionKey("symbol") # OptionKey("uri")
  BY DEF NameKey, OptionKey
<1>4. /\ BalanceKeys \cap ApprovalKeys = {} /\ BalanceKeys \cap OptionKeys = {}
      /\ ApprovalKeys \cap OptionKeys = {}
  BY KeyFacts DEF BalanceKeys, ApprovalKeys, OptionKeys
<1> QED
  BY <1>1, <1>2, <1>3, <1>4, KeyAssumption

\* The keys of one balance.
LEMMA RangeFacts ==
    /\ \A c \in Client, t \in Token : RangeKeys(c, t) \subseteq BalanceKeys
    /\ \A c, t, s : BalanceKey(c, t, s) \in RangeKeys(c, t) <=> s \in Client
    /\ \A c, d, t, u, s : BalanceKey(c, t, s) \in RangeKeys(d, u) => c = d /\ t = u
    /\ \A c, t : \A k \in RangeKeys(c, t) : k[2][1] = c /\ k[2][2] = t
    /\ \A c, d, t, u : c # d \/ t # u => RangeKeys(c, t) \cap RangeKeys(d, u) = {}
<1>1. \A c \in Client, t \in Token : RangeKeys(c, t) \subseteq BalanceKeys
  BY KindFacts DEF RangeKeys, Account
<1>2. /\ \A c, t, s : BalanceKey(c, t, s) \in RangeKeys(c, t) <=> s \in Client
      /\ \A c, d, t, u, s : BalanceKey(c, t, s) \in RangeKeys(d, u) => c = d /\ t = u
  BY KeyFacts DEF RangeKeys
<1>3. \A c, t : \A k \in RangeKeys(c, t) : k[2][1] = c /\ k[2][2] = t
  BY KeyFacts DEF RangeKeys
<1>4. \A c, d, t, u : c # d \/ t # u => RangeKeys(c, t) \cap RangeKeys(d, u) = {}
  BY <1>3
<1> QED
  BY <1>1, <1>2, <1>3, <1>4

\* The positions of the clients in the key order.
LEMMA OrderFacts ==
    /\ Len(KeyOrder) \in Nat /\ DOMAIN KeyOrder = 1..Len(KeyOrder)
    /\ IsFiniteSet(1..Len(KeyOrder))
    /\ \A i \in 1..Len(KeyOrder) : KeyOrder[i] \in Client
    /\ \A c \in Client : \E i \in 1..Len(KeyOrder) : KeyOrder[i] = c
    /\ \A i, j \in 1..Len(KeyOrder) : KeyOrder[i] = KeyOrder[j] => i = j
<1>1. KeyOrder \in Seq(Client) /\ IsInjective(KeyOrder) /\ ToSet(KeyOrder) = Client
  BY ConstantAssumption
<1>2. /\ Len(KeyOrder) \in Nat /\ DOMAIN KeyOrder = 1..Len(KeyOrder)
      /\ \A i \in 1..Len(KeyOrder) : KeyOrder[i] \in Client
  BY <1>1
<1>3. IsFiniteSet(1..Len(KeyOrder))
  BY <1>2, FS_Interval
<1>4. \A c \in Client : \E i \in 1..Len(KeyOrder) : KeyOrder[i] = c
  BY <1>1, <1>2 DEF ToSet
<1>5. \A i, j \in 1..Len(KeyOrder) : KeyOrder[i] = KeyOrder[j] => i = j
  BY <1>1, <1>2 DEF IsInjective
<1> QED
  BY <1>2, <1>3, <1>4, <1>5

\* What is no value, and what is a number.
LEMMA ValueFacts ==
    /\ MaxInt \in Nat /\ Absent \notin Nat /\ Absent \notin Option /\ Absent \notin BOOLEAN
    /\ Zero \notin Client /\ Minter \subseteq Client
    /\ \A v \in 0..MaxInt : v \in Nat /\ v # Absent /\ Value(v) = v
    /\ \A v \in 0..MaxInt \union {Absent} : Value(v) \in Nat /\ Value(v) \in Int
                                             /\ Value(v) <= MaxInt
    /\ Value(Absent) = 0
    /\ \A n \in Nat : n <= MaxInt => n \in 0..MaxInt
    /\ \A n \in Amount : n \in Nat
<1>1. /\ MaxInt \in Nat /\ Absent \notin Nat /\ Absent \notin Option /\ Absent \notin BOOLEAN
      /\ Zero \notin Client /\ Minter \subseteq Client /\ Amount \subseteq 0..MaxInt
  BY ConstantAssumption
<1>2. \A v \in 0..MaxInt : v \in Nat /\ v \in Int /\ v <= MaxInt
  BY <1>1
<1>3. \A v \in 0..MaxInt : v # Absent /\ Value(v) = v
  BY <1>1, <1>2 DEF Value
<1>4. Value(Absent) = 0
  BY DEF Value
<1>5. 0 \in Nat /\ 0 \in Int /\ 0 <= MaxInt
  BY <1>1
<1>6. \A v \in 0..MaxInt \union {Absent} : Value(v) \in Nat /\ Value(v) \in Int
                                            /\ Value(v) <= MaxInt
  BY <1>2, <1>3, <1>4, <1>5
<1>7. \A n \in Nat : n <= MaxInt => n \in 0..MaxInt
  BY <1>1
<1> QED
  BY <1>1, <1>2, <1>3, <1>4, <1>6, <1>7

\* A balance is the sum of its parts, over the positions of the key order.
LEMMA BalanceFacts ==
    /\ \A c, t : Balance(c, t) = BalanceIn(world, c, t) /\ Parts(c, t) = PartsIn(world, c, t)
    /\ \A w, c, t : /\ BalanceIn(w, c, t)
                         = SumFunctionOnSet(PartsIn(w, c, t), 1..Len(KeyOrder))
                    /\ \A i \in 1..Len(KeyOrder) :
                          PartsIn(w, c, t)[i] = Value(w[BalanceKey(c, t, KeyOrder[i])])
<1>1. \A c, t : Parts(c, t) = PartsIn(world, c, t)
  BY DEF Parts, Part, PartsIn, Value
<1>2. \A c, t : Balance(c, t) = BalanceIn(world, c, t)
  BY <1>1 DEF Balance, BalanceIn
<1>3. \A w, c, t : /\ DOMAIN PartsIn(w, c, t) = 1..Len(KeyOrder)
                   /\ \A i \in 1..Len(KeyOrder) :
                          PartsIn(w, c, t)[i] = Value(w[BalanceKey(c, t, KeyOrder[i])])
  BY OrderFacts DEF PartsIn
<1>4. \A w, c, t : BalanceIn(w, c, t) = SumFunctionOnSet(PartsIn(w, c, t), 1..Len(KeyOrder))
  BY <1>3 DEF BalanceIn, SumFunction
<1> QED
  BY <1>1, <1>2, <1>3, <1>4

\* A world state whose parts of balances are uint64, as TypeOK has them.
Typed(w, c, t) == \A s \in Client : w[BalanceKey(c, t, s)] \in 0..MaxInt \union {Absent}

\* Its balances are naturals.
LEMMA BalanceNat ==
    ASSUME NEW w, NEW c, NEW t, Typed(w, c, t)
    PROVE  /\ \A i \in 1..Len(KeyOrder) : /\ PartsIn(w, c, t)[i] \in Nat
                                          /\ PartsIn(w, c, t)[i] \in Int
                                          /\ PartsIn(w, c, t)[i] <= MaxInt
           /\ BalanceIn(w, c, t) \in Nat
<1> DEFINE f == PartsIn(w, c, t)
<1>1. \A i \in 1..Len(KeyOrder) : f[i] \in Nat /\ f[i] \in Int /\ f[i] <= MaxInt
  BY BalanceFacts, OrderFacts, ValueFacts DEF Typed
<1>2. SumFunctionOnSet(f, 1..Len(KeyOrder)) \in Nat
  <2> HIDE DEF f
  <2> QED
    BY <1>1, OrderFacts, SumNat
<1> QED
  BY <1>1, <1>2, BalanceFacts

\* World states that agree on the keys of a balance agree on the balance.
LEMMA BalanceSame ==
    ASSUME NEW w, NEW v, NEW c, NEW t, Typed(w, c, t),
           \A k \in RangeKeys(c, t) : v[k] = w[k]
    PROVE  BalanceIn(v, c, t) = BalanceIn(w, c, t)
<1>1. \A i \in 1..Len(KeyOrder) : PartsIn(v, c, t)[i] = PartsIn(w, c, t)[i]
  BY BalanceFacts, OrderFacts, RangeFacts
<1>2. \A i \in 1..Len(KeyOrder) : PartsIn(w, c, t)[i] \in Int
  BY BalanceNat
<1> QED
  BY <1>1, <1>2, BalanceFacts, OrderFacts, SumSame

\* A world state that differs in one key.
LEMMA BalanceBut ==
    ASSUME NEW w, NEW v, NEW c, NEW t, NEW s \in Client, Typed(w, c, t), Typed(v, c, t),
           \A k \in RangeKeys(c, t) \ {BalanceKey(c, t, s)} : v[k] = w[k]
    PROVE  LET k == BalanceKey(c, t, s) IN
           BalanceIn(v, c, t) + Value(w[k]) = BalanceIn(w, c, t) + Value(v[k])
<1> DEFINE x == Value(w[BalanceKey(c, t, s)])
           y == Value(v[BalanceKey(c, t, s)])
           n == y - x
<1>a. x \in Nat /\ y \in Nat
  BY ValueFacts DEF Typed
<1>b. n \in Int /\ y = x + n
  <2> HIDE DEF x, y
  <2> QED
    BY <1>a
<1> HIDE DEF n
<1> DEFINE L == 1..Len(KeyOrder)
           f == PartsIn(w, c, t)
           g == PartsIn(v, c, t)
           h == [i \in L |-> IF KeyOrder[i] = s THEN n ELSE 0]
<1>1. \A i \in L : f[i] \in Int /\ h[i] \in Int
  BY <1>b, BalanceNat
<1>2. ASSUME NEW i \in L
      PROVE  g[i] = f[i] + h[i]
  <2>1. /\ f[i] = Value(w[BalanceKey(c, t, KeyOrder[i])])
        /\ g[i] = Value(v[BalanceKey(c, t, KeyOrder[i])])
        /\ KeyOrder[i] \in Client
    BY BalanceFacts, OrderFacts
  <2>2. CASE KeyOrder[i] = s
    BY <1>b, <2>1, <2>2
  <2>3. CASE KeyOrder[i] # s
    <3>1. BalanceKey(c, t, KeyOrder[i]) \in RangeKeys(c, t) \ {BalanceKey(c, t, s)}
      BY <2>1, <2>3, RangeFacts, KeyFacts
    <3>2. g[i] = f[i] /\ h[i] = 0
      BY <2>1, <2>3, <3>1
    <3>3. \A m \in Int : m = m + 0
      OBVIOUS
    <3> QED
      BY <1>1, <3>2, <3>3
  <2> QED
    BY <2>2, <2>3
<1>3. SumFunctionOnSet(h, L) = n
  <2>1. PICK j \in L : KeyOrder[j] = s
    BY OrderFacts
  <2>2. h[j] = n /\ h[j] \in Int /\ \A i \in L \ {j} : h[i] = 0
    BY <1>b, <2>1, OrderFacts
  <2>3. IsFiniteSet(L)
    BY OrderFacts
  <2> HIDE DEF h, L
  <2>4. SumFunctionOnSet(h, L) = h[j]
    BY <2>2, <2>3, SumOne
  <2> QED
    BY <2>2, <2>4
<1>4. SumFunctionOnSet(g, L) = SumFunctionOnSet(f, L) + SumFunctionOnSet(h, L)
  <2> HIDE DEF f, g, h
  <2> QED
    BY <1>1, <1>2, OrderFacts, SumPlus
<1>5. BalanceIn(v, c, t) = BalanceIn(w, c, t) + n
  BY <1>3, <1>4, BalanceFacts
<1>6. BalanceIn(w, c, t) \in Nat
  BY BalanceNat
<1>7. BalanceIn(v, c, t) + x = BalanceIn(w, c, t) + y
  <2>1. \A b, p, q, m \in Int : q = p + m => (b + m) + p = b + q
    OBVIOUS
  <2> HIDE DEF x, y
  <2> QED
    BY <1>a, <1>b, <1>5, <1>6, <2>1
<1> QED
  BY <1>7

-----------------------------------------------------------------------------
(* removeBalance and addBalance on the committed state.                    *)

\* The parts of every balance are uint64.
LEMMA WorldTyped ==
    ASSUME TypeOK
    PROVE  \A c \in Client, t \in Token : Typed(world, c, t)
BY KindFacts DEF Typed, TypeOK, Account

\* What the loop adds up grows, to the balance.
LEMMA CollectedFacts ==
    ASSUME TypeOK, NEW a \in Client, NEW t \in Token
    PROVE  /\ \A n \in 0..Len(KeyOrder) : Collected(a, t, n) \in Nat
           /\ \A m, n \in 0..Len(KeyOrder) : m <= n => Collected(a, t, m) <= Collected(a, t, n)
           /\ Collected(a, t, Len(KeyOrder)) = Balance(a, t)
           /\ \A n \in 0..Len(KeyOrder) :
                 Collected(a, t, n) = SumFunctionOnSet(PartsIn(world, a, t), 1..n)
<1> DEFINE f == PartsIn(world, a, t)
<1>1. \A i \in 1..Len(KeyOrder) : f[i] \in Nat
  BY WorldTyped, BalanceNat
<1>2. \A n : Collected(a, t, n) = SumFunctionOnSet(f, 1..n)
  BY BalanceFacts DEF Collected
<1>3. \A m, n \in 0..Len(KeyOrder) : m <= n => 1..m \subseteq 1..n
  BY OrderFacts
<1>4. \A n \in 0..Len(KeyOrder) : 1..n \subseteq 1..Len(KeyOrder) /\ IsFiniteSet(1..n)
  <2>1. \A n \in 0..Len(KeyOrder) : 1..n \subseteq 1..Len(KeyOrder)
    BY OrderFacts
  <2> QED
    BY <2>1, OrderFacts, FS_Subset
<1> HIDE DEF f
<1>5. ASSUME NEW n \in 0..Len(KeyOrder)
      PROVE  Collected(a, t, n) \in Nat
  <2>1. IsFiniteSet(1..n) /\ \A i \in 1..n : f[i] \in Nat
    BY <1>1, <1>4
  <2> QED
    BY <1>2, <2>1, SumNat
<1>6. ASSUME NEW m \in 0..Len(KeyOrder), NEW n \in 0..Len(KeyOrder), m <= n
      PROVE  Collected(a, t, m) <= Collected(a, t, n)
  <2>1. IsFiniteSet(1..n) /\ \A i \in 1..n : f[i] \in Nat
    BY <1>1, <1>4
  <2>2. 1..m \in SUBSET (1..n)
    BY <1>3, <1>6
  <2> QED
    BY <1>2, <2>1, <2>2, SumPart
<1>7. Collected(a, t, Len(KeyOrder)) = Balance(a, t)
  BY <1>2, BalanceFacts DEF f
<1> QED
  BY <1>2, <1>5, <1>6, <1>7 DEF f

\* The loop sees the first keys whose parts reach the need, or all of them.
LEMMA SeenFacts ==
    ASSUME TypeOK, NEW a \in Client, NEW t \in Token, NEW need \in Nat
    PROVE  /\ Seen(a, t, need) \in 0..Len(KeyOrder)
           /\ Collected(a, t, Seen(a, t, need)) >= need \/ Seen(a, t, need) = Len(KeyOrder)
           /\ \A m \in 0..(Seen(a, t, need) - 1) : Collected(a, t, m) < need
<1> DEFINE Enough(n) == Collected(a, t, n) >= need \/ n = Len(KeyOrder)
           T == {n \in 0..Len(KeyOrder) : Enough(n)}
<1>1. T \in SUBSET Nat /\ T # {}
  <2>1. Len(KeyOrder) \in Nat
    BY OrderFacts
  <2>2. Len(KeyOrder) \in T
    BY <2>1
  <2> QED
    BY <2>1, <2>2
<1>2. PICK n \in T : \A m \in T : n <= m
  <2> HIDE DEF T
  <2> QED
    BY <1>1, Least
<1>3. ASSUME NEW m \in 0..(n - 1) PROVE Collected(a, t, m) < need
  <2>1. m \in 0..Len(KeyOrder) /\ ~(n <= m)
    <3>1. Len(KeyOrder) \in Nat /\ n \in 0..Len(KeyOrder)
      BY OrderFacts
    <3> QED
      BY <3>1
  <2>2. ~Enough(m)
    BY <1>2, <2>1
  <2>3. Collected(a, t, m) \in Nat
    BY <2>1, CollectedFacts
  <2>4. \A i, j \in Nat : ~(i >= j) => i < j
    OBVIOUS
  <2> QED
    BY <2>2, <2>3, <2>4
<1>4. /\ n \in 0..Len(KeyOrder) /\ Enough(n)
      /\ \A m \in 0..(n - 1) : Collected(a, t, m) < need
  BY <1>2, <1>3
<1> QED
  BY <1>4 DEF Seen

\* The ledger after the writes W.
After(W) == [k \in Key |-> IF k \in DOMAIN W THEN W[k] ELSE world[k]]

\* What removeBalance writes for one token takes the need from the balance,
\* wherever the account's own key lies.
LEMMA Removal ==
    ASSUME TypeOK, LedgerOK, NEW a \in Client, NEW t \in Token, NEW need \in Nat,
           CanRemove(a, t, need)
    PROVE  LET W == RemoveWrites(a, t, need) IN
           /\ DOMAIN W \subseteq RangeKeys(a, t)
           /\ \A k \in DOMAIN W : W[k] \in 0..MaxInt \union {Absent}
           /\ BalanceIn(After(W), a, t) + need = BalanceIn(world, a, t)
<1> DEFINE W == RemoveWrites(a, t, need)
           L == 1..Len(KeyOrder)
           n == Seen(a, t, need)
           C == Collected(a, t, n)
           key(i) == BalanceKey(a, t, KeyOrder[i])
           own == BalanceKey(a, t, a)
           f == PartsIn(world, a, t)
           g == PartsIn(After(W), a, t)
           seen == SeenKeys(a, t, need)
           R == Remainder(a, t, need)
<1>1. n \in 0..Len(KeyOrder) /\ n \in Nat /\ n <= Len(KeyOrder)
  BY SeenFacts, OrderFacts
<1>2. C \in Nat /\ C >= need /\ (C > need => Fits(R))
  BY <1>1, CollectedFacts DEF CanRemove
<1>3. PICK j \in L : KeyOrder[j] = a
  BY OrderFacts
<1>4. \A i \in L : /\ key(i) \in RangeKeys(a, t) /\ key(i) \in Key
                   /\ f[i] = Value(world[key(i)]) /\ f[i] \in Nat
                   /\ g[i] = Value(After(W)[key(i)])
                   /\ (key(i) = own <=> i = j)
                   /\ world[key(i)] \in 0..MaxInt \union {Absent}
  <2>1. \A i \in L : key(i) \in RangeKeys(a, t) /\ key(i) \in Key
    BY OrderFacts, RangeFacts, KindFacts
  <2>2. \A i \in L : /\ f[i] = Value(world[key(i)])
                     /\ g[i] = Value(After(W)[key(i)])
    BY BalanceFacts
  <2>3. \A i \in L : f[i] \in Nat
    BY BalanceNat, WorldTyped
  <2>4. \A i \in L : key(i) = own <=> i = j
    BY <1>3, OrderFacts, KeyFacts
  <2>5. \A i \in L : world[key(i)] \in 0..MaxInt \union {Absent}
    BY WorldTyped, OrderFacts DEF Typed
  <2> QED
    BY <2>1, <2>2, <2>3, <2>4, <2>5
<1>5. \A i \in L : key(i) \in seen <=> i <= n /\ world[key(i)] # Absent
  <2>1. \A i \in L : i <= n <=> i \in 1..n
    BY <1>1, OrderFacts
  <2>2. \A i \in L, m \in 1..n : key(i) = key(m) => i = m
    <3>1. \A m \in 1..n : m \in L
      BY <1>1, OrderFacts
    <3> QED
      BY <3>1, OrderFacts, KeyFacts
  <2>3. \A i \in L : key(i) \in seen <=> (\E m \in 1..n : key(i) = key(m)) /\ world[key(i)] # Absent
    BY <1>4 DEF SeenKeys
  <2> HIDE DEF seen, key, n, L
  <2> QED
    BY <2>1, <2>2, <2>3
<1>6. seen \subseteq RangeKeys(a, t) /\ own \in RangeKeys(a, t)
  <2>1. \A m \in 1..n : m \in L
    BY <1>1, OrderFacts
  <2> QED
    BY <1>4, <2>1, RangeFacts DEF SeenKeys
<1>7. /\ C > need => /\ DOMAIN W = seen \union {own}
                     /\ W[own] = R
                     /\ \A k \in seen \ {own} : W[k] = Absent
      /\ ~(C > need) => /\ DOMAIN W = seen
                        /\ \A k \in seen : W[k] = Absent
  BY DEF RemoveWrites
<1>8. R = C - need + IF own \in seen THEN 0 ELSE f[j]
  BY <1>3, <1>4 DEF Remainder, Part, Value
<1>9. /\ R \in Nat /\ (C > need => R \in 0..MaxInt)
      /\ C - need \in Nat
      /\ own \in seen => R = C - need
      /\ own \notin seen => R = (C - need) + f[j]
  <2>1. f[j] \in Nat
    BY <1>4
  <2>2. \A x, y, z \in Nat : x >= y => /\ x - y \in Nat
                                       /\ x - y + z \in Nat
                                       /\ x - y + 0 = x - y
    OBVIOUS
  <2>3. /\ own \in seen => R = C - need + 0
        /\ own \notin seen => R = (C - need) + f[j]
    BY <1>8
  <2> HIDE DEF C, R, f, own, seen
  <2>4. /\ C - need \in Nat /\ C - need + 0 = C - need
        /\ (C - need) + f[j] \in Nat
    BY <1>2, <2>1, <2>2
  <2>5. R \in Nat
    BY <2>3, <2>4
  <2> QED
    BY <1>2, <2>3, <2>4, <2>5, ValueFacts DEF Fits
<1> DEFINE h == [i \in L |-> IF i = j THEN C - need ELSE 0]
           f1 == [i \in L |-> IF i <= n THEN f[i] ELSE 0]
           f2 == [i \in L |-> IF i <= n THEN 0 ELSE f[i]]
\* At each position, what is left is what was not collected, and the remainder.
<1>10. ASSUME NEW i \in L
       PROVE  g[i] = h[i] + f2[i] /\ f[i] = f1[i] + f2[i]
  <2>1. After(W)[key(i)] = IF key(i) \in DOMAIN W THEN W[key(i)] ELSE world[key(i)]
    BY <1>4 DEF After
  <2>2. key(i) \notin seen /\ i <= n => f[i] = 0
    BY <1>4, <1>5, ValueFacts
  <2>3. (i # j \/ ~(C > need)) /\ key(i) \in seen => g[i] = 0
    <3> HIDE DEF W, C, key, own, f, g, seen, R
    <3> QED
      BY <1>4, <1>7, <2>1, ValueFacts
  <2>4. (i # j \/ ~(C > need)) /\ key(i) \notin seen => g[i] = f[i]
    <3> HIDE DEF W, C, key, own, f, g, seen, R
    <3> QED
      BY <1>4, <1>7, <2>1
  <2>5. i = j /\ C > need => g[i] = R
    <3> HIDE DEF W, C, key, own, f, g, seen, R
    <3>1. i = j /\ C > need => g[i] = Value(R) /\ R \in 0..MaxInt
      BY <1>4, <1>7, <1>9, <2>1
    <3> QED
      BY <3>1, ValueFacts
  <2>6. /\ f[i] \in Nat /\ n \in Nat /\ i \in Nat
        /\ key(i) \in seen => i <= n
        /\ i = j => (key(i) \in seen <=> own \in seen)
    <3>1. i \in Nat
      BY OrderFacts
    <3> QED
      BY <1>1, <1>3, <1>4, <1>5, <3>1
  <2>7. /\ h[i] = IF i = j THEN C - need ELSE 0
        /\ f1[i] = IF i <= n THEN f[i] ELSE 0
        /\ f2[i] = IF i <= n THEN 0 ELSE f[i]
    OBVIOUS
  <2>8. ~(C > need) => C - need = 0
    <3> HIDE DEF C
    <3> QED
      BY <1>2
  <2>9. \A x \in Nat : x = x + 0 /\ x = 0 + x
    OBVIOUS
  <2> HIDE DEF W, L, n, C, key, own, f, g, seen, R, h, f1, f2
  <2>10. f[i] = f1[i] + f2[i]
    BY <2>6, <2>7, <2>9
  <2>11. CASE i = j /\ C > need
    <3>1. h[i] = C - need /\ g[i] = R
      BY <2>5, <2>7, <2>11
    <3>2. CASE key(i) \in seen
      BY <1>9, <2>6, <2>7, <2>9, <2>10, <2>11, <3>1, <3>2
    <3>3. CASE key(i) \notin seen
      <4>1. R = (C - need) + f[i]
        BY <1>9, <2>6, <2>11, <3>3
      <4>2. f2[i] = f[i]
        BY <2>2, <2>7, <3>3
      <4> QED
        BY <2>10, <3>1, <4>1, <4>2
    <3> QED
      BY <3>2, <3>3
  <2>12. CASE ~(i = j /\ C > need)
    <3>1. h[i] = 0
      BY <2>7, <2>8, <2>12
    <3>2. g[i] = f2[i]
      BY <2>2, <2>3, <2>4, <2>6, <2>7, <2>12
    <3>3. f2[i] \in Nat
      BY <2>6, <2>7
    <3> QED
      BY <2>9, <2>10, <3>1, <3>2, <3>3
  <2> QED
    BY <2>11, <2>12
<1>11. \A i \in L : h[i] \in Int /\ f1[i] \in Int /\ f2[i] \in Int
  <2>1. C - need \in Int /\ \A i \in L : f[i] \in Int
    BY <1>4, <1>9
  <2> HIDE DEF C, f
  <2> QED
    BY <2>1
<1>12. IsFiniteSet(L)
  BY OrderFacts
<1>13. SumFunctionOnSet(h, L) = C - need
  <2>1. h[j] = C - need /\ h[j] \in Int /\ \A i \in L \ {j} : h[i] = 0
    BY <1>11
  <2> HIDE DEF h, L, C
  <2> QED
    BY <1>3, <1>12, <2>1, SumOne
<1>14. SumFunctionOnSet(f1, L) = C
  <2> DEFINE A == 1..n
             B == L \ A
  <2>1. A \subseteq L /\ IsFiniteSet(A) /\ IsFiniteSet(B) /\ A \union B = L /\ A \cap B = {}
    <3>1. A \subseteq L
      BY <1>1, OrderFacts
    <3> QED
      BY <1>12, <3>1, FS_Subset
  <2>2. \A i \in L : i \in A <=> i <= n
    BY <1>1, OrderFacts
  <2>3. (\A i \in A : f1[i] \in Int /\ f1[i] = f[i]) /\ (\A i \in B : f1[i] = 0)
    BY <1>11, <2>1, <2>2
  <2>4. C = SumFunctionOnSet(f, A)
    BY <1>1, CollectedFacts
  <2> HIDE DEF f1, f, A, B, L, C
  <2>5. SumFunctionOnSet(f1, A) = C
    BY <2>1, <2>3, <2>4, SumSame
  <2>6. SumFunctionOnSet(f1, B) = 0
    BY <2>1, <2>3, SumZero
  <2>7. SumFunctionOnSet(f1, A \union B) = SumFunctionOnSet(f1, A) + SumFunctionOnSet(f1, B)
    BY <1>11, <2>1, SumUnion
  <2>8. \A x \in Nat : x + 0 = x
    OBVIOUS
  <2> QED
    BY <1>2, <2>1, <2>5, <2>6, <2>7, <2>8
<1>15. /\ SumFunctionOnSet(g, L) = (C - need) + SumFunctionOnSet(f2, L)
       /\ SumFunctionOnSet(f, L) = C + SumFunctionOnSet(f2, L)
       /\ SumFunctionOnSet(f2, L) \in Int
  <2> HIDE DEF h, f1, f2, f, g, L, C
  <2> QED
    BY <1>10, <1>11, <1>12, <1>13, <1>14, SumPlus, SumInt
<1>16. BalanceIn(After(W), a, t) + need = BalanceIn(world, a, t)
  <2>1. /\ BalanceIn(After(W), a, t) = SumFunctionOnSet(g, L)
        /\ BalanceIn(world, a, t) = SumFunctionOnSet(f, L)
    BY BalanceFacts
  <2>2. \A x, y \in Nat, z \in Int : ((x - y) + z) + y = x + z
    OBVIOUS
  <2> HIDE DEF f2, f, g, L, C
  <2> QED
    BY <1>2, <1>15, <2>1, <2>2
<1>17. /\ DOMAIN W \subseteq RangeKeys(a, t)
       /\ \A k \in DOMAIN W : W[k] \in 0..MaxInt \union {Absent}
  <2> HIDE DEF W, C, own, seen, R
  <2> QED
    BY <1>6, <1>7, <1>9
<1> QED
  BY <1>16, <1>17

-----------------------------------------------------------------------------
(* Payments.                                                               *)

\* What payments ask for is a natural, and nothing where they name nothing.
LEMMA PaymentsFacts ==
    ASSUME NEW p, IsPayments(p)
    PROVE  /\ IsFiniteSet(DOMAIN p)
           /\ \A i \in DOMAIN p : /\ p[i].to \in Account /\ p[i].token \in Token
                                  /\ p[i].amount \in Nat
           /\ Tokens(p) \subseteq Token /\ Shares(p) \subseteq Account \X Token
           /\ \A t : Need(p, t) \in Nat /\ (t \notin Tokens(p) => Need(p, t) = 0)
           /\ \A c, t : /\ Share(p, c, t) \in Nat
                        /\ <<c, t>> \notin Shares(p) => Share(p, c, t) = 0
<1>1. PICK m \in Nat : p \in [1..m -> [to : Account, token : Token, amount : Nat]]
  BY DEF IsPayments
<1>2. IsFiniteSet(DOMAIN p)
  BY <1>1, FS_Interval
<1>3. \A i \in DOMAIN p : /\ p[i].to \in Account /\ p[i].token \in Token
                          /\ p[i].amount \in Nat
  BY <1>1
<1>4. Tokens(p) \subseteq Token /\ Shares(p) \subseteq Account \X Token
  BY <1>3 DEF Tokens, Shares
<1>5. ASSUME NEW t
      PROVE  Need(p, t) \in Nat /\ (t \notin Tokens(p) => Need(p, t) = 0)
  <2> DEFINE f == [i \in DOMAIN p |-> IF p[i].token = t THEN p[i].amount ELSE 0]
  <2>1. Need(p, t) = SumFunctionOnSet(f, DOMAIN p)
    BY DEF Need, SumFunction
  <2>2. \A i \in DOMAIN p : f[i] \in Nat
    BY <1>3
  <2>3. t \notin Tokens(p) => \A i \in DOMAIN p : f[i] = 0
    BY DEF Tokens
  <2> HIDE DEF f
  <2> QED
    BY <1>2, <2>1, <2>2, <2>3, SumNat, SumZero
<1>6. ASSUME NEW c, NEW t
      PROVE  Share(p, c, t) \in Nat /\ (<<c, t>> \notin Shares(p) => Share(p, c, t) = 0)
  <2> DEFINE f == [i \in DOMAIN p |->
                      IF p[i].to = c /\ p[i].token = t THEN p[i].amount ELSE 0]
  <2>1. Share(p, c, t) = SumFunctionOnSet(f, DOMAIN p)
    BY DEF Share, SumFunction
  <2>2. \A i \in DOMAIN p : f[i] \in Nat
    BY <1>3
  <2>3. <<c, t>> \notin Shares(p) => \A i \in DOMAIN p : f[i] = 0
    BY DEF Shares
  <2> HIDE DEF f
  <2> QED
    BY <1>2, <2>1, <2>2, <2>3, SumNat, SumZero
<1> QED
  BY <1>2, <1>3, <1>4, <1>5, <1>6

\* What addBalance writes for all recipients: the parts they have from the sender.
LEMMA AddedFacts ==
    ASSUME TypeOK, NEW p, IsPayments(p), NEW sender \in Client, CanAddAll(sender, p),
           \A i \in DOMAIN p : p[i].to \in Client
    PROVE  LET W == AllAddWrites(sender, p) IN
           /\ DOMAIN W = AddReads(sender, p) /\ AddReads(sender, p) \subseteq BalanceKeys
           /\ \A k \in DOMAIN W : W[k] \in 0..MaxInt /\ k[2][1] # Zero
           /\ \A c \in Client, t \in Token :
                 IF <<c, t>> \in Shares(p)
                 THEN /\ RangeKeys(c, t) \cap DOMAIN W = {BalanceKey(c, t, sender)}
                      /\ W[BalanceKey(c, t, sender)]
                           = Value(world[BalanceKey(c, t, sender)]) + Share(p, c, t)
                 ELSE RangeKeys(c, t) \cap DOMAIN W = {}
<1> DEFINE W == AllAddWrites(sender, p)
<1>1. \A s \in Shares(p) : s[1] \in Client /\ s[2] \in Token /\ s = <<s[1], s[2]>>
  BY PaymentsFacts DEF Shares
<1>2. DOMAIN W = AddReads(sender, p)
  BY DEF AllAddWrites, AddReads
<1>3. ASSUME NEW c \in Client, NEW t \in Token, <<c, t>> \in Shares(p)
      PROVE  /\ BalanceKey(c, t, sender) \in DOMAIN W
             /\ W[BalanceKey(c, t, sender)]
                  = Value(world[BalanceKey(c, t, sender)]) + Share(p, c, t)
             /\ W[BalanceKey(c, t, sender)] \in 0..MaxInt
  <2> DEFINE k == BalanceKey(c, t, sender)
  <2>1. k \in AddReads(sender, p)
    BY <1>3 DEF AddReads
  <2>2. k[2][1] = c /\ k[2][2] = t
    BY KeyFacts
  <2>3. W[k] = Part(c, t, sender) + Share(p, c, t)
    BY <2>1, <2>2 DEF AllAddWrites, AddReads
  <2>4. Part(c, t, sender) = Value(world[k])
    BY DEF Part, Value
  <2>5. Fits(Part(c, t, sender) + Share(p, c, t))
    BY <1>3 DEF CanAddAll, CanAdd
  <2>6. Value(world[k]) \in Nat /\ Share(p, c, t) \in Nat
    BY WorldTyped, ValueFacts, PaymentsFacts DEF Typed
  <2>7. \A x, y \in Nat : x + y \in Nat
    OBVIOUS
  <2>8. W[k] \in 0..MaxInt
    <3> HIDE DEF W, k
    <3> QED
      BY <2>3, <2>4, <2>5, <2>6, <2>7, ValueFacts DEF Fits
  <2> QED
    BY <1>2, <2>1, <2>3, <2>4, <2>8
<1>4. ASSUME NEW k \in AddReads(sender, p)
      PROVE  \E c \in Client, t \in Token : <<c, t>> \in Shares(p) /\ k = BalanceKey(c, t, sender)
  BY <1>1 DEF AddReads
<1>5. AddReads(sender, p) \subseteq BalanceKeys
  <2>1. \A c \in Client, t \in Token : BalanceKey(c, t, sender) \in BalanceKeys
    BY KindFacts DEF Account
  <2> QED
    BY <1>4, <2>1
<1>6. ASSUME NEW k \in DOMAIN W
      PROVE  W[k] \in 0..MaxInt /\ k[2][1] # Zero
  <2>1. PICK c \in Client, t \in Token : <<c, t>> \in Shares(p) /\ k = BalanceKey(c, t, sender)
    BY <1>2, <1>4
  <2> QED
    BY <1>3, <2>1, KeyFacts, ValueFacts
<1> HIDE DEF W
<1>7. ASSUME NEW c \in Client, NEW t \in Token
      PROVE  \A k \in RangeKeys(c, t) \cap DOMAIN W :
                k = BalanceKey(c, t, sender) /\ <<c, t>> \in Shares(p)
  <2> SUFFICES ASSUME NEW k \in RangeKeys(c, t) \cap DOMAIN W
               PROVE  k = BalanceKey(c, t, sender) /\ <<c, t>> \in Shares(p)
    OBVIOUS
  <2>1. PICK d \in Client, u \in Token : <<d, u>> \in Shares(p) /\ k = BalanceKey(d, u, sender)
    BY <1>2, <1>4
  <2>2. d = c /\ u = t
    BY <2>1, RangeFacts
  <2> QED
    BY <2>1, <2>2
<1>8. ASSUME NEW c \in Client, NEW t \in Token
      PROVE  IF <<c, t>> \in Shares(p)
             THEN /\ RangeKeys(c, t) \cap DOMAIN W = {BalanceKey(c, t, sender)}
                  /\ W[BalanceKey(c, t, sender)]
                       = Value(world[BalanceKey(c, t, sender)]) + Share(p, c, t)
             ELSE RangeKeys(c, t) \cap DOMAIN W = {}
  <2>1. BalanceKey(c, t, sender) \in RangeKeys(c, t)
    BY RangeFacts
  <2> QED
    BY <1>3, <1>7, <2>1
<1> QED
  BY <1>2, <1>5, <1>6, <1>8 DEF W

\* What removeBalance writes for all tokens takes what is needed of each.
LEMMA RemovedFacts ==
    ASSUME TypeOK, LedgerOK, NEW p, IsPayments(p), NEW a \in Client, CanRemoveAll(a, p)
    PROVE  LET W == AllRemoveWrites(a, p) IN
           /\ DOMAIN W \subseteq RemoveReads(a, p) /\ RemoveReads(a, p) \subseteq BalanceKeys
           /\ \A k \in DOMAIN W : W[k] \in 0..MaxInt \union {Absent} /\ k[2][1] = a
           /\ \A t \in Token :
                 IF t \in Tokens(p)
                 THEN /\ RangeKeys(a, t) \subseteq RemoveReads(a, p)
                      /\ BalanceIn(After(W), a, t) + Need(p, t) = BalanceIn(world, a, t)
                 ELSE RangeKeys(a, t) \cap DOMAIN W = {}
           /\ \A c \in Client \ {a}, t \in Token : RangeKeys(c, t) \cap DOMAIN W = {}
<1> DEFINE W == AllRemoveWrites(a, p)
           w(t) == RemoveWrites(a, t, Need(p, t))
<1>1. Tokens(p) \subseteq Token /\ \A t : Need(p, t) \in Nat
  BY PaymentsFacts
<1>2. ASSUME NEW t \in Tokens(p)
      PROVE  /\ DOMAIN w(t) \subseteq RangeKeys(a, t)
             /\ \A k \in DOMAIN w(t) : w(t)[k] \in 0..MaxInt \union {Absent}
             /\ BalanceIn(After(w(t)), a, t) + Need(p, t) = BalanceIn(world, a, t)
  BY <1>1, Removal DEF CanRemoveAll
<1>3. /\ DOMAIN W = UNION {DOMAIN w(t) : t \in Tokens(p)}
      /\ \A k \in DOMAIN W : W[k] = w(k[2][2])[k]
  BY DEF AllRemoveWrites
<1> HIDE DEF W, w
<1>4. ASSUME NEW k \in DOMAIN W
      PROVE  \E t \in Tokens(p) : /\ k \in DOMAIN w(t) /\ k \in RangeKeys(a, t)
                                  /\ k[2][1] = a /\ k[2][2] = t
                                  /\ W[k] = w(t)[k]
  <2>1. PICK t \in Tokens(p) : k \in DOMAIN w(t)
    BY <1>3
  <2>2. k \in RangeKeys(a, t)
    BY <1>2, <2>1
  <2>3. k[2][1] = a /\ k[2][2] = t
    BY <2>2, RangeFacts
  <2> QED
    BY <1>3, <2>1, <2>2, <2>3
<1>5. DOMAIN W \subseteq RemoveReads(a, p)
  BY <1>4 DEF RemoveReads
<1>6. RemoveReads(a, p) \subseteq BalanceKeys
  BY <1>1, RangeFacts DEF RemoveReads
<1>7. \A k \in DOMAIN W : W[k] \in 0..MaxInt \union {Absent} /\ k[2][1] = a
  BY <1>2, <1>4
<1>8. \A c \in Client \ {a}, t \in Token : RangeKeys(c, t) \cap DOMAIN W = {}
  BY <1>4, RangeFacts
<1>9. ASSUME NEW t \in Token, t \notin Tokens(p)
      PROVE  RangeKeys(a, t) \cap DOMAIN W = {}
  BY <1>4, <1>9, RangeFacts
<1>10. ASSUME NEW t \in Tokens(p)
       PROVE  /\ RangeKeys(a, t) \subseteq RemoveReads(a, p)
              /\ BalanceIn(After(W), a, t) + Need(p, t) = BalanceIn(world, a, t)
  <2>1. RangeKeys(a, t) \subseteq RemoveReads(a, p)
    BY DEF RemoveReads
  <2>2. \A k \in RangeKeys(a, t) : k \in Key
    BY <1>1, RangeFacts, KindFacts
  <2>3. ASSUME NEW k \in RangeKeys(a, t)
        PROVE  After(W)[k] = After(w(t))[k]
    <3>1. k \in DOMAIN W => k \in DOMAIN w(t) /\ W[k] = w(t)[k]
      BY <1>4, RangeFacts
    <3>2. k \in DOMAIN w(t) => k \in DOMAIN W
      BY <1>3
    <3> QED
      BY <2>2, <3>1, <3>2 DEF After
  <2>4. Typed(After(w(t)), a, t)
    <3> SUFFICES ASSUME NEW s \in Client
                 PROVE  After(w(t))[BalanceKey(a, t, s)] \in 0..MaxInt \union {Absent}
      BY DEF Typed
    <3>1. BalanceKey(a, t, s) \in Key
      BY <2>2, RangeFacts
    <3>2. world[BalanceKey(a, t, s)] \in 0..MaxInt \union {Absent}
      BY <1>1, WorldTyped DEF Typed
    <3> QED
      BY <1>2, <3>1, <3>2 DEF After
  <2>5. BalanceIn(After(W), a, t) = BalanceIn(After(w(t)), a, t)
    BY <2>3, <2>4, BalanceSame
  <2> QED
    BY <1>2, <2>1, <2>5
<1> QED
  BY <1>5, <1>6, <1>7, <1>8, <1>9, <1>10 DEF W

-----------------------------------------------------------------------------
(* The simulation of the contract functions.                               *)

\* The balances of the next world state.
LEMMA BalanceNext == \A c, t : Balance(c, t)' = BalanceIn(world', c, t)
<1>1. ASSUME NEW c, NEW t
      PROVE  Balance(c, t)' = BalanceIn(world', c, t)
  <2>1. Parts(c, t)' = PartsIn(world', c, t)
    BY DEF Parts, Part, PartsIn, Value
  <2> QED
    BY <2>1 DEF Balance, BalanceIn
<1> QED
  BY <1>1

\* While the world state stays, so do balances and approvals.
LEMMA ObserverStays ==
    ASSUME ObserverAgrees, UNCHANGED world, UNCHANGED observer
    PROVE  ObserverAgrees'
<1>1. seenBalance' = seenBalance /\ seenOperators' = seenOperators
  BY DEF observer
<1>2. \A c \in Client, t \in Token : seenBalance'[c][t] = Balance(c, t)'
  BY <1>1, BalanceNext, BalanceFacts DEF ObserverAgrees
<1>3. \A c, op \in Client : <<c, op>> \in seenOperators' <=> IsApprovedForAll(c, op)'
  BY <1>1 DEF ObserverAgrees, IsApprovedForAll
<1> QED
  BY <1>2, <1>3 DEF ObserverAgrees

\* An endorsed transaction recorded the current value and version of every key.
LEMMA EndorsedInv ==
    ASSUME IInv, UNCHANGED observer,
           NEW id \in TxId, NEW sender \in Client, NEW K \in SUBSET Key,
           NEW writes, NEW event, Endorse(id, sender, K, writes, event),
           \A tx : /\ tx.creator = sender /\ tx.writes = writes /\ tx.event = event
                   /\ DOMAIN tx.reads = K
                   /\ \A k \in K : tx.reads[k].value = world[k]
                   => Simulated(tx)
    PROVE  IInv'
<1> DEFINE tx == pool'[id]
<1>1. /\ UNCHANGED <<world, version, height>>
      /\ DOMAIN pool' = TxId
      /\ \A j \in TxId \ {id} : pool'[j] = pool[j]
      /\ tx.creator = sender
      /\ DOMAIN tx.reads = K
      /\ \A k \in K : tx.reads[k].version = version[k] /\ tx.reads[k].value = world[k]
      /\ tx.writes = writes /\ tx.event = event
  BY DEF Endorse, ReadSet, IInv, LedgerOK
<1>2. Simulated(tx)
  BY <1>1
<1> HIDE DEF tx
<1>3. DOMAIN tx.writes \subseteq Key
  BY <1>2 DEF Simulated
<1>4. \A k \in Key : version[k] \in 0..height /\ (version[k] = 0 <=> world[k] = Absent)
  BY DEF IInv, LedgerOK
<1>5. ReadsOK(pool[id])'
  BY <1>1, <1>4 DEF ReadsOK, tx
<1>6. \A j \in InFlight' : j = id \/ (j \in InFlight /\ pool'[j] = pool[j])
  BY <1>1 DEF InFlight
<1>7. ASSUME NEW j \in InFlight'
      PROVE  ReadsOK(pool[j])' /\ Simulated(pool'[j])
  <2>1. CASE j = id
    BY <1>2, <1>5, <2>1 DEF tx
  <2>2. CASE j # id
    <3>1. pool'[j] = pool[j] /\ ReadsOK(pool[j]) /\ Simulated(pool[j])
      BY <1>6, <2>2 DEF IInv
    <3> QED
      BY <1>1, <3>1 DEF ReadsOK
  <2> QED
    BY <2>1, <2>2
<1>8. \A j \in InFlight' : DOMAIN pool'[j].reads \subseteq Key /\ DOMAIN pool'[j].writes \subseteq Key
  BY <1>7 DEF Simulated
<1>9. TypeOK'
  BY <1>1, <1>8 DEF IInv, TypeOK, observer
<1>10. ObserverAgrees'
  BY <1>1, ObserverStays DEF IInv
<1>11. LedgerOK' /\ EmptyBefore'
  BY <1>1 DEF IInv, LedgerOK, EmptyBefore, Initialized
<1> QED
  BY <1>7, <1>9, <1>10, <1>11 DEF IInv

\* An invalid or a lost transaction leaves no trace.
LEMMA DroppedInv ==
    ASSUME IInv, UNCHANGED observer, NEW id \in TxId, pool' = [pool EXCEPT ![id] = Idle],
           UNCHANGED <<world, version, height>>
    PROVE  IInv'
<1>1. \A j \in InFlight' : j \in InFlight /\ pool'[j] = pool[j]
  BY DEF InFlight, IInv, LedgerOK
<1>2. TypeOK'
  BY <1>1 DEF IInv, TypeOK, observer
<1>3. LedgerOK' /\ EmptyBefore'
  BY DEF IInv, LedgerOK, EmptyBefore, Initialized
<1>4. \A j \in InFlight' : ReadsOK(pool[j])' /\ Simulated(pool'[j])
  BY <1>1 DEF IInv, ReadsOK
<1>5. ObserverAgrees'
  BY ObserverStays DEF IInv
<1> QED
  BY <1>2, <1>3, <1>4, <1>5 DEF IInv

\* A transaction that read all keys of a balance found the balance of the world
\* state, and makes of it what its writes would make of that.
LEMMA Reading ==
    ASSUME TypeOK, NEW tx, NEW c \in Client, NEW t \in Token,
           RangeKeys(c, t) \subseteq DOMAIN tx.reads,
           \A k \in DOMAIN tx.reads : tx.reads[k].value = world[k],
           \A k \in RangeKeys(c, t) :
              k \in DOMAIN tx.writes => tx.writes[k] \in 0..MaxInt \union {Absent}
    PROVE  /\ BalanceIn(MadeBy(tx), c, t) = BalanceIn(After(tx.writes), c, t)
           /\ BalanceIn(FoundBy(tx), c, t) = BalanceIn(world, c, t)
           /\ Typed(After(tx.writes), c, t)
<1>1. \A k \in RangeKeys(c, t) : k \in Key
  BY RangeFacts, KindFacts
<1>2. \A k \in RangeKeys(c, t) : FoundBy(tx)[k] = world[k]
  BY <1>1 DEF FoundBy
<1>3. \A k \in RangeKeys(c, t) : MadeBy(tx)[k] = After(tx.writes)[k]
  BY <1>1 DEF MadeBy, After
<1>4. Typed(world, c, t)
  BY WorldTyped
<1>5. Typed(After(tx.writes), c, t)
  <2> SUFFICES ASSUME NEW s \in Client
               PROVE  After(tx.writes)[BalanceKey(c, t, s)] \in 0..MaxInt \union {Absent}
    BY DEF Typed
  <2>1. BalanceKey(c, t, s) \in RangeKeys(c, t)
    BY RangeFacts
  <2>2. world[BalanceKey(c, t, s)] \in 0..MaxInt \union {Absent}
    BY <1>4 DEF Typed
  <2> QED
    BY <1>1, <2>1, <2>2 DEF After
<1> QED
  BY <1>2, <1>3, <1>4, <1>5, BalanceSame

\* A transaction that found a name and writes balances only.
LEMMA OnlyBalances ==
    ASSUME NEW tx, tx.creator \in Client, DOMAIN tx.reads \subseteq Key,
           DOMAIN tx.writes \subseteq BalanceKeys, tx.event.name = "Transfer",
           NameKey \in DOMAIN tx.reads, tx.reads[NameKey].value # Absent,
           BalanceWrites(tx), Authorised(tx)
    PROVE  Simulated(tx)
<1>1. DOMAIN tx.writes \subseteq Key
  BY KindFacts
<1>2. ApprovalWrites(tx)
  BY KindFacts DEF ApprovalWrites
<1>3. OptionsWritten(tx)
  BY KindFacts DEF OptionsWritten
<1> QED
  BY <1>1, <1>2, <1>3 DEF Simulated

\* A transaction that touches no balance.
LEMMA NoBalances ==
    ASSUME NEW tx, BalanceKeys \cap DOMAIN tx.writes = {},
           tx.event.name = "Transfer" => /\ tx.event.from = Zero
                                         /\ \A c \in Client : \A t : Share(tx.event.payments, c, t) = 0
    PROVE  BalanceWrites(tx)
<1>1. ASSUME NEW c \in Client, NEW t \in Token
      PROVE  Untouched(tx, c, t)
  <2>1. RangeKeys(c, t) \cap DOMAIN tx.writes = {}
    BY RangeFacts
  <2>2. c # Zero
    BY ValueFacts
  <2> QED
    BY <2>1, <2>2 DEF Untouched, Received, Paid
<1> QED
  BY <1>1 DEF BalanceWrites

\* What a transaction that mints leaves in the pool.
LEMMA MintSimulated ==
    ASSUME TypeOK, NEW p, IsPayments(p), NEW operator \in Minter, CanAddAll(operator, p),
           \A i \in DOMAIN p : p[i].to \in Client,
           NEW tx, tx.creator = operator, tx.writes = AllAddWrites(operator, p),
           tx.event = TransferEvent(Zero, p),
           DOMAIN tx.reads = {NameKey} \union AddReads(operator, p),
           \A k \in DOMAIN tx.reads : tx.reads[k].value = world[k], Initialized
    PROVE  Simulated(tx)
<1> DEFINE W == AllAddWrites(operator, p)
<1>1. operator \in Client
  BY ValueFacts
<1>2. /\ DOMAIN W = AddReads(operator, p) /\ AddReads(operator, p) \subseteq BalanceKeys
      /\ \A k \in DOMAIN W : W[k] \in 0..MaxInt /\ k[2][1] # Zero
      /\ \A c \in Client, t \in Token :
            IF <<c, t>> \in Shares(p)
            THEN /\ RangeKeys(c, t) \cap DOMAIN W = {BalanceKey(c, t, operator)}
                 /\ W[BalanceKey(c, t, operator)]
                      = Value(world[BalanceKey(c, t, operator)]) + Share(p, c, t)
            ELSE RangeKeys(c, t) \cap DOMAIN W = {}
  BY <1>1, AddedFacts
<1>3. /\ tx.event.name = "Transfer" /\ tx.event.from = Zero /\ tx.event.payments = p
  BY DEF TransferEvent
<1> HIDE DEF W
<1>4. ASSUME NEW c \in Client, NEW t \in Token
      PROVE  Untouched(tx, c, t) \/ Deposited(tx, c, t)
  <2>1. Received(tx, c, t) = Share(p, c, t) /\ Paid(tx, c, t) = 0
    BY <1>3, ValueFacts DEF Received, Paid
  <2>2. CASE <<c, t>> \in Shares(p)
    <3> DEFINE k == BalanceKey(c, t, operator)
    <3>1. RangeKeys(c, t) \cap DOMAIN tx.writes = {k}
      BY <1>2, <2>2 DEF W
    <3>2. k \in DOMAIN tx.reads
      BY <1>2, <2>2
    <3>3. tx.writes[k] = Value(tx.reads[k].value) + Received(tx, c, t)
      BY <1>2, <2>1, <2>2, <3>2 DEF W
    <3> QED
      BY <1>1, <2>1, <3>1, <3>2, <3>3 DEF Deposited
  <2>3. CASE <<c, t>> \notin Shares(p)
    BY <1>2, <2>1, <2>3, PaymentsFacts DEF Untouched, W
  <2> QED
    BY <2>2, <2>3
<1>5. BalanceWrites(tx)
  BY <1>2, <1>4 DEF BalanceWrites, W
<1>6. Authorised(tx)
  BY <1>3 DEF Authorised, Minting
<1>7. DOMAIN tx.reads \subseteq Key /\ DOMAIN tx.writes \subseteq BalanceKeys
  BY <1>2, KindFacts DEF W
<1>8. NameKey \in DOMAIN tx.reads /\ tx.reads[NameKey].value # Absent
  BY DEF Initialized
<1> QED
  BY <1>1, <1>3, <1>5, <1>6, <1>7, <1>8, OnlyBalances

\* What becomes of the balances of the account that a transaction takes from.
LEMMA TakenFrom ==
    ASSUME TypeOK, LedgerOK, NEW p, IsPayments(p), NEW a \in Client, CanRemoveAll(a, p),
           NEW tx, NEW t \in Token,
           \A k \in DOMAIN tx.reads : tx.reads[k].value = world[k],
           RemoveReads(a, p) \subseteq DOMAIN tx.reads,
           \A k \in RangeKeys(a, t) :
              /\ k \in DOMAIN tx.writes <=> k \in DOMAIN AllRemoveWrites(a, p)
              /\ k \in DOMAIN tx.writes => tx.writes[k] = AllRemoveWrites(a, p)[k],
           Received(tx, a, t) = 0, Paid(tx, a, t) = Need(p, t)
    PROVE  Untouched(tx, a, t) \/ Withdrawn(tx, a, t)
<1> DEFINE W == AllRemoveWrites(a, p)
<1>1. /\ \A k \in DOMAIN W : W[k] \in 0..MaxInt \union {Absent}
      /\ IF t \in Tokens(p)
         THEN /\ RangeKeys(a, t) \subseteq RemoveReads(a, p)
              /\ BalanceIn(After(W), a, t) + Need(p, t) = BalanceIn(world, a, t)
         ELSE RangeKeys(a, t) \cap DOMAIN W = {}
  BY RemovedFacts
<1>2. /\ \A k \in RangeKeys(a, t) : k \in DOMAIN tx.writes <=> k \in DOMAIN W
      /\ \A k \in RangeKeys(a, t) : k \in DOMAIN W => tx.writes[k] = W[k]
  OBVIOUS
<1> HIDE DEF W
<1>3. CASE t \in Tokens(p)
  <2>1. RangeKeys(a, t) \subseteq DOMAIN tx.reads
    BY <1>1, <1>3
  <2>2. \A k \in RangeKeys(a, t) :
           k \in DOMAIN tx.writes => tx.writes[k] \in 0..MaxInt \union {Absent}
    BY <1>1, <1>2
  <2>3. /\ BalanceIn(MadeBy(tx), a, t) = BalanceIn(After(tx.writes), a, t)
        /\ BalanceIn(FoundBy(tx), a, t) = BalanceIn(world, a, t)
        /\ Typed(After(tx.writes), a, t)
    BY <2>1, <2>2, Reading
  <2>4. \A k \in RangeKeys(a, t) : After(W)[k] = After(tx.writes)[k]
    BY <1>2, RangeFacts, KindFacts DEF After
  <2>5. BalanceIn(After(W), a, t) = BalanceIn(After(tx.writes), a, t)
    BY <2>3, <2>4, BalanceSame
  <2>6. BalanceIn(MadeBy(tx), a, t) + Paid(tx, a, t) = BalanceIn(FoundBy(tx), a, t)
    BY <1>1, <1>3, <2>3, <2>5
  <2> QED
    BY <2>1, <2>6 DEF Withdrawn
<1>4. CASE t \notin Tokens(p)
  <2>1. Paid(tx, a, t) = 0
    BY <1>4, PaymentsFacts
  <2>2. RangeKeys(a, t) \cap DOMAIN tx.writes = {}
    BY <1>1, <1>2, <1>4
  <2> QED
    BY <2>1, <2>2 DEF Untouched
<1> QED
  BY <1>3, <1>4

\* What a transaction that burns leaves in the pool.
LEMMA BurnSimulated ==
    ASSUME TypeOK, LedgerOK, NEW p, IsPayments(p), NEW operator \in Minter,
           NEW a \in Client, CanRemoveAll(a, p), \A i \in DOMAIN p : p[i].to = Zero,
           NEW tx, tx.creator = operator, tx.writes = AllRemoveWrites(a, p),
           tx.event = TransferEvent(a, p),
           DOMAIN tx.reads = {NameKey} \union RemoveReads(a, p),
           \A k \in DOMAIN tx.reads : tx.reads[k].value = world[k], Initialized
    PROVE  Simulated(tx)
<1>1. operator \in Client
  BY ValueFacts
<1>2. /\ DOMAIN tx.writes \subseteq RemoveReads(a, p) /\ RemoveReads(a, p) \subseteq BalanceKeys
      /\ \A k \in DOMAIN tx.writes : tx.writes[k] \in 0..MaxInt \union {Absent} /\ k[2][1] = a
      /\ \A c \in Client \ {a}, t \in Token : RangeKeys(c, t) \cap DOMAIN tx.writes = {}
  BY RemovedFacts
<1>3. /\ tx.event.name = "Transfer" /\ tx.event.from = a /\ tx.event.payments = p
  BY DEF TransferEvent
<1>4. \A c \in Client : \A t : Share(p, c, t) = 0
  <2>1. \A c \in Client : \A t : <<c, t>> \notin Shares(p)
    BY ValueFacts DEF Shares
  <2> QED
    BY <2>1, PaymentsFacts
<1>5. ASSUME NEW c \in Client, NEW t \in Token
      PROVE  Untouched(tx, c, t) \/ Withdrawn(tx, c, t)
  <2>1. Received(tx, c, t) = 0
    BY <1>3, <1>4 DEF Received
  <2>2. CASE c = a
    <3>1. Paid(tx, a, t) = Need(p, t)
      BY <1>3 DEF Paid
    <3> QED
      BY <2>1, <2>2, <3>1, TakenFrom
  <2>3. CASE c # a
    <3>1. Paid(tx, c, t) = 0
      BY <1>3, <2>3 DEF Paid
    <3> QED
      BY <1>2, <2>1, <2>3, <3>1 DEF Untouched
  <2> QED
    BY <2>2, <2>3
<1>6. BalanceWrites(tx)
  <2>1. a # Zero
    BY ValueFacts
  <2>2. \A k \in BalanceKeys : k \in DOMAIN tx.writes /\ tx.writes[k] # Absent =>
           tx.writes[k] \in 0..MaxInt /\ k[2][1] # Zero
    BY <1>2, <2>1
  <2> QED
    BY <1>5, <2>2 DEF BalanceWrites
<1>7. Authorised(tx)
  BY <1>3 DEF Authorised, Burning
<1>8. DOMAIN tx.reads \subseteq Key /\ DOMAIN tx.writes \subseteq BalanceKeys
  BY <1>2, KindFacts
<1>9. NameKey \in DOMAIN tx.reads /\ tx.reads[NameKey].value # Absent
  BY DEF Initialized
<1> QED
  BY <1>1, <1>3, <1>6, <1>7, <1>8, <1>9, OnlyBalances

\* What a transaction that transfers leaves in the pool.
LEMMA TransferSimulated ==
    ASSUME TypeOK, LedgerOK, NEW p, IsPayments(p), NEW operator \in Client,
           NEW a \in Client, CanRemoveAll(a, p), CanAddAll(a, p),
           \A i \in DOMAIN p : p[i].to \in Client \ {a},
           operator # a => IsApprovedForAll(a, operator),
           NEW tx, tx.creator = operator, tx.writes = AllWrites(a, p),
           tx.event = TransferEvent(a, p),
           DOMAIN tx.reads = {NameKey} \union RemoveReads(a, p) \union AddReads(a, p)
              \union ApprovalReads(a, operator),
           \A k \in DOMAIN tx.reads : tx.reads[k].value = world[k], Initialized
    PROVE  Simulated(tx)
<1> DEFINE A == AllAddWrites(a, p)
           R == AllRemoveWrites(a, p)
<1>1. /\ DOMAIN A = AddReads(a, p) /\ AddReads(a, p) \subseteq BalanceKeys
      /\ \A k \in DOMAIN A : A[k] \in 0..MaxInt /\ k[2][1] # Zero
      /\ \A c \in Client, t \in Token :
            IF <<c, t>> \in Shares(p)
            THEN /\ RangeKeys(c, t) \cap DOMAIN A = {BalanceKey(c, t, a)}
                 /\ A[BalanceKey(c, t, a)]
                      = Value(world[BalanceKey(c, t, a)]) + Share(p, c, t)
            ELSE RangeKeys(c, t) \cap DOMAIN A = {}
  BY AddedFacts
<1>2. /\ DOMAIN R \subseteq RemoveReads(a, p) /\ RemoveReads(a, p) \subseteq BalanceKeys
      /\ \A k \in DOMAIN R : R[k] \in 0..MaxInt \union {Absent} /\ k[2][1] = a
      /\ \A c \in Client \ {a}, t \in Token : RangeKeys(c, t) \cap DOMAIN R = {}
  BY RemovedFacts
<1>3. /\ DOMAIN tx.writes = DOMAIN A \union DOMAIN R
      /\ \A k \in DOMAIN tx.writes :
            tx.writes[k] = IF k \in DOMAIN A THEN A[k] ELSE R[k]
  BY DEF AllWrites
<1>4. /\ tx.event.name = "Transfer" /\ tx.event.from = a /\ tx.event.payments = p
  BY DEF TransferEvent
<1> HIDE DEF A, R
<1>5. \A t : <<a, t>> \notin Shares(p)
  BY DEF Shares
<1>6. ASSUME NEW c \in Client, NEW t \in Token
      PROVE  Untouched(tx, c, t) \/ Deposited(tx, c, t) \/ Withdrawn(tx, c, t)
  <2>1. Received(tx, c, t) = Share(p, c, t)
    BY <1>4 DEF Received
  <2>2. CASE c = a
    <3>1. Paid(tx, a, t) = Need(p, t) /\ Received(tx, a, t) = 0
      <4>1. Paid(tx, a, t) = Need(p, t)
        BY <1>4 DEF Paid
      <4>2. Share(p, a, t) = 0
        BY <1>5, PaymentsFacts
      <4> QED
        BY <2>1, <2>2, <4>1, <4>2
    <3>2. RangeKeys(a, t) \cap DOMAIN A = {}
      BY <1>1, <1>5
    <3>3. \A k \in RangeKeys(a, t) : /\ k \in DOMAIN tx.writes <=> k \in DOMAIN R
                                     /\ k \in DOMAIN tx.writes => tx.writes[k] = R[k]
      BY <1>3, <3>2
    <3>4. RemoveReads(a, p) \subseteq DOMAIN tx.reads
      OBVIOUS
    <3>5. Untouched(tx, a, t) \/ Withdrawn(tx, a, t)
      BY <3>1, <3>3, <3>4, TakenFrom DEF R
    <3> QED
      BY <2>2, <3>5
  <2>3. CASE c # a
    <3>1. Paid(tx, c, t) = 0
      BY <1>4, <2>3 DEF Paid
    <3>2. RangeKeys(c, t) \cap DOMAIN tx.writes = RangeKeys(c, t) \cap DOMAIN A
      BY <1>2, <1>3, <2>3
    <3>3. CASE <<c, t>> \in Shares(p)
      <4> DEFINE k == BalanceKey(c, t, a)
      <4>1. RangeKeys(c, t) \cap DOMAIN tx.writes = {k} /\ k \in DOMAIN A
        BY <1>1, <3>2, <3>3
      <4>2. k \in DOMAIN tx.reads
        BY <1>1, <4>1
      <4>3. tx.writes[k] = A[k]
        BY <1>3, <4>1
      <4>4. tx.writes[k] = Value(tx.reads[k].value) + Received(tx, c, t)
        BY <1>1, <2>1, <3>3, <4>2, <4>3
      <4> QED
        BY <3>1, <4>1, <4>2, <4>4 DEF Deposited
    <3>4. CASE <<c, t>> \notin Shares(p)
      BY <1>1, <2>1, <3>1, <3>2, <3>4, PaymentsFacts DEF Untouched
    <3> QED
      BY <3>3, <3>4
  <2> QED
    BY <2>2, <2>3
<1>7. BalanceWrites(tx)
  <2>1. a # Zero
    BY ValueFacts
  <2>2. \A k \in BalanceKeys : k \in DOMAIN tx.writes /\ tx.writes[k] # Absent =>
           tx.writes[k] \in 0..MaxInt /\ k[2][1] # Zero
    BY <1>1, <1>2, <1>3, <2>1
  <2> QED
    BY <1>6, <2>2 DEF BalanceWrites
<1>8. Transferring(tx)
  <2>1. CASE operator = a
    BY <1>4, <2>1 DEF Transferring
  <2>2. CASE operator # a
    <3>1. ApprovalKey(a, operator) \in DOMAIN tx.reads
      BY <2>2 DEF ApprovalReads
    <3>2. tx.reads[ApprovalKey(a, operator)].value = TRUE
      BY <2>2, <3>1 DEF IsApprovedForAll
    <3> QED
      BY <1>4, <3>1, <3>2 DEF Transferring
  <2> QED
    BY <2>1, <2>2
<1>9. Authorised(tx)
  BY <1>4, <1>8 DEF Authorised
<1>10. DOMAIN tx.reads \subseteq Key /\ DOMAIN tx.writes \subseteq BalanceKeys
  <2>1. ApprovalKey(a, operator) \in Key /\ NameKey \in Key
    BY KindFacts
  <2>2. /\ AddReads(a, p) \subseteq Key /\ RemoveReads(a, p) \subseteq Key
        /\ ApprovalReads(a, operator) \subseteq Key
    BY <1>1, <1>2, <2>1, KindFacts DEF ApprovalReads
  <2>3. DOMAIN tx.writes \subseteq BalanceKeys
    BY <1>1, <1>2, <1>3
  <2> QED
    BY <2>1, <2>2, <2>3
<1>11. NameKey \in DOMAIN tx.reads /\ tx.reads[NameKey].value # Absent
  BY DEF Initialized
<1> QED
  BY <1>4, <1>7, <1>9, <1>10, <1>11, OnlyBalances

\* The payments of a batch to one account.
LEMMA ToFacts ==
    ASSUME NEW account \in Account, NEW m \in Nat, NEW batch \in [1..m -> Item]
    PROVE  /\ IsPayments(To(account, batch))
           /\ \A i \in DOMAIN To(account, batch) : /\ To(account, batch)[i].to = account
                                                   /\ To(account, batch) # <<>>
<1> DEFINE p == To(account, batch)
<1>1. /\ p \in [1..m -> [to : Account, token : Token, amount : Nat]]
      /\ \A i \in DOMAIN p : p[i].to = account
  BY ValueFacts DEF To, Item
<1>2. IsPayments(p)
  BY <1>1 DEF IsPayments
<1>3. \A i \in DOMAIN p : p # <<>>
  OBVIOUS
<1> QED
  BY <1>1, <1>2, <1>3

\* A batch of one, and a bounded batch.
LEMMA BatchFacts ==
    /\ \A m \in Nat : \A p \in [1..m -> Payment] : IsPayments(p)
    /\ \A t \in Token, n \in Amount :
          <<[token |-> t, amount |-> n]>> \in [1..1 -> Item] /\ 1 \in Nat
    /\ \A S : \A s \in BoundedSeq(S, MaxBatch) : \E m \in Nat : s \in [1..m -> S]
<1>1. \A t \in Token, n \in Amount : [token |-> t, amount |-> n] \in Item
  BY DEF Item
<1>2. \A i : <<i>> \in [1..1 -> {i}]
  OBVIOUS
<1>3. \A t \in Token, n \in Amount :
         <<[token |-> t, amount |-> n]>> \in [1..1 -> Item] /\ 1 \in Nat
  BY <1>1
<1>4. MaxBatch \in Nat
  BY ConstantAssumption
<1>5. \A S : \A s \in BoundedSeq(S, MaxBatch) : \E m \in Nat : s \in [1..m -> S]
  BY <1>4 DEF BoundedSeq, SeqOf
<1>6. \A m \in Nat : \A p \in [1..m -> Payment] : IsPayments(p)
  BY ValueFacts DEF IsPayments, Payment
<1> QED
  BY <1>3, <1>5, <1>6

\* Initialize preserves the invariant.
LEMMA InitializeInv ==
    ASSUME IInv, UNCHANGED observer, NEW id \in TxId, NEW sender \in Client,
           NEW name \in Option, NEW symbol \in Option, Initialize(id, sender, name, symbol)
    PROVE  IInv'
<1> DEFINE W == OptionWrites(name, symbol)
<1>1. Endorse(id, sender, {NameKey}, W, NoEvent) /\ world[NameKey] = Absent
  BY DEF Initialize, Initialized
<1>2. /\ DOMAIN W = {NameKey, OptionKey("symbol")}
      /\ \A k \in DOMAIN W : W[k] \in Option \union {Absent}
  BY DEF OptionWrites, Stored
<1>3. {NameKey} \in SUBSET Key /\ DOMAIN W \subseteq OptionKeys /\ DOMAIN W \subseteq Key
  BY <1>2, KindFacts
<1> HIDE DEF W
<1>4. ASSUME NEW tx, tx.creator = sender, tx.writes = W, tx.event = NoEvent,
             DOMAIN tx.reads = {NameKey}, \A k \in {NameKey} : tx.reads[k].value = world[k]
      PROVE  Simulated(tx)
  <2>1. tx.event.name = "none"
    BY <1>4 DEF NoEvent
  <2>2. BalanceWrites(tx)
    BY <1>3, <1>4, <2>1, KindFacts, NoBalances
  <2>3. Authorised(tx)
    BY <2>1 DEF Authorised
  <2>4. ApprovalWrites(tx)
    BY <1>3, <1>4, <2>1, KindFacts DEF ApprovalWrites
  <2>5. OptionsWritten(tx)
    BY <1>1, <1>2, <1>4 DEF OptionsWritten
  <2> QED
    BY <1>3, <1>4, <2>2, <2>3, <2>4, <2>5 DEF Simulated
<1> QED
  BY <1>1, <1>3, <1>4, EndorsedInv

\* MintBatch preserves the invariant.
LEMMA MintBatchInv ==
    ASSUME IInv, UNCHANGED observer, NEW id \in TxId, NEW operator \in Client,
           NEW account \in Account, NEW m \in Nat, NEW batch \in [1..m -> Item],
           MintBatch(id, operator, account, batch)
    PROVE  IInv'
<1> DEFINE p == To(account, batch)
           K == {NameKey} \union AddReads(operator, p)
<1>1. /\ Initialized /\ operator \in Minter /\ CanAddAll(operator, p)
      /\ p # <<>> => account # Zero
      /\ Endorse(id, operator, K, AllAddWrites(operator, p), TransferEvent(Zero, p))
  BY DEF MintBatch
<1>2. IsPayments(p) /\ \A i \in DOMAIN p : p[i].to \in Client
  BY <1>1, ToFacts DEF Account
<1>3. TypeOK
  BY DEF IInv
<1> HIDE DEF p
<1>4. K \in SUBSET Key
  BY <1>1, <1>2, <1>3, AddedFacts, KindFacts
<1>5. ASSUME NEW tx, tx.creator = operator, tx.writes = AllAddWrites(operator, p),
             tx.event = TransferEvent(Zero, p), DOMAIN tx.reads = K,
             \A k \in K : tx.reads[k].value = world[k]
      PROVE  Simulated(tx)
  BY <1>1, <1>2, <1>3, <1>5, MintSimulated
<1> HIDE DEF K
<1> QED
  BY <1>1, <1>4, <1>5, EndorsedInv

\* BurnBatch preserves the invariant.
LEMMA BurnBatchInv ==
    ASSUME IInv, UNCHANGED observer, NEW id \in TxId, NEW operator \in Client,
           NEW account \in Account, NEW m \in Nat, NEW batch \in [1..m -> Item],
           BurnBatch(id, operator, account, batch)
    PROVE  IInv'
<1> DEFINE p == To(Zero, batch)
           K == {NameKey} \union RemoveReads(account, p)
<1>1. /\ Initialized /\ operator \in Minter /\ account # Zero /\ CanRemoveAll(account, p)
      /\ Endorse(id, operator, K, AllRemoveWrites(account, p), TransferEvent(account, p))
  BY DEF BurnBatch
<1>2. account \in Client
  BY <1>1 DEF Account
<1>3. IsPayments(p) /\ \A i \in DOMAIN p : p[i].to = Zero
  BY ToFacts DEF Account
<1>4. TypeOK /\ LedgerOK
  BY DEF IInv
<1> HIDE DEF p
<1>5. K \in SUBSET Key
  BY <1>1, <1>2, <1>3, <1>4, RemovedFacts, KindFacts
<1>6. ASSUME NEW tx, tx.creator = operator, tx.writes = AllRemoveWrites(account, p),
             tx.event = TransferEvent(account, p), DOMAIN tx.reads = K,
             \A k \in K : tx.reads[k].value = world[k]
      PROVE  Simulated(tx)
  BY <1>1, <1>2, <1>3, <1>4, <1>6, BurnSimulated
<1> HIDE DEF K
<1> QED
  BY <1>1, <1>5, <1>6, EndorsedInv

\* BatchTransferFromMultiRecipient preserves the invariant.
LEMMA TransferInv ==
    ASSUME IInv, UNCHANGED observer, NEW id \in TxId, NEW operator \in Client,
           NEW a \in Client, NEW p, IsPayments(p),
           BatchTransferFromMultiRecipient(id, operator, a, p)
    PROVE  IInv'
<1> DEFINE K == {NameKey} \union RemoveReads(a, p) \union AddReads(a, p)
                \union ApprovalReads(a, operator)
<1>1. /\ Initialized /\ CanRemoveAll(a, p) /\ CanAddAll(a, p)
      /\ \A i \in DOMAIN p : p[i].to # a /\ p[i].to # Zero
      /\ operator # a => IsApprovedForAll(a, operator)
      /\ Endorse(id, operator, K, AllWrites(a, p), TransferEvent(a, p))
  BY DEF BatchTransferFromMultiRecipient
<1>2. \A i \in DOMAIN p : p[i].to \in Client \ {a}
  BY <1>1, PaymentsFacts DEF Account
<1>3. TypeOK /\ LedgerOK
  BY DEF IInv
<1>4. K \in SUBSET Key
  <2>1. AddReads(a, p) \subseteq BalanceKeys
    BY <1>1, <1>2, <1>3, AddedFacts
  <2>2. RemoveReads(a, p) \subseteq BalanceKeys
    BY <1>1, <1>3, RemovedFacts
  <2>3. ApprovalReads(a, operator) \subseteq Key
    BY KindFacts DEF ApprovalReads
  <2> QED
    BY <2>1, <2>2, <2>3, KindFacts
<1>5. ASSUME NEW tx, tx.creator = operator, tx.writes = AllWrites(a, p),
             tx.event = TransferEvent(a, p), DOMAIN tx.reads = K,
             \A k \in K : tx.reads[k].value = world[k]
      PROVE  Simulated(tx)
  BY <1>1, <1>2, <1>3, <1>5, TransferSimulated
<1> HIDE DEF K
<1> QED
  BY <1>1, <1>4, <1>5, EndorsedInv

\* SetApprovalForAll preserves the invariant.
LEMMA SetApprovalInv ==
    ASSUME IInv, UNCHANGED observer, NEW id \in TxId, NEW account \in Client,
           NEW operator \in Client, NEW approved \in BOOLEAN,
           SetApprovalForAll(id, account, operator, approved)
    PROVE  IInv'
<1> DEFINE k0 == ApprovalKey(account, operator)
           W == Put(k0, approved)
           E == ApprovalForAllEvent(account, operator, approved)
<1>1. Initialized /\ Endorse(id, account, {NameKey}, W, E)
  BY DEF SetApprovalForAll
<1>2. DOMAIN W = {k0} /\ k0 \in ApprovalKeys /\ {NameKey} \in SUBSET Key
  BY KindFacts DEF Put
<1>3. /\ E.name = "ApprovalForAll" /\ E.owner = account /\ E.operator = operator
      /\ E.approved = approved
  BY DEF ApprovalForAllEvent
<1> HIDE DEF E
<1>4. ASSUME NEW tx, tx.creator = account, tx.writes = W, tx.event = E,
             DOMAIN tx.reads = {NameKey}, \A k \in {NameKey} : tx.reads[k].value = world[k]
      PROVE  Simulated(tx)
  <2>1. BalanceWrites(tx)
    BY <1>2, <1>3, <1>4, KindFacts, NoBalances
  <2>2. Authorised(tx)
    BY <1>3, <1>4 DEF Authorised
  <2>3. ApprovalWrites(tx)
    BY <1>3, <1>4 DEF ApprovalWrites
  <2>4. OptionsWritten(tx)
    BY <1>1, <1>2, <1>4, KindFacts DEF OptionsWritten, Initialized
  <2>5. DOMAIN tx.writes \subseteq Key
    BY <1>2, <1>4, KindFacts
  <2> QED
    BY <1>2, <1>4, <2>1, <2>2, <2>3, <2>4, <2>5 DEF Simulated
<1> HIDE DEF W
<1> QED
  BY <1>1, <1>2, <1>4, EndorsedInv

\* SetURI preserves the invariant.
LEMMA SetURIInv ==
    ASSUME IInv, UNCHANGED observer, NEW id \in TxId, NEW sender \in Client,
           NEW uri \in Option, SetURI(id, sender, uri)
    PROVE  IInv'
<1> DEFINE W == Put(OptionKey("uri"), Stored(uri))
<1>1. Initialized /\ Endorse(id, sender, {NameKey}, W, NoEvent)
  BY DEF SetURI
<1>2. /\ DOMAIN W = {OptionKey("uri")} /\ {NameKey} \in SUBSET Key
      /\ W[OptionKey("uri")] \in Option \union {Absent}
  BY KindFacts DEF Put, Stored
<1> HIDE DEF W
<1>3. ASSUME NEW tx, tx.creator = sender, tx.writes = W, tx.event = NoEvent,
             DOMAIN tx.reads = {NameKey}, \A k \in {NameKey} : tx.reads[k].value = world[k]
      PROVE  Simulated(tx)
  <2>1. tx.event.name = "none"
    BY <1>3 DEF NoEvent
  <2>2. BalanceWrites(tx)
    BY <1>2, <1>3, <2>1, KindFacts, NoBalances
  <2>3. Authorised(tx)
    BY <2>1 DEF Authorised
  <2>4. ApprovalWrites(tx)
    BY <1>2, <1>3, <2>1, KindFacts DEF ApprovalWrites
  <2>5. OptionsWritten(tx)
    BY <1>1, <1>2, <1>3, KindFacts DEF OptionsWritten, Initialized
  <2>6. DOMAIN tx.writes \subseteq Key
    BY <1>2, <1>3, KindFacts
  <2> QED
    BY <1>2, <1>3, <2>2, <2>3, <2>4, <2>5, <2>6 DEF Simulated
<1> QED
  BY <1>1, <1>2, <1>3, EndorsedInv

\* BroadcastTokenExistance preserves the invariant.
LEMMA BroadcastInv ==
    ASSUME IInv, UNCHANGED observer, NEW id \in TxId, NEW operator \in Client,
           NEW t \in Token, BroadcastTokenExistance(id, operator, t)
    PROVE  IInv'
<1> DEFINE p == <<[to |-> Zero, token |-> t, amount |-> 0]>>
<1>1. /\ Initialized /\ operator \in Minter
      /\ Endorse(id, operator, {NameKey}, <<>>, TransferEvent(Zero, p))
  BY DEF BroadcastTokenExistance
<1>2. {NameKey} \in SUBSET Key /\ DOMAIN <<>> = {}
  BY KindFacts
<1>3. DOMAIN p = 1..1 /\ \A i \in DOMAIN p : p[i].to = Zero /\ p[i].token = t /\ p[i].amount = 0
  OBVIOUS
<1> HIDE DEF p
<1>4. IsPayments(p)
  <2>1. p \in [1..1 -> [to : Account, token : Token, amount : Nat]]
    BY DEF Account, p
  <2> QED
    BY <2>1 DEF IsPayments
<1>5. \A c \in Client : \A u : Share(p, c, u) = 0
  <2>1. \A c \in Client : \A u : <<c, u>> \notin Shares(p)
    BY <1>3, ValueFacts DEF Shares
  <2> QED
    BY <1>4, <2>1, PaymentsFacts
<1>6. ASSUME NEW tx, tx.creator = operator, tx.writes = <<>>, tx.event = TransferEvent(Zero, p),
             DOMAIN tx.reads = {NameKey}, \A k \in {NameKey} : tx.reads[k].value = world[k]
      PROVE  Simulated(tx)
  <2>1. tx.event.name = "Transfer" /\ tx.event.from = Zero /\ tx.event.payments = p
    BY <1>6 DEF TransferEvent
  <2>2. BalanceWrites(tx)
    BY <1>2, <1>5, <1>6, <2>1, NoBalances
  <2>3. Authorised(tx)
    BY <1>1, <1>4, <1>6, <2>1 DEF Authorised, Minting
  <2>4. tx.reads[NameKey].value # Absent
    BY <1>1, <1>6 DEF Initialized
  <2> QED
    BY <1>2, <1>6, <2>1, <2>2, <2>3, <2>4, OnlyBalances
<1> QED
  BY <1>1, <1>2, <1>6, EndorsedInv

-----------------------------------------------------------------------------
(* The commit.                                                             *)

\* What a commit does to the ledger and to the pool.
LEMMA CommitFacts ==
    ASSUME IInv, NEW id \in TxId, CommitValid(id)
    PROVE  /\ id \in InFlight /\ Simulated(pool[id])
           /\ DOMAIN world' = Key /\ version' \in [Key -> 0..(height + 1)] /\ DOMAIN pool' = TxId
           /\ \A k \in Key : world'[k] = IF k \in DOMAIN pool[id].writes
                                         THEN pool[id].writes[k] ELSE world[k]
           /\ \A k \in Key : version'[k] = IF k \notin DOMAIN pool[id].writes THEN version[k]
                                           ELSE IF pool[id].writes[k] = Absent THEN 0
                                           ELSE height + 1
           /\ \A k \in DOMAIN pool[id].reads : pool[id].reads[k].value = world[k]
           /\ \A j \in InFlight' : j \in InFlight /\ pool'[j] = pool[j]
<1>1. id \in InFlight /\ Simulated(pool[id]) /\ ReadsOK(pool[id])
  BY DEF CommitValid, InFlight, IInv
<1>2. pool' = [pool EXCEPT ![id] = Idle] /\ DOMAIN pool = TxId
  BY DEF CommitValid, IInv, LedgerOK
<1>3. /\ DOMAIN pool' = TxId
      /\ \A j \in InFlight' : j \in InFlight /\ pool'[j] = pool[j]
  BY <1>2 DEF InFlight
<1>4. /\ world' = Applied(pool[id].writes)
      /\ version' = VersionAfter(pool[id].writes)
      /\ Valid(pool[id])
  BY DEF CommitValid
<1>5. \A k \in DOMAIN pool[id].reads : pool[id].reads[k].value = world[k]
  BY <1>1, <1>4 DEF Valid, ReadsOK
<1>6. /\ DOMAIN world' = Key
      /\ \A k \in Key : world'[k] = IF k \in DOMAIN pool[id].writes
                                    THEN pool[id].writes[k] ELSE world[k]
  BY <1>4 DEF Applied
<1>7. /\ version' = [k \in Key |-> version'[k]]
      /\ \A k \in Key : version'[k] = IF k \notin DOMAIN pool[id].writes THEN version[k]
                                      ELSE IF pool[id].writes[k] = Absent THEN 0
                                      ELSE height + 1
  BY <1>4 DEF VersionAfter
<1>8. version' \in [Key -> 0..(height + 1)]
  <2>1. height \in Nat /\ \A k \in Key : version[k] \in 0..height
    BY MaxHeightAssumption DEF IInv, LedgerOK, TypeOK
  <2>2. 0..height \subseteq 0..(height + 1) /\ 0 \in 0..(height + 1) /\ height + 1 \in 0..(height + 1)
    BY <2>1
  <2>3. \A k \in Key : version'[k] \in 0..(height + 1)
    BY <1>7, <2>1, <2>2
  <2> QED
    BY <1>7, <2>3
<1> QED
  BY <1>1, <1>3, <1>5, <1>6, <1>7, <1>8

\* Heights, by themselves.
LEMMA Heights ==
    ASSUME IInv, NEW id \in TxId, CommitValid(id)
    PROVE  /\ height \in Nat /\ height' = height + 1 /\ height' \in 0..MaxHeight
           /\ \A n \in 0..height : n \in 0..height' /\ n # height'
           /\ 0 \in 0..height' /\ height' \in 0..height' /\ height' # 0
<1>1. height \in 0..MaxHeight /\ MaxHeight \in Nat
  BY MaxHeightAssumption DEF IInv, TypeOK
<1>2. height' = height + 1 /\ height < MaxHeight
  BY DEF CommitValid
<1> QED
  BY <1>1, <1>2

\* What an event says of a balance is a natural.
LEMMA FlowFacts ==
    ASSUME NEW tx, Simulated(tx)
    PROVE  \A c, t : Received(tx, c, t) \in Nat /\ Paid(tx, c, t) \in Nat
<1>1. CASE tx.event.name = "Transfer"
  BY <1>1, PaymentsFacts DEF Simulated, Authorised, Received, Paid
<1>2. CASE tx.event.name # "Transfer"
  BY <1>2 DEF Received, Paid
<1> QED
  BY <1>1, <1>2

\* A commit keeps the kinds of the values.
LEMMA CommitKinds ==
    ASSUME IInv, NEW id \in TxId, CommitValid(id)
    PROVE  /\ \A k \in BalanceKeys :
                 world'[k] # Absent => world'[k] \in 0..MaxInt /\ k[2][1] # Zero
           /\ \A k \in ApprovalKeys : world'[k] # Absent => world'[k] \in BOOLEAN
           /\ \A k \in OptionKeys : world'[k] \in Option \union {Absent}
           /\ \A c \in Client, t \in Token : Typed(world', c, t)
<1> DEFINE tx == pool[id]
<1>1. /\ \A k \in Key : world'[k] = IF k \in DOMAIN tx.writes THEN tx.writes[k] ELSE world[k]
      /\ BalanceWrites(tx) /\ ApprovalWrites(tx) /\ OptionsWritten(tx)
  BY CommitFacts DEF Simulated
<1>2. TypeOK
  BY DEF IInv
<1> HIDE DEF tx
<1>3. ASSUME NEW k \in BalanceKeys, world'[k] # Absent
      PROVE  world'[k] \in 0..MaxInt /\ k[2][1] # Zero
  <2>1. k \in Key
    BY KindFacts
  <2>2. CASE k \in DOMAIN tx.writes
    <3>1. world'[k] = tx.writes[k]
      BY <1>1, <2>1, <2>2
    <3> QED
      BY <1>1, <1>3, <2>2, <3>1 DEF BalanceWrites
  <2>3. CASE k \notin DOMAIN tx.writes
    <3>1. world'[k] = world[k]
      BY <1>1, <2>1, <2>3
    <3> QED
      BY <1>2, <1>3, <3>1 DEF TypeOK
  <2> QED
    BY <2>2, <2>3
<1>4. ASSUME NEW k \in ApprovalKeys, world'[k] # Absent
      PROVE  world'[k] \in BOOLEAN
  <2>1. k \in Key
    BY KindFacts
  <2>2. k \in DOMAIN tx.writes => tx.writes[k] \in BOOLEAN
    <3>1. CASE tx.event.name = "ApprovalForAll"
      BY <1>1, <3>1 DEF ApprovalWrites, Put
    <3>2. CASE tx.event.name # "ApprovalForAll"
      BY <1>1, <3>2 DEF ApprovalWrites
    <3> QED
      BY <3>1, <3>2
  <2>3. world[k] # Absent => world[k] \in BOOLEAN
    BY <1>2 DEF TypeOK
  <2> QED
    BY <1>1, <1>4, <2>1, <2>2, <2>3
<1>5. ASSUME NEW k \in OptionKeys
      PROVE  world'[k] \in Option \union {Absent}
  <2>1. k \in Key
    BY KindFacts
  <2>2. k \in DOMAIN tx.writes => tx.writes[k] \in Option \union {Absent}
    BY <1>1 DEF OptionsWritten
  <2>3. world[k] \in Option \union {Absent}
    BY <1>2 DEF TypeOK
  <2> QED
    BY <1>1, <2>1, <2>2, <2>3
<1>6. \A c \in Client, t \in Token : Typed(world', c, t)
  BY <1>3, KindFacts DEF Typed, Account
<1> QED
  BY <1>3, <1>4, <1>5, <1>6

\* A commit adds to every balance what its event says that the account received,
\* and takes what it says that the account paid.
LEMMA CommitBalance ==
    ASSUME IInv, NEW id \in TxId, CommitValid(id), NEW c \in Client, NEW t \in Token
    PROVE  /\ BalanceIn(world, c, t) \in Nat /\ BalanceIn(world', c, t) \in Nat
           /\ BalanceIn(world', c, t) + Paid(pool[id], c, t)
                = BalanceIn(world, c, t) + Received(pool[id], c, t)
<1> DEFINE tx == pool[id]
           R == Received(tx, c, t)
           P == Paid(tx, c, t)
<1>1. /\ \A k \in RangeKeys(c, t) :
            world'[k] = IF k \in DOMAIN tx.writes THEN tx.writes[k] ELSE world[k]
      /\ \A k \in DOMAIN tx.reads : tx.reads[k].value = world[k]
      /\ BalanceWrites(tx) /\ R \in Nat /\ P \in Nat
  <2>1. RangeKeys(c, t) \subseteq Key
    BY RangeFacts, KindFacts
  <2> QED
    BY <2>1, CommitFacts, FlowFacts DEF Simulated
<1>2. Typed(world, c, t) /\ Typed(world', c, t)
  BY WorldTyped, CommitKinds DEF IInv
<1>3. BalanceIn(world, c, t) \in Nat /\ BalanceIn(world', c, t) \in Nat
  BY <1>2, BalanceNat
<1> HIDE DEF tx, R, P
<1>4. CASE Untouched(tx, c, t)
  <2>1. \A k \in RangeKeys(c, t) : world'[k] = world[k]
    BY <1>1, <1>4 DEF Untouched
  <2>2. BalanceIn(world', c, t) = BalanceIn(world, c, t)
    BY <1>2, <2>1, BalanceSame
  <2>3. R = 0 /\ P = 0
    BY <1>4 DEF Untouched, R, P
  <2> QED
    BY <1>3, <2>2, <2>3 DEF R, P, tx
<1>5. CASE Deposited(tx, c, t)
  <2>1. PICK s \in Client :
           LET k == BalanceKey(c, t, s) IN
           /\ RangeKeys(c, t) \cap DOMAIN tx.writes = {k}
           /\ k \in DOMAIN tx.reads
           /\ tx.writes[k] = Value(tx.reads[k].value) + R
           /\ P = 0
    BY <1>5 DEF Deposited, R, P
  <2> DEFINE k == BalanceKey(c, t, s)
  <2>2. k \in RangeKeys(c, t) /\ k \in DOMAIN tx.writes /\ k \in BalanceKeys
    BY <2>1, RangeFacts
  <2>3. world'[k] = Value(world[k]) + R
    BY <1>1, <2>1, <2>2
  <2>4. \A j \in RangeKeys(c, t) \ {k} : world'[j] = world[j]
    BY <1>1, <2>1
  <2>5. Value(world[k]) \in Nat
    BY <1>2, ValueFacts DEF Typed
  <2>6. Value(world'[k]) = Value(world[k]) + R
    <3>1. \A x, y \in Nat : x + y \in Nat
      OBVIOUS
    <3>2. world'[k] \in Nat
      BY <1>1, <2>3, <2>5, <3>1
    <3>3. Value(world'[k]) = world'[k]
      BY <3>2, ValueFacts DEF Value
    <3> QED
      BY <2>3, <3>3
  <2>7. R \in Int
    BY <1>1
  <2>8. BalanceIn(world', c, t) = BalanceIn(world, c, t) + R
    <3>1. BalanceIn(world', c, t) + Value(world[k]) = BalanceIn(world, c, t) + Value(world'[k])
      BY <1>2, <2>4, BalanceBut
    <3>2. \A a, b, x, y, r \in Int : y = x + r /\ a + x = b + y => a = b + r
      OBVIOUS
    <3>3. Value(world'[k]) \in Int
      BY <1>2, ValueFacts DEF Typed
    <3> HIDE DEF k
    <3> QED
      BY <1>3, <2>5, <2>6, <2>7, <3>1, <3>2, <3>3
  <2>9. \A x \in Nat : x + 0 = x
    OBVIOUS
  <2> QED
    BY <1>3, <2>1, <2>8, <2>9 DEF R, P, tx
<1>6. CASE Withdrawn(tx, c, t)
  <2>1. /\ RangeKeys(c, t) \subseteq DOMAIN tx.reads
        /\ R = 0
        /\ BalanceIn(MadeBy(tx), c, t) + P = BalanceIn(FoundBy(tx), c, t)
    BY <1>6 DEF Withdrawn, R, P
  <2>2. \A k \in RangeKeys(c, t) : k \in Key
    BY RangeFacts, KindFacts
  <2>3. \A k \in RangeKeys(c, t) : FoundBy(tx)[k] = world[k]
    BY <1>1, <2>1, <2>2 DEF FoundBy
  <2>4. \A k \in RangeKeys(c, t) : MadeBy(tx)[k] = world'[k]
    BY <1>1, <2>1, <2>2 DEF MadeBy
  <2>5. /\ BalanceIn(FoundBy(tx), c, t) = BalanceIn(world, c, t)
        /\ BalanceIn(MadeBy(tx), c, t) = BalanceIn(world', c, t)
    BY <1>2, <2>3, <2>4, BalanceSame
  <2>6. \A x \in Nat : x + 0 = x
    OBVIOUS
  <2> QED
    BY <1>3, <2>1, <2>5, <2>6 DEF R, P, tx
<1> QED
  BY <1>1, <1>3, <1>4, <1>5, <1>6 DEF BalanceWrites, tx

\* Until there is a name every commit is of an Initialize, and none is later.
LEMMA CommitOption ==
    ASSUME IInv, NEW id \in TxId, CommitValid(id)
    PROVE  /\ Initialized => /\ NameKey \notin DOMAIN pool[id].writes
                             /\ OptionKey("symbol") \notin DOMAIN pool[id].writes
           /\ ~Initialized => DOMAIN pool[id].writes = {NameKey, OptionKey("symbol")}
           /\ Initialized => Initialized'
<1> DEFINE tx == pool[id]
<1>1. OptionsWritten(tx) /\ \A k \in DOMAIN tx.reads : tx.reads[k].value = world[k]
  BY CommitFacts DEF Simulated
<1>2. world'[NameKey] = IF NameKey \in DOMAIN tx.writes THEN tx.writes[NameKey] ELSE world[NameKey]
  BY CommitFacts, KindFacts
<1> HIDE DEF tx
<1>3. tx.reads[NameKey].value = world[NameKey]
  BY <1>1 DEF OptionsWritten
<1>4. /\ Initialized => NameKey \notin DOMAIN tx.writes /\ OptionKey("symbol") \notin DOMAIN tx.writes
      /\ ~Initialized => DOMAIN tx.writes = {NameKey, OptionKey("symbol")}
  BY <1>1, <1>3 DEF OptionsWritten, Initialized
<1>5. Initialized => Initialized'
  BY <1>2, <1>4 DEF Initialized
<1> QED
  BY <1>4, <1>5 DEF tx

\* A commit does to the observer's balances what it does to the world state.
LEMMA CommitObserved ==
    ASSUME IInv, NEW id \in TxId, Commit(id)
    PROVE  /\ seenBalance' \in [Client -> [Token -> Int]]
           /\ seenOperators' \subseteq Client \X Client
           /\ ObserverAgrees'
<1> DEFINE tx == pool[id]
<1>1. CommitValid(id) /\ Observe(tx.event)
  BY DEF Commit
<1>2. /\ seenBalance \in [Client -> [Token -> Int]]
      /\ seenOperators \subseteq Client \X Client /\ ObserverAgrees
  BY DEF IInv, TypeOK
<1>3. Simulated(tx)
  BY <1>1, CommitFacts
<1>4. \A k \in Key : world'[k] = IF k \in DOMAIN tx.writes THEN tx.writes[k] ELSE world[k]
  BY <1>1, CommitFacts
<1>5. ASSUME NEW c \in Client, NEW t \in Token
      PROVE  /\ Received(tx, c, t) \in Nat /\ Paid(tx, c, t) \in Nat
             /\ seenBalance[c][t] \in Int
             /\ Balance(c, t)' = (seenBalance[c][t] + Received(tx, c, t)) - Paid(tx, c, t)
  <2>1. Received(tx, c, t) \in Nat /\ Paid(tx, c, t) \in Nat
    BY <1>3, FlowFacts
  <2>2. seenBalance[c][t] \in Int
    BY <1>2
  <2>3. seenBalance[c][t] = BalanceIn(world, c, t)
    BY <1>2, BalanceFacts DEF ObserverAgrees
  <2>4. /\ BalanceIn(world, c, t) \in Nat /\ BalanceIn(world', c, t) \in Nat
        /\ BalanceIn(world', c, t) + Paid(tx, c, t)
             = BalanceIn(world, c, t) + Received(tx, c, t)
    BY <1>1, CommitBalance
  <2>5. \A x, y, p, r \in Nat : y + p = x + r => y = (x + r) - p
    OBVIOUS
  <2>6. BalanceIn(world', c, t) = (BalanceIn(world, c, t) + Received(tx, c, t)) - Paid(tx, c, t)
    <3> HIDE DEF tx
    <3> QED
      BY <2>1, <2>4, <2>5
  <2> QED
    BY <2>1, <2>2, <2>3, <2>6, BalanceNext
<1> HIDE DEF tx
<1>6. CASE tx.event.name = "Transfer"
  <2>1. seenBalance' = [c \in Client |-> [t \in Token |->
                          seenBalance[c][t] + Share(tx.event.payments, c, t)
                            - IF c = tx.event.from THEN Need(tx.event.payments, t) ELSE 0]]
    BY <1>1, <1>6 DEF Observe
  <2>2. \A c, t : /\ Received(tx, c, t) = Share(tx.event.payments, c, t)
                  /\ Paid(tx, c, t) = IF c = tx.event.from THEN Need(tx.event.payments, t) ELSE 0
    BY <1>6 DEF Received, Paid
  <2>3. \A c \in Client, t \in Token :
           seenBalance'[c][t] = (seenBalance[c][t] + Received(tx, c, t)) - Paid(tx, c, t)
    <3> SUFFICES ASSUME NEW c \in Client, NEW t \in Token
                 PROVE  seenBalance'[c][t]
                          = (seenBalance[c][t] + Received(tx, c, t)) - Paid(tx, c, t)
      OBVIOUS
    <3>1. seenBalance'[c][t]
            = seenBalance[c][t] + (Share(tx.event.payments, c, t)
                - IF c = tx.event.from THEN Need(tx.event.payments, t) ELSE 0)
      BY <2>1, Zenon
    <3>2. /\ Received(tx, c, t) = Share(tx.event.payments, c, t)
          /\ Paid(tx, c, t) = IF c = tx.event.from THEN Need(tx.event.payments, t) ELSE 0
      BY <2>2
    <3>3. seenBalance'[c][t] = seenBalance[c][t] + (Received(tx, c, t) - Paid(tx, c, t))
      BY <3>1, <3>2, Zenon
    <3>4. \A x \in Int, r, p \in Nat : x + (r - p) = (x + r) - p
      OBVIOUS
    <3> QED
      BY <1>5, <3>3, <3>4
  <2>4. \A c \in Client, t \in Token : seenBalance'[c][t] = Balance(c, t)'
    BY <1>5, <2>3
  <2>5. \A c \in Client, t \in Token : seenBalance'[c][t] \in Int
    <3>1. \A x \in Int, r, p \in Nat : (x + r) - p \in Int
      OBVIOUS
    <3> QED
      BY <1>5, <2>3, <3>1
  <2>6. seenBalance' \in [Client -> [Token -> Int]]
    <3>1. seenBalance' = [c \in Client |-> [t \in Token |-> seenBalance'[c][t]]]
      BY <2>1, Zenon
    <3> QED
      BY <2>5, <3>1
  <2>7. seenOperators' = seenOperators
    BY <1>1, <1>6 DEF Observe
  <2>8. \A c, op \in Client : IsApprovedForAll(c, op)' <=> IsApprovedForAll(c, op)
    <3>1. ApprovalKeys \cap DOMAIN tx.writes = {}
      BY <1>3, <1>6 DEF Simulated, ApprovalWrites
    <3> QED
      BY <1>4, <3>1, KindFacts DEF IsApprovedForAll
  <2> QED
    BY <1>2, <2>4, <2>6, <2>7, <2>8 DEF ObserverAgrees
<1>7. CASE tx.event.name # "Transfer"
  <2>1. seenBalance' = seenBalance
    BY <1>1, <1>7 DEF Observe
  <2>2. \A c \in Client, t \in Token : seenBalance'[c][t] = Balance(c, t)'
    <3>1. \A c, t : Received(tx, c, t) = 0 /\ Paid(tx, c, t) = 0
      BY <1>7 DEF Received, Paid
    <3>2. \A x \in Int : (x + 0) - 0 = x
      OBVIOUS
    <3> QED
      BY <1>5, <2>1, <3>1, <3>2
  <2>3. CASE tx.event.name = "ApprovalForAll"
    <3> DEFINE o == tx.event.owner
               q == tx.event.operator
    <3>1. /\ o \in Client /\ q \in Client /\ tx.event.approved \in BOOLEAN
          /\ tx.writes = Put(ApprovalKey(o, q), tx.event.approved)
      BY <1>3, <2>3 DEF Simulated, ApprovalWrites
    <3>2. seenOperators' = IF tx.event.approved THEN seenOperators \union {<<o, q>>}
                           ELSE seenOperators \ {<<o, q>>}
      BY <1>1, <2>3 DEF Observe
    <3> HIDE DEF o, q
    <3>3. ASSUME NEW c \in Client, NEW op \in Client
          PROVE  <<c, op>> \in seenOperators' <=> IsApprovedForAll(c, op)'
      <4>1. <<c, op>> \in seenOperators <=> IsApprovedForAll(c, op)
        BY <1>2 DEF ObserverAgrees
      <4>2. ApprovalKey(c, op) \in Key
        BY KindFacts
      <4>3. CASE c = o /\ op = q
        <5>1. world'[ApprovalKey(c, op)] = tx.event.approved
          BY <1>4, <3>1, <4>2, <4>3 DEF Put
        <5>2. <<c, op>> \in seenOperators' <=> tx.event.approved
          BY <3>2, <4>3
        <5> QED
          BY <3>1, <5>1, <5>2 DEF IsApprovedForAll
      <4>4. CASE ~(c = o /\ op = q)
        <5>1. ApprovalKey(c, op) # ApprovalKey(o, q) /\ <<c, op>> # <<o, q>>
          BY <4>4, KeyFacts
        <5>2. world'[ApprovalKey(c, op)] = world[ApprovalKey(c, op)]
          BY <1>4, <3>1, <4>2, <5>1 DEF Put
        <5>3. <<c, op>> \in seenOperators' <=> <<c, op>> \in seenOperators
          BY <3>2, <5>1
        <5> QED
          BY <4>1, <5>2, <5>3 DEF IsApprovedForAll
      <4> QED
        BY <4>3, <4>4
    <3>4. seenOperators' \subseteq Client \X Client
      BY <1>2, <3>1, <3>2
    <3> QED
      BY <1>2, <2>1, <2>2, <3>3, <3>4 DEF ObserverAgrees
  <2>4. CASE tx.event.name # "ApprovalForAll"
    <3>1. seenOperators' = seenOperators
      BY <1>1, <2>4 DEF Observe
    <3>2. ApprovalKeys \cap DOMAIN tx.writes = {}
      BY <1>3, <2>4 DEF Simulated, ApprovalWrites
    <3>3. \A c, op \in Client : IsApprovedForAll(c, op)' <=> IsApprovedForAll(c, op)
      BY <1>4, <3>2, KindFacts DEF IsApprovedForAll
    <3> QED
      BY <1>2, <2>1, <2>2, <3>1, <3>3 DEF ObserverAgrees
  <2> QED
    BY <2>3, <2>4
<1> QED
  BY <1>6, <1>7

\* A commit preserves the invariant.
LEMMA CommitInv ==
    ASSUME IInv, NEW id \in TxId, Commit(id)
    PROVE  IInv'
<1> DEFINE W == pool[id].writes
<1>0. CommitValid(id)
  BY DEF Commit
<1>1. /\ DOMAIN world' = Key /\ version' \in [Key -> 0..height'] /\ DOMAIN pool' = TxId
      /\ \A k \in Key : world'[k] = IF k \in DOMAIN W THEN W[k] ELSE world[k]
      /\ \A k \in Key : version'[k] = IF k \notin DOMAIN W THEN version[k]
                                      ELSE IF W[k] = Absent THEN 0 ELSE height'
      /\ \A j \in InFlight' : j \in InFlight /\ pool'[j] = pool[j]
  BY <1>0, CommitFacts, Heights
<1>2. \A k \in Key : version[k] \in 0..height /\ (version[k] = 0 <=> world[k] = Absent)
  BY DEF IInv, LedgerOK
<1> HIDE DEF W
<1>3. LedgerOK'
  <2>1. \A k \in Key : version'[k] = 0 <=> world'[k] = Absent
    BY <1>0, <1>1, <1>2, Heights
  <2> QED
    BY <1>1, <2>1 DEF LedgerOK
<1>4. ASSUME NEW j \in InFlight'
      PROVE  ReadsOK(pool[j])' /\ Simulated(pool'[j])
  <2>1. /\ pool'[j] = pool[j] /\ ReadsOK(pool[j]) /\ Simulated(pool[j])
        /\ DOMAIN pool[j].reads \subseteq Key
    BY <1>1 DEF IInv, TypeOK
  <2>2. ASSUME NEW k \in DOMAIN pool[j].reads
        PROVE  LET r == pool[j].reads[k] IN
               /\ r.version \in 0..height'
               /\ r.version = 0 <=> r.value = Absent
               /\ r.version = version'[k] => r.value = world'[k]
    <3> DEFINE r == pool[j].reads[k]
    <3>1. /\ k \in Key /\ r.version \in 0..height
          /\ r.version = 0 <=> r.value = Absent
          /\ r.version = version[k] => r.value = world[k]
      BY <2>1 DEF ReadsOK
    <3> HIDE DEF r
    <3>2. r.version \in 0..height' /\ r.version # height'
      BY <1>0, <3>1, Heights
    <3>3. r.version = version'[k] => r.value = world'[k]
      BY <1>1, <3>1, <3>2
    <3> QED
      BY <3>1, <3>2, <3>3 DEF r
  <2> QED
    BY <2>1, <2>2 DEF ReadsOK
<1>5. \A j \in InFlight' : DOMAIN pool'[j].reads \subseteq Key /\ DOMAIN pool'[j].writes \subseteq Key
  BY <1>4 DEF Simulated
<1>6. TypeOK'
  <2>1. /\ \A k \in BalanceKeys :
              world'[k] # Absent => world'[k] \in 0..MaxInt /\ k[2][1] # Zero
        /\ \A k \in ApprovalKeys : world'[k] # Absent => world'[k] \in BOOLEAN
        /\ \A k \in OptionKeys : world'[k] \in Option \union {Absent}
    BY <1>0, CommitKinds
  <2>2. height' \in 0..MaxHeight
    BY <1>0, Heights
  <2>3. seenBalance' \in [Client -> [Token -> Int]] /\ seenOperators' \subseteq Client \X Client
    BY CommitObserved
  <2> QED
    BY <1>5, <2>1, <2>2, <2>3 DEF TypeOK
<1>7. ObserverAgrees'
  BY CommitObserved
<1>8. EmptyBefore'
  <2> SUFFICES ASSUME ~Initialized', NEW k \in Key, world'[k] # Absent
               PROVE  k = OptionKey("symbol")
    BY DEF EmptyBefore
  <2>1. ~Initialized /\ DOMAIN W = {NameKey, OptionKey("symbol")}
    BY <1>0, CommitOption DEF W
  <2>2. k # NameKey
    BY DEF Initialized
  <2>3. k \notin DOMAIN W => world[k] # Absent
    BY <1>1
  <2> QED
    BY <2>1, <2>2, <2>3 DEF IInv, EmptyBefore
<1> QED
  BY <1>3, <1>4, <1>6, <1>7, <1>8 DEF IInv

-----------------------------------------------------------------------------
(* The theorems.                                                           *)

\* The empty ledger satisfies the invariant.
LEMMA InitInv == Init => IInv
<1> SUFFICES ASSUME Init PROVE IInv
  OBVIOUS
<1>1. /\ world = [k \in Key |-> Absent] /\ version = [k \in Key |-> 0]
      /\ height = 0 /\ pool = [id \in TxId |-> Idle] /\ InFlight = {}
      /\ seenBalance = [c \in Client |-> [t \in Token |-> 0]] /\ seenOperators = {}
  BY DEF Init, LedgerInit, InFlight
<1>2. height \in 0..MaxHeight /\ 0 \in 0..height
  BY <1>1, MaxHeightAssumption
<1>3. LedgerOK /\ EmptyBefore
  BY <1>1, <1>2 DEF LedgerOK, EmptyBefore
<1>4. \A k \in Key : world[k] = Absent
  BY <1>1
<1>5. TypeOK
  <2>1. \A k \in BalanceKeys \union ApprovalKeys \union OptionKeys : world[k] = Absent
    BY <1>4, KindFacts
  <2>2. seenBalance \in [Client -> [Token -> Int]]
    BY <1>1
  <2> QED
    BY <1>1, <1>2, <2>1, <2>2 DEF TypeOK
<1>6. ObserverAgrees
  <2>1. ASSUME NEW c \in Client, NEW t \in Token
        PROVE  seenBalance[c][t] = Balance(c, t)
    <3>1. \A i \in 1..Len(KeyOrder) : PartsIn(world, c, t)[i] = 0
      <4>1. \A s \in Client : world[BalanceKey(c, t, s)] = Absent
        BY <1>4, RangeFacts, KindFacts
      <4> QED
        BY <4>1, BalanceFacts, OrderFacts, ValueFacts
    <3>2. BalanceIn(world, c, t) = 0
      BY <3>1, BalanceFacts, OrderFacts, SumZero
    <3> QED
      BY <1>1, <3>2, BalanceFacts
  <2>2. \A c, op \in Client : ~IsApprovedForAll(c, op)
    <3>1. \A c, op \in Client : world[ApprovalKey(c, op)] = Absent
      BY <1>4, KindFacts
    <3> QED
      BY <3>1, ValueFacts DEF IsApprovedForAll
  <2> QED
    BY <1>1, <2>1, <2>2 DEF ObserverAgrees
<1> QED
  BY <1>1, <1>3, <1>5, <1>6 DEF IInv

\* Every simulation preserves the invariant.
LEMMA SimulateInv ==
    ASSUME IInv, UNCHANGED observer, NEW id \in TxId, Simulate(id)
    PROVE  IInv'
<1>1. PICK sender \in Client :
        \/ \E name, symbol \in Option : Initialize(id, sender, name, symbol)
        \/ \E a \in Account :
              \/ \E t \in Token, n \in Amount : Mint(id, sender, a, t, n)
              \/ \E t \in Token, n \in Amount : Burn(id, sender, a, t, n)
              \/ \E batch \in BoundedSeq(Item, MaxBatch) : MintBatch(id, sender, a, batch)
              \/ \E batch \in BoundedSeq(Item, MaxBatch) : BurnBatch(id, sender, a, batch)
        \/ \E holder \in Client :
              \/ \E to \in Account, t \in Token, n \in Amount :
                    TransferFrom(id, sender, holder, to, t, n)
              \/ \E to \in Account, batch \in BoundedSeq(Item, MaxBatch) :
                    BatchTransferFrom(id, sender, holder, to, batch)
              \/ \E p \in BoundedSeq(Payment, MaxBatch) :
                    BatchTransferFromMultiRecipient(id, sender, holder, p)
        \/ \E operator \in Client, approved \in BOOLEAN :
              SetApprovalForAll(id, sender, operator, approved)
        \/ \E uri \in Option : SetURI(id, sender, uri)
        \/ \E t \in Token : BroadcastTokenExistance(id, sender, t)
  BY DEF Simulate
<1>2. ASSUME NEW a \in Account, NEW batch, \E m \in Nat : batch \in [1..m -> Item],
             MintBatch(id, sender, a, batch) \/ BurnBatch(id, sender, a, batch)
      PROVE  IInv'
  BY <1>2, MintBatchInv, BurnBatchInv
<1>3. ASSUME NEW a \in Account, NEW t \in Token, NEW n \in Amount,
             Mint(id, sender, a, t, n) \/ Burn(id, sender, a, t, n)
      PROVE  IInv'
  BY <1>2, <1>3, BatchFacts DEF Mint, Burn
<1>4. ASSUME NEW a \in Account, NEW batch \in BoundedSeq(Item, MaxBatch),
             MintBatch(id, sender, a, batch) \/ BurnBatch(id, sender, a, batch)
      PROVE  IInv'
  BY <1>2, <1>4, BatchFacts
<1>5. ASSUME NEW holder \in Client, NEW to \in Account, NEW batch,
             \E m \in Nat : batch \in [1..m -> Item],
             BatchTransferFrom(id, sender, holder, to, batch)
      PROVE  IInv'
  BY <1>5, ToFacts, TransferInv DEF BatchTransferFrom
<1>6. ASSUME NEW holder \in Client, NEW to \in Account, NEW t \in Token, NEW n \in Amount,
             TransferFrom(id, sender, holder, to, t, n)
      PROVE  IInv'
  BY <1>5, <1>6, BatchFacts DEF TransferFrom
<1>7. ASSUME NEW holder \in Client, NEW to \in Account,
             NEW batch \in BoundedSeq(Item, MaxBatch),
             BatchTransferFrom(id, sender, holder, to, batch)
      PROVE  IInv'
  BY <1>5, <1>7, BatchFacts
<1>8. ASSUME NEW holder \in Client, NEW p \in BoundedSeq(Payment, MaxBatch),
             BatchTransferFromMultiRecipient(id, sender, holder, p)
      PROVE  IInv'
  BY <1>8, BatchFacts, TransferInv
<1> QED
  BY <1>1, <1>3, <1>4, <1>6, <1>7, <1>8, InitializeInv, SetApprovalInv, SetURIInv, BroadcastInv

\* The inductive invariant: a transaction in flight makes of the balances it read
\* what its event says, those are the ledger's while their versions are, and the
\* observer who believes the events believes the ledger.
THEOREM Inductive == Spec => []IInv
<1>1. IInv /\ [Next]_vars => IInv'
  <2> SUFFICES ASSUME IInv, [Next]_vars PROVE IInv'
    OBVIOUS
  <2>1. ASSUME NEW id \in TxId, Simulate(id), UNCHANGED observer
        PROVE  IInv'
    BY <2>1, SimulateInv
  <2>2. ASSUME NEW id \in TxId, Commit(id)
        PROVE  IInv'
    BY <2>2, CommitInv
  <2>3. ASSUME NEW id \in TxId, MarkInvalid(id) \/ Lose(id), UNCHANGED observer
        PROVE  IInv'
    BY <2>3, DroppedInv DEF MarkInvalid, Lose
  <2>4. CASE UNCHANGED vars
    <3>1. UNCHANGED world /\ UNCHANGED observer
      BY <2>4 DEF vars, observer
    <3>2. TypeOK' /\ LedgerOK' /\ EmptyBefore'
      BY <2>4 DEF vars, IInv, TypeOK, LedgerOK, EmptyBefore, Initialized, InFlight
    <3>3. \A id \in InFlight' : ReadsOK(pool[id])' /\ Simulated(pool'[id])
      BY <2>4 DEF vars, IInv, ReadsOK, InFlight
    <3>4. ObserverAgrees'
      BY <3>1, ObserverStays DEF IInv
    <3> QED
      BY <3>2, <3>3, <3>4 DEF IInv
  <2> QED
    BY <2>1, <2>2, <2>3, <2>4 DEF Next
<1> QED
  BY <1>1, InitInv, PTL DEF Spec

\* Every key holds a value of its kind, and no part belongs to "0x0".
THEOREM TypeCorrect == Spec => []TypeOK
<1>1. IInv => TypeOK
  BY DEF IInv
<1> QED
  BY <1>1, Inductive, PTL

\* Adding up the events in commit order gives every balance and every approval.
THEOREM ObserverCorrect == Spec => []ObserverAgrees
<1>1. IInv => ObserverAgrees
  BY DEF IInv
<1> QED
  BY <1>1, Inductive, PTL

\* A split balance is spendable: what the loop of removeBalance collects is never
\* more than the balance, and it stops as soon as it has enough.  If the balance
\* itself is too large for a uint64, the first part that is not 0 can be paid.
THEOREM Spendable == Spec => []SplitBalanceIsSpendable
<1>1. TypeOK => SplitBalanceIsSpendable
  <2> SUFFICES ASSUME TypeOK, NEW c \in Client, NEW t \in Token
               PROVE  IF Fits(Balance(c, t))
                      THEN \A n \in 1..Balance(c, t) : CanRemove(c, t, n)
                      ELSE \E n \in 1..MaxInt : CanRemove(c, t, n)
    BY DEF SplitBalanceIsSpendable
  <2> DEFINE N == Len(KeyOrder)
             f == PartsIn(world, c, t)
             C(n) == Collected(c, t, n)
             total == Balance(c, t)
  <2>1. /\ N \in Nat /\ MaxInt \in Nat
        /\ \A n \in 0..N : C(n) \in Nat /\ C(n) = SumFunctionOnSet(f, 1..n)
        /\ \A m, n \in 0..N : m <= n => C(m) <= C(n)
        /\ C(N) = total /\ total \in Nat
    <3>1. N \in Nat /\ N \in 0..N
      BY OrderFacts
    <3> QED
      BY <3>1, CollectedFacts, ValueFacts
  <2>2. \A i \in 1..N : f[i] \in Nat /\ f[i] \in Int /\ f[i] <= MaxInt
    BY WorldTyped, BalanceNat
  <2>3. ASSUME NEW n \in 1..total, Fits(total)
        PROVE  CanRemove(c, t, n)
    <3> DEFINE s == Seen(c, t, n)
               own == BalanceKey(c, t, c)
               r == Remainder(c, t, n)
    <3>1. n \in Nat /\ n <= total /\ total <= MaxInt
      BY <2>1, <2>3 DEF Fits
    <3>2. s \in 0..N /\ (C(s) >= n \/ s = N)
      BY <3>1, SeenFacts
    <3>3. C(s) \in Nat /\ C(s) <= total /\ C(s) >= n
      <4>1. s <= N /\ N \in 0..N
        BY <2>1, <3>2
      <4>2. C(s) \in Nat /\ C(s) <= total
        BY <2>1, <3>2, <4>1
      <4>3. s = N => C(s) = total
        BY <2>1
      <4> HIDE DEF C, s, total
      <4> QED
        BY <2>1, <3>1, <3>2, <4>2, <4>3
    <3>4. own \in SeenKeys(c, t, n) \/ (Part(c, t, c) \in Nat /\ C(s) + Part(c, t, c) <= total)
      <4>1. PICK j \in 1..N : KeyOrder[j] = c
        BY OrderFacts
      <4>2. Part(c, t, c) = f[j]
        BY <4>1, BalanceFacts DEF Part, Value
      <4>3. CASE j <= s /\ world[own] # Absent
        <5>1. j \in 1..s
          BY <3>2, <4>3
        <5>2. own \in RangeKeys(c, t)
          BY RangeFacts
        <5> QED
          BY <4>1, <4>3, <5>1, <5>2 DEF SeenKeys
      <4>4. CASE world[own] = Absent
        <5>1. Part(c, t, c) = 0
          BY <4>4 DEF Part
        <5>2. \A x \in Nat : x + 0 = x
          OBVIOUS
        <5> HIDE DEF C, s, total
        <5> QED
          BY <3>3, <5>1, <5>2
      <4>5. CASE ~(j <= s)
        <5> DEFINE A == 1..s
                   L == 1..N
        <5>1. A \subseteq L /\ j \notin A /\ A \union {j} \in SUBSET L
          BY <2>1, <3>2, <4>1, <4>5
        <5>2. IsFiniteSet(L) /\ IsFiniteSet(A)
          BY <5>1, OrderFacts, FS_Subset
        <5>3. \A i \in L : f[i] \in Nat /\ f[i] \in Int
          BY <2>2
        <5>4. C(s) = SumFunctionOnSet(f, A) /\ total = SumFunctionOnSet(f, L)
          BY <2>1, <3>2
        <5>5. f[j] \in Nat /\ f[j] \in Int
          BY <2>2, <4>1
        <5> HIDE DEF A, L, f, C, s, total
        <5>6. SumFunctionOnSet(f, A \union {j}) = SumFunctionOnSet(f, A) + f[j]
          BY <5>1, <5>2, <5>3, <5>5, SumAdd
        <5>7. SumFunctionOnSet(f, A \union {j}) <= SumFunctionOnSet(f, L)
          BY <5>1, <5>2, <5>3, SumPart
        <5> QED
          BY <4>2, <5>4, <5>5, <5>6, <5>7
      <4> QED
        BY <4>3, <4>4, <4>5
    <3>5. Fits(r)
      <4>1. r = (C(s) - n) + IF own \in SeenKeys(c, t, n) THEN 0 ELSE Part(c, t, c)
        BY DEF Remainder
      <4>2. \A x, y, m, p \in Nat : /\ x + p <= y => (x - m) + p <= y
                                    /\ x <= y => (x - m) + 0 <= y
        OBVIOUS
      <4>3. \A x \in Int, y, m \in Nat : x <= y /\ y <= m => x <= m
        OBVIOUS
      <4>4. \A x, m, p \in Nat : (x - m) + p \in Int /\ (x - m) + 0 \in Int
        OBVIOUS
      <4> HIDE DEF C, s, total, own, r
      <4>5. r \in Int /\ r <= total
        <5>1. CASE own \in SeenKeys(c, t, n)
          BY <2>1, <3>1, <3>3, <4>1, <4>2, <4>4, <5>1
        <5>2. CASE own \notin SeenKeys(c, t, n)
          BY <2>1, <3>1, <3>3, <3>4, <4>1, <4>2, <4>4, <5>2
        <5> QED
          BY <5>1, <5>2
      <4> QED
        BY <2>1, <3>1, <4>3, <4>5 DEF Fits
    <3>6. Fits(n) /\ Fits(C(s))
      <4>1. \A x, y, m \in Nat : x <= y /\ y <= m => x <= m
        OBVIOUS
      <4> HIDE DEF C, s, total
      <4> QED
        BY <2>1, <3>1, <3>3, <4>1 DEF Fits
    <3> QED
      BY <3>3, <3>5, <3>6 DEF CanRemove
  <2>4. ASSUME ~Fits(total)
        PROVE  \E n \in 1..MaxInt : CanRemove(c, t, n)
    <3> DEFINE T == {i \in 1..N : f[i] # 0}
    <3>1. T # {}
      <4> SUFFICES ASSUME T = {} PROVE FALSE
        OBVIOUS
      <4>1. \A i \in 1..N : f[i] = 0
        OBVIOUS
      <4>2. total = SumFunctionOnSet(f, 1..N)
        BY <2>1
      <4>3. SumFunctionOnSet(f, 1..N) = 0
        <5> HIDE DEF f
        <5> QED
          BY <4>1, OrderFacts, SumZero
      <4>4. 0 <= MaxInt
        BY <2>1
      <4> HIDE DEF total, f
      <4> QED
        BY <2>4, <4>2, <4>3, <4>4 DEF Fits
    <3>2. T \in SUBSET Nat
      BY <2>1
    <3>3. PICK i \in T : \A m \in T : i <= m
      <4> HIDE DEF T
      <4> QED
        BY <3>1, <3>2, Least
    <3>4. i \in 1..N /\ f[i] # 0 /\ \A m \in 1..N : m < i => f[m] = 0
      <4>1. i \in 1..N /\ f[i] # 0
        OBVIOUS
      <4>2. ASSUME NEW m \in 1..N, m < i PROVE f[m] = 0
        <5>1. ~(i <= m)
          BY <2>1, <4>1, <4>2
        <5> QED
          BY <3>3, <5>1
      <4> QED
        BY <4>1, <4>2
    <3> DEFINE n == f[i]
               s == Seen(c, t, n)
    <3>5. n \in 1..MaxInt /\ n \in Nat /\ n > 0 /\ n <= MaxInt
      BY <2>1, <2>2, <3>4
    <3> HIDE DEF T, f
    <3>6. \A m \in 0..N : m < i => C(m) = 0
      <4> SUFFICES ASSUME NEW m \in 0..N, m < i PROVE C(m) = 0
        OBVIOUS
      <4>1. IsFiniteSet(1..m)
        BY FS_Interval
      <4>2. \A j \in 1..m : f[j] = 0
        BY <2>1, <3>4
      <4>3. SumFunctionOnSet(f, 1..m) = 0
        BY <4>1, <4>2, SumZero
      <4> QED
        BY <2>1, <4>3
    <3>7. C(i) = n
      <4> DEFINE L == 1..i
      <4>1. IsFiniteSet(L) /\ i \in L /\ i \in 0..N
        BY <2>1, <3>4, FS_Interval
      <4>2. f[i] \in Int /\ \A j \in L \ {i} : f[j] = 0
        BY <2>1, <2>2, <3>4
      <4>3. SumFunctionOnSet(f, L) = f[i]
        <5> HIDE DEF L
        <5> QED
          BY <4>1, <4>2, SumOne
      <4> QED
        BY <2>1, <4>1, <4>3
    <3>8. s = i
      <4>1. /\ s \in 0..N /\ (C(s) >= n \/ s = N)
            /\ \A m \in 0..(s - 1) : C(m) < n
        <5> HIDE DEF n
        <5> QED
          BY <3>5, SeenFacts
      <4>2. ~(s < i)
        <5> SUFFICES ASSUME s < i PROVE FALSE
          OBVIOUS
        <5>1. C(s) = 0
          BY <3>6, <4>1
        <5>2. ~(C(s) >= n)
          <6> HIDE DEF C, n, s
          <6> QED
            BY <3>5, <5>1
        <5>3. s # N
          BY <2>1, <3>4, <4>1
        <5> QED
          BY <4>1, <5>2, <5>3
      <4>3. ~(i < s)
        <5> SUFFICES ASSUME i < s PROVE FALSE
          OBVIOUS
        <5>1. i \in 0..(s - 1)
          BY <2>1, <3>4, <4>1
        <5>2. C(i) < n
          BY <4>1, <5>1
        <5> HIDE DEF C, n
        <5> QED
          BY <3>5, <3>7, <5>2
      <4> HIDE DEF s
      <4> QED
        BY <2>1, <3>4, <4>1, <4>2, <4>3
    <3>9. C(s) = n
      BY <3>7, <3>8
    <3> HIDE DEF n, s
    <3>10. CanRemove(c, t, n)
      BY <3>5, <3>9 DEF CanRemove, Fits, s
    <3> QED
      BY <3>5, <3>10
  <2> HIDE DEF total
  <2> QED
    BY <2>3, <2>4 DEF total
<1> QED
  BY <1>1, TypeCorrect, PTL

\* All that a simulation does to the ledger is to put a transaction into the pool.
Joins(id) ==
    /\ pool[id] = Idle /\ \E tx : pool' = [pool EXCEPT ![id] = tx]
    /\ UNCHANGED <<world, version, height>>

LEMMA OnlyJoins == ASSUME NEW id, Simulate(id) PROVE Joins(id)
<1>1. \A sender, K, writes, event : Endorse(id, sender, K, writes, event) => Joins(id)
  BY DEF Endorse, CanEndorse, Joins
<1>2. ASSUME NEW sender \in Client, NEW a, NEW batch,
             \/ MintBatch(id, sender, a, batch)
             \/ BurnBatch(id, sender, a, batch)
             \/ BatchTransferFromMultiRecipient(id, sender, a, batch)
      PROVE  Joins(id)
  BY <1>1, <1>2 DEF MintBatch, BurnBatch, BatchTransferFromMultiRecipient
<1>3. ASSUME NEW sender \in Client, NEW a, NEW t, NEW n,
             Mint(id, sender, a, t, n) \/ Burn(id, sender, a, t, n)
      PROVE  Joins(id)
  BY <1>2, <1>3 DEF Mint, Burn
<1>4. ASSUME NEW sender \in Client, NEW holder, NEW to, NEW batch,
             BatchTransferFrom(id, sender, holder, to, batch)
      PROVE  Joins(id)
  BY <1>2, <1>4 DEF BatchTransferFrom
<1>5. ASSUME NEW sender \in Client, NEW holder, NEW to, NEW t, NEW n,
             TransferFrom(id, sender, holder, to, t, n)
      PROVE  Joins(id)
  BY <1>4, <1>5 DEF TransferFrom
<1>6. ASSUME NEW sender \in Client, NEW x, NEW y,
             \/ Initialize(id, sender, x, y)
             \/ SetApprovalForAll(id, sender, x, y)
             \/ SetURI(id, sender, x)
             \/ BroadcastTokenExistance(id, sender, x)
      PROVE  Joins(id)
  BY <1>1, <1>6 DEF Initialize, SetApprovalForAll, SetURI, BroadcastTokenExistance
<1> QED
  BY <1>2, <1>3, <1>4, <1>5, <1>6 DEF Simulate

\* Only the commit of a valid transaction writes the world state.
LEMMA OnlyCommitWrites ==
    Next => (\E id \in TxId : Commit(id)) \/ UNCHANGED <<world, version>>
  BY OnlyJoins DEF Next, MarkInvalid, Lose, Joins

\* Before there is a name nothing is stored but by Initialize, and afterwards name
\* and symbol are not written again.
THEOREM InitializedAtMostOnce == Spec => InitializedOnce
<1> DEFINE P == /\ Initialized =>
                      \A k \in {"name", "symbol"} : version'[OptionKey(k)] = version[OptionKey(k)]
                /\ ~Initialized => \A k \in Key : world'[k] # Absent =>
                                     k \in {OptionKey("name"), OptionKey("symbol")}
<1>1. IInv /\ [Next]_vars => [P]_vars
  <2> SUFFICES ASSUME IInv, Next PROVE P
    OBVIOUS
  <2>1. CASE UNCHANGED <<world, version>>
    BY <2>1 DEF IInv, EmptyBefore
  <2>2. ASSUME NEW id \in TxId, Commit(id)
        PROVE  P
    <3> DEFINE W == pool[id].writes
    <3>1. /\ \A k \in Key : world'[k] = IF k \in DOMAIN W THEN W[k] ELSE world[k]
          /\ \A k \in Key : k \notin DOMAIN W => version'[k] = version[k]
          /\ Initialized => NameKey \notin DOMAIN W /\ OptionKey("symbol") \notin DOMAIN W
          /\ ~Initialized => DOMAIN W = {NameKey, OptionKey("symbol")}
      BY <2>2, CommitFacts, CommitOption DEF Commit
    <3>2. ~Initialized => \A k \in Key : world[k] # Absent => k = OptionKey("symbol")
      BY DEF IInv, EmptyBefore
    <3> HIDE DEF W
    <3>3. NameKey = OptionKey("name") /\ NameKey \in Key /\ OptionKey("symbol") \in Key
      BY KindFacts DEF NameKey
    <3> QED
      BY <3>1, <3>2, <3>3
  <2> QED
    BY <2>1, <2>2, OnlyCommitWrites
<1>2. Spec => [][P]_vars
  BY <1>1, Inductive, PTL DEF Spec
<1> QED
  BY <1>2 DEF InitializedOnce

-----------------------------------------------------------------------------
(* The refinement: a commit serves the call of its transaction.            *)

\* The accounts add payments up as the contract does.
LEMMA SameSums ==
    /\ \A p, t : Accounts!Need(p, t) = Need(p, t)
    /\ \A p, c, t : Accounts!Share(p, c, t) = Share(p, c, t)
  BY DEF Accounts!Need, Accounts!Share, Need, Share,
         SumFunction, SumFunctionOnSet, FoldFunctionOnSet, MapThenFoldSet,
         Accounts!SumFunction, Accounts!SumFunctionOnSet, Accounts!FoldFunctionOnSet,
         Accounts!MapThenFoldSet

\* Balances and approvals are what the observer believes.
LEMMA Believed == IInv => Balances = seenBalance /\ Approvals = seenOperators
<1> SUFFICES ASSUME IInv PROVE Balances = seenBalance /\ Approvals = seenOperators
  OBVIOUS
<1>1. /\ seenBalance \in [Client -> [Token -> Int]] /\ seenOperators \subseteq Client \X Client
      /\ \A c \in Client, t \in Token : seenBalance[c][t] = Balance(c, t)
      /\ \A c, op \in Client : <<c, op>> \in seenOperators <=> IsApprovedForAll(c, op)
  BY DEF IInv, TypeOK, ObserverAgrees
<1>2. Balances = seenBalance
  <2>1. seenBalance = [c \in Client |-> [t \in Token |-> seenBalance[c][t]]]
    BY <1>1
  <2> QED
    BY <1>1, <2>1 DEF Balances
<1>3. Approvals = seenOperators
  <2>1. Approvals \subseteq Client \X Client
    BY DEF Approvals
  <2>2. \A c, op \in Client : <<c, op>> \in Approvals <=> <<c, op>> \in seenOperators
    BY <1>1 DEF Approvals
  <2> QED
    BY <1>1, <2>1, <2>2
<1> QED
  BY <1>2, <1>3

\* No payments ask for nothing, and others name a recipient.
LEMMA NoPayments ==
    ASSUME NEW p, IsPayments(p)
    PROVE  IF p = <<>> THEN \A c, t : Need(p, t) = 0 /\ Share(p, c, t) = 0
           ELSE \E i \in DOMAIN p : TRUE
<1>1. CASE p = <<>>
  <2>1. DOMAIN p = {}
    BY <1>1
  <2>2. \A c, t : t \notin Tokens(p) /\ <<c, t>> \notin Shares(p)
    BY <2>1 DEF Tokens, Shares
  <2> QED
    BY <1>1, <2>2, PaymentsFacts
<1>2. CASE p # <<>>
  <2>1. PICK m \in Nat : p \in [1..m -> [to : Account, token : Token, amount : Nat]]
    BY DEF IsPayments
  <2>2. m # 0
    <3> SUFFICES ASSUME m = 0 PROVE FALSE
      OBVIOUS
    <3>1. DOMAIN p = {} /\ p = [i \in {} |-> p[i]]
      BY <2>1
    <3>2. p = <<>>
      BY <3>1
    <3> QED
      BY <1>2, <3>2
  <2>3. 1 \in 1..m
    BY <2>1, <2>2
  <2> QED
    BY <1>2, <2>1, <2>3
<1> QED
  BY <1>1, <1>2

\* What the call of a transaction is.
LEMMA CallFacts ==
    ASSUME NEW tx, Simulated(tx)
    PROVE  LET call == CallOf(tx)
               event == tx.event
           IN /\ call.caller = tx.creator
              /\ event.name = "Transfer" =>
                    /\ call.from = event.from /\ call.payments = event.payments
                    /\ IF event.payments = <<>> THEN call.function = "none"
                       ELSE \/ Minting(tx) /\ call.function = "Mint"
                            \/ Burning(tx) /\ call.function = "Burn"
                            \/ Transferring(tx) /\ call.function = "Transfer"
              /\ event.name = "ApprovalForAll" =>
                    /\ call.function = "SetApprovalForAll"
                    /\ call.operator = event.operator /\ call.approved = event.approved
              /\ event.name \notin {"Transfer", "ApprovalForAll"} => call.function = "none"
<1> DEFINE p == tx.event.payments
<1>1. CASE tx.event.name = "Transfer"
  <2>1. /\ CallOf(tx).caller = tx.creator /\ CallOf(tx).function = Movement(tx.event)
        /\ CallOf(tx).from = tx.event.from /\ CallOf(tx).payments = p
    BY <1>1 DEF CallOf
  <2>2. IsPayments(p) /\ (Minting(tx) \/ Burning(tx) \/ Transferring(tx))
    BY <1>1 DEF Simulated, Authorised
  <2>3. CASE p = <<>>
    BY <1>1, <2>1, <2>3 DEF Movement
  <2>4. CASE p # <<>>
    <3>1. \E i \in DOMAIN p : TRUE
      BY <2>2, <2>4, NoPayments
    <3>2. Minting(tx) => Movement(tx.event) = "Mint"
      BY <2>4 DEF Minting, Movement
    <3>3. Burning(tx) => Movement(tx.event) = "Burn"
      BY <2>4, <3>1, ValueFacts DEF Burning, Movement
    <3>4. Transferring(tx) => Movement(tx.event) = "Transfer"
      BY <2>4, ValueFacts DEF Transferring, Movement
    <3> QED
      BY <1>1, <2>1, <2>2, <2>4, <3>2, <3>3, <3>4
  <2> QED
    BY <2>3, <2>4
<1>2. CASE tx.event.name = "ApprovalForAll"
  BY <1>2 DEF CallOf
<1>3. CASE tx.event.name \notin {"Transfer", "ApprovalForAll"}
  BY <1>3 DEF CallOf
<1> QED
  BY <1>1, <1>2, <1>3

\* A commit does what the accounts do for the call of the transaction: what the
\* event says, on the balances and approvals the commit finds.
LEMMA CommitRefines ==
    ASSUME IInv, NEW id \in TxId, Commit(id)
    PROVE  Accounts!Run(CallOf(pool[id]))
<1> DEFINE tx == pool[id]
           a == tx.event.from
           p == tx.event.payments
           call == CallOf(tx)
<1>1. /\ Simulated(tx)
      /\ \A k \in DOMAIN tx.reads : tx.reads[k].value = world[k]
  BY CommitFacts DEF Commit
<1>2. /\ Balances = seenBalance /\ Approvals = seenOperators
      /\ Balances' = seenBalance' /\ Approvals' = seenOperators'
  <2>1. IInv'
    BY CommitInv
  <2>2. (Balances = seenBalance /\ Approvals = seenOperators)'
    BY <2>1, Believed, PTL
  <2> QED
    BY <2>2, Believed
<1>3. Observe(tx.event)
  BY DEF Commit
<1>4. \A c \in Client, t \in Token :
         /\ Balances[c][t] \in Nat /\ Balances'[c][t] \in Nat
         /\ Balances'[c][t] + Paid(tx, c, t) = Balances[c][t] + Received(tx, c, t)
  BY CommitBalance, BalanceFacts, BalanceNext DEF Balances, Commit
<1>5. tx.creator \in Client /\ Authorised(tx) /\ ApprovalWrites(tx)
  BY <1>1 DEF Simulated
<1> HIDE DEF tx
<1>6. CASE tx.event.name = "Transfer"
  <2>1. /\ call.caller = tx.creator /\ call.from = a /\ call.payments = p
        /\ IF p = <<>> THEN call.function = "none"
           ELSE \/ Minting(tx) /\ call.function = "Mint"
                \/ Burning(tx) /\ call.function = "Burn"
                \/ Transferring(tx) /\ call.function = "Transfer"
    BY <1>1, <1>6, CallFacts
  <2> HIDE DEF call
  <2>2. IsPayments(p)
    BY <1>5, <1>6 DEF Authorised
  <2>3. Balances' = [c \in Client |-> [t \in Token |->
                       Balances[c][t] + Share(p, c, t) - IF c = a THEN Need(p, t) ELSE 0]]
    BY <1>2, <1>3, <1>6 DEF Observe
  <2>4. UNCHANGED Approvals
    BY <1>2, <1>3, <1>6 DEF Observe
  <2>5. ASSUME a \in Client, \A i \in DOMAIN p : p[i].to # a
        PROVE  Accounts!Covers(a, p) /\ Accounts!Move({a}, p)
    <3>1. Accounts!Move({a}, p)
      BY <2>3, SameSums DEF Accounts!Move
    <3>2. ASSUME NEW t \in Token PROVE Need(p, t) <= Balances[a][t]
      <4>1. Received(tx, a, t) = 0
        <5>1. <<a, t>> \notin Shares(p)
          BY <2>5 DEF Shares
        <5> QED
          BY <1>6, <2>2, <5>1, PaymentsFacts DEF Received
      <4>2. Paid(tx, a, t) = Need(p, t) /\ Need(p, t) \in Nat
        BY <1>6, <2>2, PaymentsFacts DEF Paid
      <4>3. \A x, y, n \in Nat : y + n = x + 0 => n <= x
        OBVIOUS
      <4> HIDE DEF a, p
      <4> QED
        BY <1>4, <2>5, <4>1, <4>2, <4>3
    <3> QED
      BY <2>5, <3>1, <3>2, SameSums DEF Accounts!Covers
  <2>6. CASE p = <<>>
    <3>1. \A c, t : Need(p, t) = 0 /\ Share(p, c, t) = 0
      BY <2>2, <2>6, NoPayments
    <3>2. \A c \in Client, t \in Token : Balances'[c][t] = Balances[c][t]
      <4>1. \A c \in Client, t \in Token : Paid(tx, c, t) = 0 /\ Received(tx, c, t) = 0
        BY <1>6, <3>1 DEF Paid, Received
      <4>2. \A x, y \in Nat : y + 0 = x + 0 => y = x
        OBVIOUS
      <4> QED
        BY <1>4, <4>1, <4>2
    <3>3. /\ Balances = [c \in Client |-> [t \in Token |-> Balances[c][t]]]
          /\ Balances' = [c \in Client |-> [t \in Token |-> Balances'[c][t]]]
      BY DEF Balances
    <3>4. UNCHANGED Balances
      BY <3>2, <3>3, Zenon
    <3> QED
      BY <2>1, <2>4, <2>6, <3>4 DEF Accounts!Run, call, tx
  <2>7. CASE p # <<>> /\ Minting(tx) /\ call.function = "Mint"
    <3>1. a \notin Client /\ tx.creator \in Minter
      BY <2>7, ValueFacts DEF Minting
    <3>2. Accounts!Move({}, p)
      BY <2>3, <3>1, SameSums DEF Accounts!Move
    <3>3. Accounts!Mint(tx.creator, p)
      BY <2>4, <3>1, <3>2 DEF Accounts!Mint
    <3> QED
      BY <2>1, <2>7, <3>3 DEF Accounts!Run, call, tx
  <2>8. CASE p # <<>> /\ Burning(tx) /\ call.function = "Burn"
    <3>1. a \in Client /\ tx.creator \in Minter /\ \A i \in DOMAIN p : p[i].to # a
      BY <2>8, ValueFacts DEF Burning
    <3>2. Accounts!Burn(tx.creator, a, p)
      BY <2>4, <2>5, <3>1 DEF Accounts!Burn
    <3> QED
      BY <2>1, <2>8, <3>2 DEF Accounts!Run, call, tx
  <2>9. CASE p # <<>> /\ Transferring(tx) /\ call.function = "Transfer"
    <3>1. a \in Client /\ \A i \in DOMAIN p : p[i].to # a
      BY <2>9 DEF Transferring
    <3>2. tx.creator = a \/ <<a, tx.creator>> \in Approvals
      <4>1. tx.creator = a \/ world[ApprovalKey(a, tx.creator)] = TRUE
        BY <1>1, <2>9 DEF Transferring
      <4> QED
        BY <1>5, <3>1, <4>1 DEF Approvals, IsApprovedForAll
    <3>3. Accounts!Transfer(tx.creator, a, p)
      BY <2>4, <2>5, <3>1, <3>2 DEF Accounts!Transfer
    <3> QED
      BY <2>1, <2>9, <3>3 DEF Accounts!Run, call, tx
  <2> QED
    BY <2>1, <2>6, <2>7, <2>8, <2>9
<1>7. CASE tx.event.name # "Transfer"
  <2>1. UNCHANGED Balances
    BY <1>2, <1>3, <1>7 DEF Observe
  <2>2. CASE tx.event.name = "ApprovalForAll"
    <3>1. /\ call.caller = tx.creator /\ call.function = "SetApprovalForAll"
          /\ call.operator = tx.event.operator /\ call.approved = tx.event.approved
      BY <1>1, <2>2, CallFacts
    <3> HIDE DEF call
    <3>2. tx.event.owner = tx.creator
      BY <1>5, <2>2 DEF ApprovalWrites
    <3>3. Accounts!SetApprovalForAll(call.caller, call.operator, call.approved)
      BY <1>2, <1>3, <2>1, <2>2, <3>1, <3>2 DEF Observe, Accounts!SetApprovalForAll
    <3> QED
      BY <3>1, <3>3 DEF Accounts!Run, call, tx
  <2>3. CASE tx.event.name # "ApprovalForAll"
    <3>1. call.function = "none"
      BY <1>1, <1>7, <2>3, CallFacts
    <3> HIDE DEF call
    <3>2. UNCHANGED Approvals
      BY <1>2, <1>3, <2>3 DEF Observe
    <3> QED
      BY <2>1, <3>1, <3>2 DEF Accounts!Run, call, tx
  <2> QED
    BY <2>2, <2>3
<1> QED
  BY <1>6, <1>7

\* A transaction that joins the pool is a call that is made; one that leaves it
\* is served or refused.
LEMMA JoinRefines ==
    ASSUME DOMAIN pool = TxId, NEW id \in TxId, Joins(id)
    PROVE  Accounts!Submit(id) \/ UNCHANGED <<Calls, height>>
<1>1. PICK tx : pool' = [pool EXCEPT ![id] = tx]
  BY DEF Joins
<1>2. CASE tx = Idle
  <2>1. \A j \in TxId : pool'[j] = pool[j]
    BY <1>1, <1>2 DEF Joins
  <2>2. UNCHANGED InFlight
    BY <2>1 DEF InFlight
  <2>3. UNCHANGED Calls
    BY <2>1, <2>2 DEF Calls, CallOf, Movement, InFlight
  <2> QED
    BY <2>3 DEF Joins
<1>3. CASE tx # Idle
  <2>1. /\ id \notin InFlight /\ InFlight' = InFlight \union {id}
        /\ \A j \in InFlight : pool'[j] = pool[j]
    BY <1>1, <1>3 DEF Joins, InFlight
  <2>2. DOMAIN Calls = InFlight /\ DOMAIN Calls' = InFlight'
    BY DEF Calls
  <2>3. \A j \in InFlight : Calls'[j] = Calls[j]
    BY <2>1 DEF Calls, CallOf, Movement
  <2> QED
    BY <2>1, <2>2, <2>3 DEF Joins, Accounts!Submit, Accounts!OthersWait
<1> QED
  BY <1>2, <1>3

LEMMA LeaveRefines ==
    ASSUME DOMAIN pool = TxId, NEW id \in InFlight, pool' = [pool EXCEPT ![id] = Idle]
    PROVE  /\ id \in DOMAIN Calls /\ DOMAIN Calls' = DOMAIN Calls \ {id}
           /\ Accounts!OthersWait(id)
           /\ Calls[id] = CallOf(pool[id])
<1>1. /\ InFlight' = InFlight \ {id}
      /\ \A j \in InFlight' : pool'[j] = pool[j]
  BY DEF InFlight
<1>2. DOMAIN Calls = InFlight /\ DOMAIN Calls' = InFlight'
  BY DEF Calls
<1>3. \A j \in InFlight' : Calls'[j] = Calls[j]
  BY <1>1 DEF Calls, CallOf, Movement
<1>4. Calls[id] = CallOf(pool[id])
  BY DEF Calls
<1> QED
  BY <1>1, <1>2, <1>3, <1>4 DEF Accounts!OthersWait

\* A commit serves the call of its transaction.
LEMMA ServeRefines ==
    ASSUME IInv, NEW id \in TxId, Commit(id)
    PROVE  Accounts!Next
<1>1. id \in InFlight /\ pool' = [pool EXCEPT ![id] = Idle] /\ height' = height + 1
  BY DEF Commit, CommitValid, InFlight
<1>2. /\ id \in DOMAIN Calls /\ DOMAIN Calls' = DOMAIN Calls \ {id}
      /\ Accounts!OthersWait(id)
      /\ Calls[id] = CallOf(pool[id])
  BY <1>1, LeaveRefines DEF IInv, LedgerOK
<1>3. Accounts!Serve(id)
  BY <1>1, <1>2 DEF Accounts!Serve
<1>4. Accounts!Run(Calls[id])
  BY <1>2, CommitRefines
<1> QED
  BY <1>3, <1>4 DEF Accounts!Next

\* A refused or lost transaction is a call that had no effect.
LEMMA RefuseRefines ==
    ASSUME IInv, NEW id \in TxId, MarkInvalid(id) \/ Lose(id)
    PROVE  Accounts!Refuse(id)
<1>1. id \in InFlight /\ pool' = [pool EXCEPT ![id] = Idle] /\ height' = height
  BY DEF MarkInvalid, Lose, InFlight
<1> QED
  BY <1>1, LeaveRefines DEF Accounts!Refuse, IInv, LedgerOK

\* The contract on the ledger, with balances split over keys and any number of
\* transactions in flight, is the accounts: a committed transaction moves exactly
\* what its event says, from an account that covers it then, and its creator is
\* the owner of that account, an operator it approves at the commit, or a minter.
THEOREM Accounting == Spec => AccountsSpec
<1>1. Init => Accounts!Init
  <2> SUFFICES ASSUME Init PROVE Accounts!Init
    OBVIOUS
  <2>1. /\ Balances = [c \in Client |-> [t \in Token |-> 0]] /\ Approvals = {}
    BY InitInv, Believed DEF Init
  <2>2. Accounts!CallsInit
    BY DEF Init, LedgerInit, Calls, InFlight, Accounts!CallsInit
  <2> QED
    BY <2>1, <2>2 DEF Accounts!Init
<1>2. IInv /\ [Next]_vars => [Accounts!Next]_(Accounts!vars)
  <2> SUFFICES ASSUME IInv, [Next]_vars
               PROVE  \/ Accounts!Next
                      \/ UNCHANGED <<Balances, Approvals, Calls, height>>
    BY DEF Accounts!vars
  <2>1. ASSUME UNCHANGED world PROVE UNCHANGED <<Balances, Approvals>>
    <3>1. \A c \in Client, t \in Token : Balance(c, t)' = Balance(c, t)
      BY <2>1, BalanceFacts, BalanceNext
    <3>2. Balances' = Balances
      BY <3>1 DEF Balances
    <3>3. Approvals' = Approvals
      BY <2>1 DEF Approvals, IsApprovedForAll
    <3> QED
      BY <3>2, <3>3
  <2>2. CASE UNCHANGED vars
    BY <2>1, <2>2 DEF vars, Calls, CallOf, Movement, InFlight
  <2>3. ASSUME NEW id \in TxId, Simulate(id)
        PROVE  Accounts!Next \/ UNCHANGED <<Balances, Approvals, Calls, height>>
    BY <2>1, <2>3, OnlyJoins, JoinRefines DEF Joins, Accounts!Next, IInv, LedgerOK
  <2>4. ASSUME NEW id \in TxId, Commit(id) PROVE Accounts!Next
    BY <2>4, ServeRefines
  <2>5. ASSUME NEW id \in TxId, MarkInvalid(id) \/ Lose(id) PROVE Accounts!Next
    BY <2>1, <2>5, RefuseRefines DEF MarkInvalid, Lose, Accounts!Next
  <2> QED
    BY <2>2, <2>3, <2>4, <2>5 DEF Next
<1> QED
  BY <1>1, <1>2, Inductive, PTL DEF Spec, AccountsSpec, Accounts!Spec
=============================================================================
