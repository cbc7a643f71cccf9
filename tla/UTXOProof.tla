------------------------------ MODULE UTXOProof ------------------------------
(***************************************************************************)
(* Proofs about UTXO, for any clients, amounts, number of transactions in  *)
(* flight, length of the transfers and length of the ledger.               *)
(*                                                                         *)
(* The balance of a client is the sum of the UTXOs it owns and the supply  *)
(* the sum of the balances.  Nobody adds them up in the contract: what a   *)
(* commit does to them is proved with sums over finite sets, by induction  *)
(* over the subsets of a finite set.  Transfer adds up with a fold over    *)
(* its lists, which is that sum as long as it fits an int.                 *)
(***************************************************************************)
EXTENDS UTXO, FiniteSetTheorems, TLAPS

-----------------------------------------------------------------------------
(* Sums over finite sets.                                                  *)

\* Induction over the subsets of a finite set, as a fact about a set of sets.
LEMMA SetInduction ==
    ASSUME NEW S, IsFiniteSet(S), NEW P, {} \in P,
           \A T \in SUBSET S, x \in S : T \in P /\ x \notin T => T \union {x} \in P
    PROVE  S \in P
<1> SUFFICES ASSUME S \notin P PROVE FALSE
  OBVIOUS
<1> DEFINE Bad == {T \in SUBSET S : T \notin P}
<1>1. Bad \subseteq FiniteSubsetsOf(S)
  BY FS_Subset DEF FiniteSubsetsOf
<1>2. S \in Bad
  OBVIOUS
<1>3. PICK T \in Bad : \A U \in Bad : <<U, T>> \notin StrictSubsetOrdering(S)
  <2> HIDE DEF Bad
  <2> QED
    BY <1>1, <1>2, FS_StrictSubsetOrderingWellFounded, WFMin
<1>4. T # {} /\ T \in SUBSET S
  OBVIOUS
<1>5. PICK x \in T : TRUE
  BY <1>4
<1>6. T \ {x} \in P
  <2>1. <<T \ {x}, T>> \in StrictSubsetOrdering(S)
    BY <1>4, <1>5 DEF StrictSubsetOrdering
  <2> QED
    BY <1>3, <1>4, <2>1
<1>7. (T \ {x}) \union {x} = T
  BY <1>5
<1> QED
  BY <1>4, <1>5, <1>6, <1>7

\* How SumFunctionOnSet adds: one chosen element first.
Some(s) == CHOOSE x \in s : TRUE
Step(f, g, s) == IF s = {} THEN 0 ELSE f[Some(s)] + g[s \ {Some(s)}]
IsIter(f, S, g) == g = [s \in SUBSET S |-> Step(f, g, s)]
Iter(f, S) == CHOOSE g : IsIter(f, S, g)

\* A sum is the value at the set of the function that is chosen for it.
LEMMA Unfold == \A f, S : SumFunctionOnSet(f, S) = Iter(f, S)[S]
  BY DEF SumFunctionOnSet, FoldFunctionOnSet, MapThenFoldSet, Iter, IsIter, Step, Some

\* The chosen element.
LEMMA SomeFacts == \A s : s # {} => Some(s) \in s
  BY DEF Some

\* Two such functions agree where both are defined.
LEMMA IterUnique ==
    ASSUME NEW f, NEW S, NEW T, NEW g, NEW h, IsIter(f, S, g), IsIter(f, T, h),
           NEW W, IsFiniteSet(W), W \subseteq S, W \subseteq T
    PROVE  g[W] = h[W]
<1> SUFFICES ASSUME g[W] # h[W] PROVE FALSE
  OBVIOUS
<1> DEFINE Bad == {U \in SUBSET W : g[U] # h[U]}
<1>1. Bad \subseteq FiniteSubsetsOf(W)
  BY FS_Subset DEF FiniteSubsetsOf
<1>2. W \in Bad
  OBVIOUS
<1>3. PICK U \in Bad : \A V \in Bad : <<V, U>> \notin StrictSubsetOrdering(W)
  <2> HIDE DEF Bad
  <2> QED
    BY <1>1, <1>2, FS_StrictSubsetOrderingWellFounded, WFMin
<1>4. /\ g[U] = Step(f, g, U) /\ h[U] = Step(f, h, U)
      /\ U \in SUBSET W
  BY DEF IsIter
<1>5. U # {}
  BY <1>4 DEF Step
<1> DEFINE V == U \ {Some(U)}
<1>6. <<V, U>> \in StrictSubsetOrdering(W)
  BY <1>4, <1>5, SomeFacts DEF StrictSubsetOrdering
<1>7. g[V] = h[V]
  BY <1>3, <1>4, <1>6
<1> QED
  BY <1>4, <1>5, <1>7 DEF Step

\* And there is one.
LEMMA IterExists ==
    ASSUME NEW f, NEW S, IsFiniteSet(S)
    PROVE  IsIter(f, S, Iter(f, S))
<1> SUFFICES ASSUME ~IsIter(f, S, Iter(f, S)) PROVE FALSE
  OBVIOUS
<1> DEFINE Bad == {U \in SUBSET S : ~IsIter(f, U, Iter(f, U))}
<1>1. Bad \subseteq FiniteSubsetsOf(S)
  BY FS_Subset DEF FiniteSubsetsOf
<1>2. S \in Bad
  OBVIOUS
<1>3. PICK U \in Bad : \A V \in Bad : <<V, U>> \notin StrictSubsetOrdering(S)
  <2> HIDE DEF Bad
  <2> QED
    BY <1>1, <1>2, FS_StrictSubsetOrderingWellFounded, WFMin
<1>4. U \in SUBSET S /\ IsFiniteSet(U) /\ ~IsIter(f, U, Iter(f, U))
  BY FS_Subset
<1>5. \A V \in SUBSET U : V # U => IsFiniteSet(V) /\ IsIter(f, V, Iter(f, V))
  <2> SUFFICES ASSUME NEW V \in SUBSET U, V # U
               PROVE  IsFiniteSet(V) /\ IsIter(f, V, Iter(f, V))
    OBVIOUS
  <2>1. <<V, U>> \in StrictSubsetOrdering(S)
    BY <1>4 DEF StrictSubsetOrdering
  <2> QED
    BY <1>3, <1>4, <2>1, FS_Subset
<1> DEFINE Value(s) == IF s = {} THEN 0
                       ELSE f[Some(s)] + Iter(f, s \ {Some(s)})[s \ {Some(s)}]
           h == [s \in SUBSET U |-> Value(s)]
<1>6. ASSUME NEW V \in SUBSET U, V # U
      PROVE  h[V] = Iter(f, V)[V]
  <2>1. Iter(f, V)[V] = Step(f, Iter(f, V), V)
    BY <1>5, <1>6 DEF IsIter
  <2>2. CASE V = {}
    BY <2>1, <2>2 DEF Step
  <2>3. CASE V # {}
    <3> DEFINE Y == V \ {Some(V)}
    <3>1. Y \in SUBSET U /\ Y # U /\ Y \subseteq V
      BY <1>6, <2>3, SomeFacts
    <3>2. Iter(f, V)[Y] = Iter(f, Y)[Y]
      <4> HIDE DEF Y
      <4> QED
        BY <1>5, <1>6, <3>1, IterUnique
    <3> QED
      BY <2>1, <2>3, <3>2 DEF Step
  <2> QED
    BY <2>2, <2>3
<1>7. ASSUME NEW s \in SUBSET U
      PROVE  h[s] = Step(f, h, s)
  <2>1. CASE s = {}
    BY <2>1 DEF Step
  <2>2. CASE s # {}
    <3>1. s \ {Some(s)} \in SUBSET U /\ s \ {Some(s)} # U
      BY <2>2, SomeFacts
    <3>2. h[s \ {Some(s)}] = Iter(f, s \ {Some(s)})[s \ {Some(s)}]
      BY <1>6, <3>1
    <3>3. h[s] = f[Some(s)] + Iter(f, s \ {Some(s)})[s \ {Some(s)}]
      BY <2>2
    <3> HIDE DEF h
    <3> QED
      BY <2>2, <3>2, <3>3 DEF Step
  <2> QED
    BY <2>1, <2>2
<1>8. h = [s \in SUBSET U |-> Step(f, h, s)]
  <2>1. h = [s \in SUBSET U |-> h[s]]
    OBVIOUS
  <2> HIDE DEF h
  <2> QED
    BY <1>7, <2>1
<1> QED
  <2> HIDE DEF h
  <2> QED
    BY <1>4, <1>8 DEF IsIter, Iter

\* The two clauses of a sum.
LEMMA SumClauses ==
    /\ \A f : SumFunctionOnSet(f, {}) = 0
    /\ \A f, S : IsFiniteSet(S) /\ S # {} =>
          SumFunctionOnSet(f, S) = f[Some(S)] + SumFunctionOnSet(f, S \ {Some(S)})
<1>1. ASSUME NEW f, NEW S, IsFiniteSet(S)
      PROVE  SumFunctionOnSet(f, S) = Step(f, Iter(f, S), S)
  <2>1. IsIter(f, S, Iter(f, S))
    BY <1>1, IterExists
  <2>2. Iter(f, S)[S] = Step(f, Iter(f, S), S)
    BY <2>1 DEF IsIter
  <2> QED
    BY <2>2, Unfold
<1>2. ASSUME NEW f
      PROVE  SumFunctionOnSet(f, {}) = 0
  BY <1>1, FS_EmptySet DEF Step
<1>3. ASSUME NEW f, NEW S, IsFiniteSet(S), S # {}
      PROVE  SumFunctionOnSet(f, S) = f[Some(S)] + SumFunctionOnSet(f, S \ {Some(S)})
  <2> DEFINE T == S \ {Some(S)}
  <2>1. IsFiniteSet(T) /\ T \subseteq S
    BY <1>3, FS_Subset
  <2>2. IsIter(f, S, Iter(f, S)) /\ IsIter(f, T, Iter(f, T))
    BY <1>3, <2>1, IterExists
  <2>3. Iter(f, S)[T] = Iter(f, T)[T]
    <3> HIDE DEF T
    <3> QED
      BY <2>1, <2>2, IterUnique
  <2>4. SumFunctionOnSet(f, T) = Iter(f, T)[T]
    BY Unfold
  <2> QED
    BY <1>1, <1>3, <2>3, <2>4 DEF Step
<1> QED
  BY <1>2, <1>3

-----------------------------------------------------------------------------
(* Sums of ints over finite sets, in any order.                            *)

\* A sum of ints is an int.
LEMMA SumInt ==
    ASSUME NEW S, IsFiniteSet(S), NEW f, \A x \in S : f[x] \in Int
    PROVE  SumFunctionOnSet(f, S) \in Int
<1> SUFFICES ASSUME SumFunctionOnSet(f, S) \notin Int PROVE FALSE
  OBVIOUS
<1> DEFINE Bad == {U \in SUBSET S : SumFunctionOnSet(f, U) \notin Int}
<1>1. Bad \subseteq FiniteSubsetsOf(S)
  BY FS_Subset DEF FiniteSubsetsOf
<1>2. S \in Bad
  OBVIOUS
<1>3. PICK U \in Bad : \A V \in Bad : <<V, U>> \notin StrictSubsetOrdering(S)
  <2> HIDE DEF Bad
  <2> QED
    BY <1>1, <1>2, FS_StrictSubsetOrderingWellFounded, WFMin
<1>4. U \in SUBSET S /\ IsFiniteSet(U) /\ SumFunctionOnSet(f, U) \notin Int
  BY FS_Subset
<1>5. U # {}
  BY <1>4, SumClauses
<1> DEFINE V == U \ {Some(U)}
<1>6. <<V, U>> \in StrictSubsetOrdering(S) /\ V \in SUBSET S
  BY <1>4, <1>5, SomeFacts DEF StrictSubsetOrdering
<1>7. SumFunctionOnSet(f, V) \in Int
  BY <1>3, <1>6
<1>8. f[Some(U)] \in Int
  BY <1>4, <1>5, SomeFacts
<1>9. SumFunctionOnSet(f, U) = f[Some(U)] + SumFunctionOnSet(f, V)
  BY <1>4, <1>5, SumClauses
<1> HIDE DEF V
<1> QED
  BY <1>4, <1>7, <1>8, <1>9

\* Any element of the set may be split off.
LEMMA SumSplit ==
    ASSUME NEW S, IsFiniteSet(S), NEW f, \A x \in S : f[x] \in Int, NEW x \in S
    PROVE  SumFunctionOnSet(f, S) = f[x] + SumFunctionOnSet(f, S \ {x})
<1> DEFINE Good(U) == \A y \in U : SumFunctionOnSet(f, U) = f[y] + SumFunctionOnSet(f, U \ {y})
<1> SUFFICES ASSUME ~Good(S) PROVE FALSE
  OBVIOUS
<1> DEFINE Bad == {U \in SUBSET S : ~Good(U)}
<1>1. Bad \subseteq FiniteSubsetsOf(S)
  BY FS_Subset DEF FiniteSubsetsOf
<1>2. S \in Bad
  OBVIOUS
<1>3. PICK U \in Bad : \A V \in Bad : <<V, U>> \notin StrictSubsetOrdering(S)
  <2> HIDE DEF Bad
  <2> QED
    BY <1>1, <1>2, FS_StrictSubsetOrderingWellFounded, WFMin
<1>4. U \in SUBSET S /\ IsFiniteSet(U)
  BY FS_Subset
<1>5. PICK y \in U : SumFunctionOnSet(f, U) # f[y] + SumFunctionOnSet(f, U \ {y})
  OBVIOUS
<1> DEFINE z == Some(U)
           V == U \ {z}
           W == U \ {y}
           B == U \ {y, z}
<1>6. z \in U /\ SumFunctionOnSet(f, U) = f[z] + SumFunctionOnSet(f, V)
  <2>1. U # {}
    BY <1>5
  <2> QED
    BY <1>4, <2>1, SumClauses, SomeFacts
<1>7. y # z
  BY <1>5, <1>6
<1>8. Good(V) /\ Good(W)
  <2>1. /\ <<V, U>> \in StrictSubsetOrdering(S) /\ V \in SUBSET S
        /\ <<W, U>> \in StrictSubsetOrdering(S) /\ W \in SUBSET S
    BY <1>4, <1>5, <1>6 DEF StrictSubsetOrdering
  <2> HIDE DEF Good
  <2> QED
    BY <1>3, <2>1
<1>9. /\ SumFunctionOnSet(f, V) = f[y] + SumFunctionOnSet(f, B)
      /\ SumFunctionOnSet(f, W) = f[z] + SumFunctionOnSet(f, B)
  <2>1. y \in V /\ z \in W /\ V \ {y} = B /\ W \ {z} = B
    BY <1>5, <1>6, <1>7
  <2> HIDE DEF V, W, B, z
  <2> QED
    BY <1>8, <2>1
<1>10. f[y] \in Int /\ f[z] \in Int /\ SumFunctionOnSet(f, B) \in Int
  <2>1. IsFiniteSet(B) /\ B \subseteq S
    BY <1>4, FS_Subset
  <2> HIDE DEF B
  <2> QED
    BY <1>4, <1>5, <1>6, <2>1, SumInt
<1> HIDE DEF V, W, B, z
<1> QED
  BY <1>5, <1>6, <1>9, <1>10 DEF W

\* And any other added.
LEMMA SumAdd ==
    ASSUME NEW S, IsFiniteSet(S), NEW f, \A x \in S : f[x] \in Int,
           NEW x, x \notin S, f[x] \in Int
    PROVE  SumFunctionOnSet(f, S \union {x}) = SumFunctionOnSet(f, S) + f[x]
<1> DEFINE T == S \union {x}
<1>1. IsFiniteSet(T) /\ x \in T /\ T \ {x} = S /\ \A y \in T : f[y] \in Int
  BY FS_AddElement
<1>2. SumFunctionOnSet(f, T) = f[x] + SumFunctionOnSet(f, S)
  <2> HIDE DEF T
  <2> QED
    BY <1>1, SumSplit
<1>3. SumFunctionOnSet(f, S) \in Int
  BY SumInt
<1> QED
  BY <1>2, <1>3

\* The sum of two functions that agree on the set.
LEMMA SumSame ==
    ASSUME NEW S, IsFiniteSet(S), NEW f, NEW g,
           \A x \in S : f[x] \in Int /\ f[x] = g[x]
    PROVE  SumFunctionOnSet(f, S) = SumFunctionOnSet(g, S)
<1> DEFINE P == {T \in SUBSET S : SumFunctionOnSet(f, T) = SumFunctionOnSet(g, T)}
<1>1. {} \in P
  BY SumClauses
<1>2. ASSUME NEW T \in SUBSET S, NEW x \in S, T \in P, x \notin T
      PROVE  T \union {x} \in P
  <2>1. IsFiniteSet(T)
    BY FS_Subset
  <2>2. SumFunctionOnSet(f, T \union {x}) = SumFunctionOnSet(f, T) + f[x]
    BY <1>2, <2>1, SumAdd
  <2>3. SumFunctionOnSet(g, T \union {x}) = SumFunctionOnSet(g, T) + g[x]
    BY <1>2, <2>1, SumAdd
  <2> QED
    BY <1>2, <2>2, <2>3
<1>3. S \in P
  <2> HIDE DEF P
  <2> QED
    BY <1>1, <1>2, SetInduction
<1> QED
  BY <1>3

\* The sum of the sums of two functions.
LEMMA SumPlus ==
    ASSUME NEW S, IsFiniteSet(S), NEW f, NEW g, NEW h,
           \A x \in S : f[x] \in Int /\ g[x] \in Int /\ h[x] = f[x] + g[x]
    PROVE  SumFunctionOnSet(h, S) = SumFunctionOnSet(f, S) + SumFunctionOnSet(g, S)
<1> DEFINE P == {T \in SUBSET S :
                    SumFunctionOnSet(h, T) = SumFunctionOnSet(f, T) + SumFunctionOnSet(g, T)}
<1>1. {} \in P
  BY SumClauses
<1>2. ASSUME NEW T \in SUBSET S, NEW x \in S, T \in P, x \notin T
      PROVE  T \union {x} \in P
  <2>1. IsFiniteSet(T)
    BY FS_Subset
  <2>2. SumFunctionOnSet(f, T \union {x}) = SumFunctionOnSet(f, T) + f[x]
    BY <1>2, <2>1, SumAdd
  <2>3. SumFunctionOnSet(g, T \union {x}) = SumFunctionOnSet(g, T) + g[x]
    BY <1>2, <2>1, SumAdd
  <2>4. SumFunctionOnSet(h, T \union {x}) = SumFunctionOnSet(h, T) + h[x]
    BY <1>2, <2>1, SumAdd
  <2>5. SumFunctionOnSet(f, T) \in Int /\ SumFunctionOnSet(g, T) \in Int
    BY <2>1, SumInt
  <2>6. /\ f[x] \in Int /\ g[x] \in Int /\ h[x] = f[x] + g[x]
        /\ SumFunctionOnSet(h, T) = SumFunctionOnSet(f, T) + SumFunctionOnSet(g, T)
    BY <1>2
  <2> HIDE DEF P
  <2>7. SumFunctionOnSet(h, T \union {x})
          = SumFunctionOnSet(f, T \union {x}) + SumFunctionOnSet(g, T \union {x})
    BY <2>2, <2>3, <2>4, <2>5, <2>6
  <2> QED
    BY <2>7 DEF P
<1>3. S \in P
  <2> HIDE DEF P
  <2> QED
    BY <1>1, <1>2, SetInduction
<1> QED
  BY <1>3

\* A sum of zeros.
LEMMA SumZero ==
    ASSUME NEW S, IsFiniteSet(S), NEW f, \A x \in S : f[x] = 0
    PROVE  SumFunctionOnSet(f, S) = 0
<1>1. SumFunctionOnSet(f, S) \in Int
  BY SumInt
<1>2. SumFunctionOnSet(f, S) = SumFunctionOnSet(f, S) + SumFunctionOnSet(f, S)
  BY SumPlus
<1>3. \A n \in Int : n = n + n => n = 0
  OBVIOUS
<1> QED
  BY <1>1, <1>2, <1>3

\* A function that is zero but at x.
LEMMA SumOne ==
    ASSUME NEW S, IsFiniteSet(S), NEW x \in S, NEW f,
           f[x] \in Int, \A y \in S \ {x} : f[y] = 0
    PROVE  SumFunctionOnSet(f, S) = f[x]
<1> DEFINE T == S \ {x}
<1>1. IsFiniteSet(T)
  BY FS_Subset
<1>2. SumFunctionOnSet(f, T) = 0
  BY <1>1, SumZero
<1>3. \A y \in S : f[y] \in Int
  OBVIOUS
<1>4. SumFunctionOnSet(f, S) = f[x] + SumFunctionOnSet(f, T)
  BY <1>3, SumSplit
<1> QED
  BY <1>2, <1>4

\* A sum of naturals is one, and no part of it is greater.
LEMMA SumNat ==
    ASSUME NEW S, IsFiniteSet(S), NEW f, \A x \in S : f[x] \in Nat
    PROVE  SumFunctionOnSet(f, S) \in Nat
<1> DEFINE P == {T \in SUBSET S : SumFunctionOnSet(f, T) \in Nat}
<1>1. {} \in P
  BY SumClauses
<1>2. ASSUME NEW T \in SUBSET S, NEW x \in S, T \in P, x \notin T
      PROVE  T \union {x} \in P
  <2>1. IsFiniteSet(T)
    BY FS_Subset
  <2>2. SumFunctionOnSet(f, T \union {x}) = SumFunctionOnSet(f, T) + f[x]
    BY <1>2, <2>1, SumAdd
  <2>3. f[x] \in Nat /\ SumFunctionOnSet(f, T) \in Nat
    BY <1>2
  <2>4. SumFunctionOnSet(f, T \union {x}) \in Nat
    BY <2>2, <2>3
  <2> QED
    BY <2>4
<1>3. S \in P
  <2> HIDE DEF P
  <2> QED
    BY <1>1, <1>2, SetInduction
<1> QED
  BY <1>3

\* Two disjoint sets.
LEMMA SumUnion ==
    ASSUME NEW S, IsFiniteSet(S), NEW T, IsFiniteSet(T), S \cap T = {},
           NEW f, \A x \in S \union T : f[x] \in Int
    PROVE  SumFunctionOnSet(f, S \union T) = SumFunctionOnSet(f, S) + SumFunctionOnSet(f, T)
<1> DEFINE P == {U \in SUBSET T : SumFunctionOnSet(f, S \union U)
                                    = SumFunctionOnSet(f, S) + SumFunctionOnSet(f, U)}
<1>0. SumFunctionOnSet(f, S) \in Int
  BY SumInt
<1>1. {} \in P
  <2>1. S \union {} = S
    OBVIOUS
  <2> QED
    BY <1>0, <2>1, SumClauses
<1>2. ASSUME NEW U \in SUBSET T, NEW x \in T, U \in P, x \notin U
      PROVE  U \union {x} \in P
  <2> DEFINE V == S \union U
  <2>1. IsFiniteSet(U) /\ IsFiniteSet(V)
    BY FS_Subset, FS_Union
  <2>2. SumFunctionOnSet(f, U \union {x}) = SumFunctionOnSet(f, U) + f[x]
    BY <1>2, <2>1, SumAdd
  <2>3. SumFunctionOnSet(f, V \union {x}) = SumFunctionOnSet(f, V) + f[x]
    <3>1. x \notin V /\ \A y \in V : f[y] \in Int
      BY <1>2
    <3> HIDE DEF V
    <3> QED
      BY <2>1, <3>1, SumAdd
  <2>4. f[x] \in Int /\ SumFunctionOnSet(f, U) \in Int
    BY <2>1, SumInt
  <2>5. V \union {x} = S \union (U \union {x})
    OBVIOUS
  <2>6. SumFunctionOnSet(f, V) = SumFunctionOnSet(f, S) + SumFunctionOnSet(f, U)
    BY <1>2
  <2>7. SumFunctionOnSet(f, V \union {x}) = SumFunctionOnSet(f, S) + SumFunctionOnSet(f, U \union {x})
    <3> HIDE DEF V, P
    <3> QED
      BY <1>0, <2>2, <2>3, <2>4, <2>6
  <2> QED
    BY <2>5, <2>7
<1>3. T \in P
  <2> HIDE DEF P
  <2> QED
    BY <1>1, <1>2, SetInduction
<1> QED
  BY <1>3

\* No part of a sum of naturals is greater than the whole.
LEMMA SumPart ==
    ASSUME NEW S, IsFiniteSet(S), NEW f, \A x \in S : f[x] \in Nat, NEW T \in SUBSET S
    PROVE  SumFunctionOnSet(f, T) <= SumFunctionOnSet(f, S)
<1> DEFINE U == S \ T
<1>1. IsFiniteSet(T) /\ IsFiniteSet(U) /\ T \cap U = {} /\ T \union U = S
  BY FS_Subset
<1>2. SumFunctionOnSet(f, T) \in Nat /\ SumFunctionOnSet(f, U) \in Nat
  BY <1>1, SumNat
<1>3. SumFunctionOnSet(f, T \union U) = SumFunctionOnSet(f, T) + SumFunctionOnSet(f, U)
  <2> HIDE DEF U
  <2>1. \A x \in T \union U : f[x] \in Int
    BY <1>1
  <2> QED
    BY <1>1, <2>1, SumUnion
<1>4. \A m, n \in Nat : m <= m + n
  OBVIOUS
<1> HIDE DEF U
<1> QED
  BY <1>1, <1>2, <1>3, <1>4


\* The sum over the values of an injection.
LEMMA SumImage ==
    ASSUME NEW S, IsFiniteSet(S), NEW m, \A x, y \in S : m[x] = m[y] => x = y,
           NEW f, NEW g, \A x \in S : f[m[x]] \in Int /\ g[x] = f[m[x]]
    PROVE  /\ IsFiniteSet({m[x] : x \in S})
           /\ SumFunctionOnSet(f, {m[x] : x \in S}) = SumFunctionOnSet(g, S)
<1> DEFINE Image(U) == {m[x] : x \in U}
           Good(U) == /\ IsFiniteSet(Image(U))
                      /\ SumFunctionOnSet(f, Image(U)) = SumFunctionOnSet(g, U)
           P == {U \in SUBSET S : Good(U)}
<1>1. {} \in P
  <2>1. Image({}) = {}
    OBVIOUS
  <2>2. Good({})
    BY <2>1, FS_EmptySet, SumClauses
  <2> QED
    BY <2>2
<1>2. ASSUME NEW T \in SUBSET S, NEW x \in S, T \in P, x \notin T
      PROVE  T \union {x} \in P
  <2>1. Image(T \union {x}) = Image(T) \union {m[x]} /\ m[x] \notin Image(T)
    BY <1>2
  <2>2. IsFiniteSet(T) /\ Good(T)
    BY <1>2, FS_Subset
  <2>3. IsFiniteSet(Image(T))
    BY <2>2
  <2>4. IsFiniteSet(Image(T) \union {m[x]})
    BY <2>3, FS_AddElement
  <2>5. f[m[x]] \in Int /\ \A y \in Image(T) : f[y] \in Int
    OBVIOUS
  <2>6. SumFunctionOnSet(f, Image(T) \union {m[x]}) = SumFunctionOnSet(f, Image(T)) + f[m[x]]
    <3> HIDE DEF Image
    <3> QED
      BY <2>1, <2>3, <2>5, SumAdd
  <2>7. SumFunctionOnSet(g, T \union {x}) = SumFunctionOnSet(g, T) + g[x]
    <3>1. g[x] \in Int /\ \A y \in T : g[y] \in Int
      OBVIOUS
    <3> QED
      BY <1>2, <2>2, <3>1, SumAdd
  <2>8. g[x] = f[m[x]]
    OBVIOUS
  <2>9. Good(T \union {x})
    <3> HIDE DEF Image
    <3> QED
      BY <2>1, <2>2, <2>4, <2>6, <2>7, <2>8
  <2> QED
    BY <1>2, <2>9
<1>3. S \in P
  <2> HIDE DEF P
  <2> QED
    BY <1>1, <1>2, SetInduction
<1> QED
  BY <1>3

\* Each of I has its owner in D, and group gives what each of D owns.
Grouped(I, own, D, group) ==
    /\ \A i \in I : own[i] \in D
    /\ \A d \in D : group[d] = {i \in I : own[i] = d}

\* What each of D owns adds up to all of I.
LEMMA SumByOwner ==
    ASSUME NEW I, IsFiniteSet(I), NEW D, IsFiniteSet(D), NEW own, NEW group,
           Grouped(I, own, D, group), NEW a, \A i \in I : a[i] \in Int,
           NEW part, \A d \in D : part[d] = SumFunctionOnSet(a, group[d])
    PROVE  SumFunctionOnSet(part, D) = SumFunctionOnSet(a, I)
<1> DEFINE Owned(U) == {i \in I : own[i] \in U}
           P == {U \in SUBSET D : SumFunctionOnSet(part, U) = SumFunctionOnSet(a, Owned(U))}
<1>1. {} \in P
  <2>1. Owned({}) = {}
    OBVIOUS
  <2> QED
    BY <2>1, SumClauses
<1>2. ASSUME NEW d \in D
      PROVE  /\ IsFiniteSet(Owned({d}))
             /\ part[d] = SumFunctionOnSet(a, Owned({d}))
             /\ part[d] \in Int
  <2>1. Owned({d}) = group[d]
    BY DEF Grouped
  <2>2. Owned({d}) \subseteq I
    OBVIOUS
  <2>3. IsFiniteSet(Owned({d}))
    BY <2>2, FS_Subset
  <2>4. part[d] = SumFunctionOnSet(a, Owned({d}))
    BY <2>1
  <2> HIDE DEF Owned
  <2>5. part[d] \in Int
    BY <2>2, <2>3, <2>4, SumInt
  <2> QED
    BY <2>3, <2>4, <2>5
<1>3. ASSUME NEW T \in SUBSET D, NEW d \in D, T \in P, d \notin T
      PROVE  T \union {d} \in P
  <2>1. /\ Owned(T \union {d}) = Owned(T) \union Owned({d})
        /\ Owned(T) \cap Owned({d}) = {}
        /\ Owned(T) \subseteq I /\ Owned({d}) \subseteq I
    BY <1>3
  <2>2. IsFiniteSet(T) /\ IsFiniteSet(Owned(T))
    BY <2>1, FS_Subset
  <2>3. SumFunctionOnSet(part, T) = SumFunctionOnSet(a, Owned(T))
    BY <1>3
  <2> HIDE DEF Owned, P
  <2>4. SumFunctionOnSet(a, Owned(T) \union Owned({d}))
          = SumFunctionOnSet(a, Owned(T)) + SumFunctionOnSet(a, Owned({d}))
    <3> DEFINE A == Owned(T)
               B == Owned({d})
    <3>1. IsFiniteSet(A) /\ IsFiniteSet(B) /\ A \cap B = {}
      BY <1>2, <2>1, <2>2
    <3>2. \A i \in A \union B : a[i] \in Int
      BY <2>1
    <3> HIDE DEF A, B
    <3>3. SumFunctionOnSet(a, A \union B) = SumFunctionOnSet(a, A) + SumFunctionOnSet(a, B)
      BY <3>1, <3>2, SumUnion
    <3> QED
      BY <3>3 DEF A, B
  <2>5. SumFunctionOnSet(part, T \union {d}) = SumFunctionOnSet(part, T) + part[d]
    <3>1. part[d] \in Int /\ \A e \in T : part[e] \in Int
      BY <1>2
    <3> QED
      BY <1>3, <2>2, <3>1, SumAdd
  <2>6. SumFunctionOnSet(part, T \union {d}) = SumFunctionOnSet(a, Owned(T \union {d}))
    BY <1>2, <2>1, <2>3, <2>4, <2>5
  <2> QED
    BY <2>6 DEF P
<1>4. D \in P
  <2> HIDE DEF P
  <2> QED
    BY <1>1, <1>3, SetInduction
<1>5. Owned(D) = I
  BY DEF Grouped
<1> QED
  BY <1>4, <1>5

\* A sum of at most n naturals none of which is greater than m.
LEMMA SumBound ==
    ASSUME NEW n \in Nat, NEW m \in Nat, NEW S \in SUBSET (1..n),
           NEW f, \A i \in S : f[i] \in Nat /\ f[i] <= m
    PROVE  SumFunctionOnSet(f, S) <= n * m
<1> DEFINE P == {T \in SUBSET S : SumFunctionOnSet(f, T) <= Cardinality(T) * m}
<1>1. IsFiniteSet(S) /\ Cardinality(S) \in Nat /\ Cardinality(S) <= n
  <2>1. 1 \in Int /\ n \in Int
    OBVIOUS
  <2>2. IsFiniteSet(1..n) /\ Cardinality(1..n) = n
    BY <2>1, FS_Interval
  <2> QED
    BY <2>2, FS_Subset, FS_CardinalityType
<1>2. {} \in P
  <2>1. SumFunctionOnSet(f, {}) = 0 /\ Cardinality({}) = 0
    BY SumClauses, FS_EmptySet
  <2> QED
    BY <2>1
<1>3. ASSUME NEW T \in SUBSET S, NEW x \in S, T \in P, x \notin T
      PROVE  T \union {x} \in P
  <2>1. IsFiniteSet(T)
    BY <1>1, FS_Subset
  <2>2. Cardinality(T \union {x}) = Cardinality(T) + 1 /\ Cardinality(T) \in Nat
    BY <1>3, <2>1, FS_AddElement, FS_CardinalityType
  <2>3. /\ SumFunctionOnSet(f, T \union {x}) = SumFunctionOnSet(f, T) + f[x]
        /\ SumFunctionOnSet(f, T) \in Nat /\ f[x] \in Nat
    <3>1. f[x] \in Int /\ \A i \in T : f[i] \in Int /\ f[i] \in Nat
      OBVIOUS
    <3>2. SumFunctionOnSet(f, T \union {x}) = SumFunctionOnSet(f, T) + f[x]
      BY <1>3, <2>1, <3>1, SumAdd
    <3>3. SumFunctionOnSet(f, T) \in Nat
      BY <2>1, <3>1, SumNat
    <3> QED
      BY <3>2, <3>3
  <2>4. SumFunctionOnSet(f, T) <= Cardinality(T) * m /\ f[x] <= m
    BY <1>3
  <2>5. \A c \in Nat : (c + 1) * m = c * m + m /\ c * m \in Nat
    OBVIOUS
  <2>6. SumFunctionOnSet(f, T \union {x}) <= Cardinality(T \union {x}) * m
    <3> HIDE DEF P
    <3> QED
      BY <2>2, <2>3, <2>4, <2>5
  <2> QED
    BY <2>6
<1>4. S \in P
  <2> HIDE DEF P
  <2> QED
    BY <1>1, <1>2, <1>3, SetInduction
<1>5. SumFunctionOnSet(f, S) <= Cardinality(S) * m
  BY <1>4
<1>6. SumFunctionOnSet(f, S) \in Nat
  BY <1>1, SumNat
<1>7. \A c \in Nat : c <= n => c * m <= n * m /\ c * m \in Nat
  <2> SUFFICES ASSUME NEW c \in Nat, c <= n PROVE c * m <= n * m /\ c * m \in Nat
    OBVIOUS
  <2>1. PICK d \in Nat : n = c + d
    <3>1. n - c \in Nat /\ n = c + (n - c)
      OBVIOUS
    <3> QED
      BY <3>1
  <2>2. n * m = c * m + d * m /\ c * m \in Nat /\ d * m \in Nat
    BY <2>1
  <2> QED
    BY <2>2
<1>8. n * m \in Nat
  OBVIOUS
<1> QED
  BY <1>1, <1>5, <1>6, <1>7, <1>8

-----------------------------------------------------------------------------
(* The sum Transfer computes.                                              *)

\* The greatest of some positions of a list.
LEMMA MaxFacts ==
    ASSUME NEW n \in Nat, NEW S \in SUBSET (1..n), S # {}
    PROVE  Max(S) \in S
<1> DEFINE Good(U) == U # {} => \E x \in U : \A y \in U : x >= y
           P == {U \in SUBSET (1..n) : Good(U)}
<1>1. {} \in P
  OBVIOUS
<1>2. ASSUME NEW T \in SUBSET S, NEW x \in S, T \in P, x \notin T
      PROVE  T \union {x} \in P
  <2>1. Good(T \union {x})
    <3>1. CASE T = {}
      <4>1. T \union {x} = {x} /\ x \in Nat
        BY <3>1
      <4> QED
        BY <4>1
    <3>2. CASE T # {}
      <4>1. PICK z \in T : \A y \in T : z >= y
        BY <1>2, <3>2
      <4>2. CASE z >= x
        BY <4>1, <4>2
      <4>3. CASE ~(z >= x)
        <5>1. \A y \in T : x >= y
          BY <4>1, <4>3
        <5> QED
          BY <5>1
      <4> QED
        BY <4>2, <4>3
    <3> QED
      BY <3>1, <3>2
  <2> QED
    BY <2>1
<1>3. IsFiniteSet(S)
  <2>1. 1 \in Int /\ n \in Int
    OBVIOUS
  <2>2. IsFiniteSet(1..n)
    BY <2>1, FS_Interval
  <2> QED
    BY <2>2, FS_Subset
<1>4. S \in P
  <2> HIDE DEF P
  <2> QED
    BY <1>1, <1>2, <1>3, SetInduction
<1>5. \E x \in S : \A y \in S : x >= y
  BY <1>4
<1> QED
  BY <1>5 DEF Max

\* How FoldLeft adds: the last element last.
IsFold(f, S, g) ==
    g = [s \in SUBSET S |-> IF s = {} THEN 0 ELSE Add(g[s \ {Max(s)}], f[Max(s)])]
Folded(f, S) == CHOOSE g : IsFold(f, S, g)

LEMMA SumUnfold == \A s : Sum(s) = Folded(s, DOMAIN s)[DOMAIN s]
  BY DEF Sum, FoldLeft, MapThenFoldSet, Folded, IsFold

\* Where no part of it overflows, Transfer's sum is the sum.
LEMMA SumExact ==
    ASSUME NEW s, DOMAIN s \subseteq 1..MaxList, \A i \in DOMAIN s : s[i] \in Nat,
           SumFunctionOnSet(s, DOMAIN s) <= MaxInt
    PROVE  Sum(s) = SumFunctionOnSet(s, DOMAIN s)
<1> DEFINE S == DOMAIN s
           h == [t \in SUBSET S |-> SumFunctionOnSet(s, t)]
           g == Folded(s, S)
<1>1. MaxList \in Nat /\ MaxInt \in Nat
  BY ConstantAssumption
<1>2. IsFiniteSet(S) /\ \A t \in SUBSET S : IsFiniteSet(t)
  <2>1. 1 \in Int /\ MaxList \in Int
    BY <1>1
  <2>2. IsFiniteSet(1..MaxList)
    BY <2>1, FS_Interval
  <2> QED
    BY <2>2, FS_Subset
<1>3. ASSUME NEW t \in SUBSET S, t # {}
      PROVE  /\ Max(t) \in t /\ t \ {Max(t)} \in SUBSET S
             /\ h[t] = Add(h[t \ {Max(t)}], s[Max(t)])
  <2>1. Max(t) \in t
    BY <1>1, <1>3, MaxFacts
  <2> DEFINE u == t \ {Max(t)}
  <2>2. u \in SUBSET S
    OBVIOUS
  <2>3. SumFunctionOnSet(s, t) = s[Max(t)] + SumFunctionOnSet(s, u)
    <3>1. \A x \in t : s[x] \in Int
      OBVIOUS
    <3> QED
      BY <1>2, <2>1, <3>1, SumSplit
  <2>4. SumFunctionOnSet(s, u) \in Nat /\ SumFunctionOnSet(s, t) \in Nat /\ s[Max(t)] \in Nat
    <3> HIDE DEF u
    <3> QED
      BY <1>2, <2>1, <2>2, SumNat
  <2>5. SumFunctionOnSet(s, t) <= SumFunctionOnSet(s, S)
    BY <1>2, SumPart
  <2>6. SumFunctionOnSet(s, S) \in Nat
    BY <1>2, SumNat
  <2>7. h[u] = SumFunctionOnSet(s, u) /\ h[t] = SumFunctionOnSet(s, t)
    BY <2>2
  <2> HIDE DEF h, u
  <2>8. h[u] + s[Max(t)] = h[t] /\ ~(h[t] > MaxInt)
    BY <1>1, <2>3, <2>4, <2>5, <2>6, <2>7
  <2> QED
    BY <2>1, <2>2, <2>8 DEF Add, u
<1>4. h[{}] = 0
  BY SumClauses
<1>5. IsFold(s, S, h)
  <2> DEFINE k == [t \in SUBSET S |-> IF t = {} THEN 0 ELSE Add(h[t \ {Max(t)}], s[Max(t)])]
  <2>1. \A t \in SUBSET S : h[t] = k[t]
    <3> HIDE DEF h
    <3> QED
      BY <1>3, <1>4
  <2>2. h = [t \in SUBSET S |-> h[t]] /\ k = [t \in SUBSET S |-> k[t]]
    OBVIOUS
  <2>3. h = k
    <3> HIDE DEF h, k
    <3> QED
      BY <2>1, <2>2
  <2> HIDE DEF h
  <2> QED
    BY <2>3 DEF IsFold
<1>6. IsFold(s, S, g)
  <2> HIDE DEF h
  <2> QED
    BY <1>5 DEF Folded
<1>7. g[S] = h[S]
  <2> DEFINE P == {t \in SUBSET S : g[t] = h[t]}
             Bad == {t \in SUBSET S : g[t] # h[t]}
  <2> SUFFICES ASSUME Bad # {} PROVE FALSE
    OBVIOUS
  <2>1. Bad \subseteq FiniteSubsetsOf(S)
    BY <1>2 DEF FiniteSubsetsOf
  <2>2. PICK t \in Bad : \A u \in Bad : <<u, t>> \notin StrictSubsetOrdering(S)
    <3> HIDE DEF Bad
    <3> QED
      BY <1>2, <2>1, FS_StrictSubsetOrderingWellFounded, WFMin
  <2>3. t \in SUBSET S /\ g[t] # h[t]
    OBVIOUS
  <2> HIDE DEF g, h
  <2>4. t # {}
    BY <1>4, <1>6, <2>3 DEF IsFold
  <2>5. <<t \ {Max(t)}, t>> \in StrictSubsetOrdering(S)
    BY <1>3, <2>3, <2>4 DEF StrictSubsetOrdering
  <2>6. g[t \ {Max(t)}] = h[t \ {Max(t)}]
    BY <1>3, <2>2, <2>3, <2>4, <2>5
  <2>7. g[t] = Add(g[t \ {Max(t)}], s[Max(t)])
    BY <1>6, <2>3, <2>4 DEF IsFold
  <2> QED
    BY <1>3, <2>3, <2>4, <2>6, <2>7
<1> QED
  BY <1>7, SumUnfold

-----------------------------------------------------------------------------
(* The inductive invariant.                                                *)

\* The ledger: a key has a version exactly while it is in the world state.
LedgerOK ==
    /\ DOMAIN world = Key /\ DOMAIN version = Key /\ DOMAIN pool = TxId
    /\ height \in 0..MaxHeight
    /\ \A k \in Key : version[k] = 0 <=> world[k] = Absent

\* A key the simulation found in the world state.
FoundThere(tx, k) == k \in DOMAIN tx.reads /\ tx.reads[k].version # 0

\* A key it found absent.
FoundAbsent(tx, k) == k \in DOMAIN tx.reads /\ tx.reads[k].version = 0

\* The UTXO of client c named n: created by the transaction, or spent by its
\* owner, who found it.
UtxoWrite(id, tx, c, n) ==
    LET k == UtxoKey(c, n) IN
    k \in DOMAIN tx.writes =>
       IF tx.writes[k] = Absent
       THEN c = tx.creator /\ FoundThere(tx, k)
       ELSE n[1] = id /\ tx.writes[k] \in 1..MaxInt

\* Name and symbol are written by a transaction that found no name.
OptionsWritten(tx) ==
    \A k \in OptionKeys : k \in DOMAIN tx.writes =>
        /\ FoundAbsent(tx, OptionKey("name"))
        /\ \A o \in OptionKeys : o \in DOMAIN tx.writes /\ tx.writes[o] \in Option \union {Absent}

\* What a contract function leaves in the pool.
Simulated(id, tx) ==
    /\ DOMAIN tx.writes \subseteq Key
    /\ \A c \in Client, n \in UtxoName : UtxoWrite(id, tx, c, n)
    /\ OptionsWritten(tx)

\* A UTXO bears the id of a transaction that was submitted.
NamesAreIssued ==
    \A c \in Client, n \in UtxoName : world[UtxoKey(c, n)] # Absent => n[1] \in issued

IInv ==
    /\ TypeOK
    /\ LedgerOK
    /\ \A id \in InFlight : Simulated(id, pool[id])
    /\ NamesAreIssued

-----------------------------------------------------------------------------

\* A key determines the owner and the name of a UTXO, and no option is a UTXO.
LEMMA KeyFacts ==
    /\ \A c \in Client, n \in UtxoName : UtxoKey(c, n) \in Key
    /\ \A c, d, n, m : UtxoKey(c, n) = UtxoKey(d, m) => c = d /\ n = m
    /\ OptionKeys \subseteq Key
    /\ OptionKey("name") \in OptionKeys /\ OptionKey("symbol") \in OptionKeys
    /\ OptionKey("name") # OptionKey("symbol")
    /\ \A k \in OptionKeys : \A c, n : k # UtxoKey(c, n)
<1>1. /\ \A c \in Client, n \in UtxoName : UtxoKey(c, n) \in Key
      /\ OptionKeys \subseteq Key
  BY KeyAssumption DEF UtxoKeys
<1>2. \A c, d, n, m : UtxoKey(c, n) = UtxoKey(d, m) => c = d /\ n = m
  BY DEF UtxoKey
<1>3. /\ OptionKey("name") \in OptionKeys /\ OptionKey("symbol") \in OptionKeys
      /\ OptionKey("name") # OptionKey("symbol")
  BY DEF OptionKeys, OptionKey
<1>4. \A k \in OptionKeys : \A c, n : k # UtxoKey(c, n)
  BY DEF OptionKeys, OptionKey, UtxoKey
<1> QED
  BY <1>1, <1>2, <1>3, <1>4

\* The name of an output of transaction id.
LEMMA NameFacts ==
    ASSUME NEW id \in TxId, NEW i \in 1..MaxList
    PROVE  /\ <<id, i - 1>> \in UtxoName
           /\ <<id, i - 1>>[1] = id
           /\ <<id, i - 1>>[2] + 1 = i
<1>1. MaxList \in Nat \ {0}
  BY ConstantAssumption
<1>2. i - 1 \in 0..(MaxList - 1) /\ (i - 1) + 1 = i
  BY <1>1
<1> QED
  BY <1>2 DEF UtxoName

\* Values that are not absent.
LEMMA ValueFacts ==
    /\ \A v \in 1..MaxInt : v # Absent
    /\ \A v \in Option : v # Absent
    /\ \A v \in Amount : v \in 1..MaxInt
<1>1. Absent \notin Nat /\ Absent \notin Option /\ Amount \subseteq 1..MaxInt /\ MaxInt \in Nat
  BY ConstantAssumption
<1>2. \A v \in 1..MaxInt : v \in Nat
  BY <1>1
<1> QED
  BY <1>1, <1>2

\* A list of at most MaxList elements of S is a function on an initial segment
\* of 1..MaxList, and its elements are in S.
LEMMA ListFacts ==
    ASSUME NEW S, NEW s \in BoundedSeq(S, MaxList)
    PROVE  /\ DOMAIN s \subseteq 1..MaxList
           /\ \A i \in DOMAIN s : s[i] \in S
           /\ ToSet(s) \subseteq S
<1>1. PICK m \in 0..MaxList : s \in [1..m -> S]
  BY DEF BoundedSeq, SeqOf
<1>2. MaxList \in Nat
  BY ConstantAssumption
<1>3. 1..m \subseteq 1..MaxList
  BY <1>2
<1> QED
  BY <1>1, <1>3 DEF ToSet

\* The heights a version may be given.
LEMMA Heights ==
    ASSUME LedgerOK
    PROVE  height \in Nat /\ height + 1 # 0
<1>1. height \in 0..MaxHeight /\ MaxHeight \in Nat
  BY MaxHeightAssumption DEF LedgerOK
<1> QED
  BY <1>1

-----------------------------------------------------------------------------
(* The steps that only change the pool.                                    *)

\* A transaction endorsed on the current state, under an id never used before,
\* may join the pool.
LEMMA SubmitInv ==
    ASSUME IInv, NEW id \in TxId, NEW sender \in Client, NEW K \in SUBSET Key,
           NEW writes, NEW response, Submit(id, sender, K, writes, response),
           \A tx : /\ tx.creator = sender /\ tx.writes = writes
                   /\ DOMAIN tx.reads = K
                   /\ \A k \in K : tx.reads[k].version = version[k]
                   => Simulated(id, tx)
    PROVE  IInv'
<1> DEFINE tx == pool'[id]
<1>1. /\ UNCHANGED <<world, version, height>>
      /\ DOMAIN pool' = TxId
      /\ \A j \in TxId \ {id} : pool'[j] = pool[j]
      /\ tx.creator = sender
      /\ DOMAIN tx.reads = K
      /\ \A k \in K : tx.reads[k].version = version[k]
      /\ tx.writes = writes
      /\ id \notin issued /\ issued' = issued \union {id}
  BY DEF Submit, Endorse, ReadSet, IInv, LedgerOK
<1>2. Simulated(id, tx)
  BY <1>1
<1> HIDE DEF tx
<1>3. \A j \in InFlight' : j = id \/ (j \in InFlight /\ pool'[j] = pool[j])
  BY <1>1 DEF InFlight
<1>4. \A j \in InFlight' : Simulated(j, pool'[j])
  BY <1>2, <1>3 DEF IInv, tx
<1>5. LedgerOK'
  BY <1>1 DEF IInv, LedgerOK
<1>6. NamesAreIssued'
  BY <1>1 DEF IInv, NamesAreIssued
<1>7. TypeOK'
  <2>1. \A j \in InFlight', c \in Client, n \in UtxoName :
           LET k == UtxoKey(c, n) IN
           k \in DOMAIN pool'[j].writes /\ pool'[j].writes[k] # Absent =>
              /\ n[1] = j
              /\ world[k] = Absent
              /\ pool'[j].writes[k] \in 1..MaxInt
    <3> SUFFICES ASSUME NEW j \in InFlight', NEW c \in Client, NEW n \in UtxoName,
                        UtxoKey(c, n) \in DOMAIN pool'[j].writes,
                        pool'[j].writes[UtxoKey(c, n)] # Absent
                 PROVE  /\ n[1] = j
                        /\ world[UtxoKey(c, n)] = Absent
                        /\ pool'[j].writes[UtxoKey(c, n)] \in 1..MaxInt
      OBVIOUS
    <3>1. CASE j = id
      <4>1. n[1] = id /\ pool'[j].writes[UtxoKey(c, n)] \in 1..MaxInt
        BY <1>4, <3>1 DEF Simulated, UtxoWrite
      <4>2. world[UtxoKey(c, n)] = Absent
        BY <1>1, <4>1 DEF IInv, NamesAreIssued
      <4> QED
        BY <3>1, <4>1, <4>2
    <3>2. CASE j # id
      BY <1>3, <3>2 DEF IInv, TypeOK
    <3> QED
      BY <3>1, <3>2
  <2>2. InFlight' \subseteq issued'
    BY <1>1, <1>3 DEF IInv, TypeOK
  <2> QED
    BY <1>1, <2>1, <2>2 DEF IInv, TypeOK
<1> QED
  BY <1>4, <1>5, <1>6, <1>7 DEF IInv

\* An invalid or a lost transaction leaves no trace.
LEMMA DroppedInv ==
    ASSUME IInv, NEW id \in TxId, pool' = [pool EXCEPT ![id] = Idle],
           UNCHANGED <<world, version, height, issued>>
    PROVE  IInv'
<1>1. \A j \in InFlight' : j \in InFlight /\ pool'[j] = pool[j]
  BY DEF InFlight, IInv, LedgerOK
<1>2. TypeOK'
  BY <1>1 DEF IInv, TypeOK
<1>3. LedgerOK'
  BY DEF IInv, LedgerOK
<1>4. \A j \in InFlight' : Simulated(j, pool'[j])
  BY <1>1 DEF IInv
<1> QED
  BY <1>2, <1>3, <1>4 DEF IInv, NamesAreIssued

-----------------------------------------------------------------------------
(* The simulation of each contract function.                               *)

\* Initialize, which found no name, writes both options.
LEMMA InitializeInv ==
    ASSUME IInv, NEW id \in TxId, NEW sender \in Client,
           NEW name \in Option, NEW symbol \in Option,
           Initialize(id, sender, name, symbol)
    PROVE  IInv'
<1> DEFINE W == OptionWrites(name, symbol)
           K == {OptionKey("name")}
<1>1. K \in SUBSET Key
  BY KeyFacts
<1>2. /\ DOMAIN W = OptionKeys
      /\ \A k \in OptionKeys : W[k] \in Option \union {Absent}
  BY DEF OptionWrites, Stored
<1>3. version[OptionKey("name")] = 0
  BY KeyFacts DEF Initialize, Initialized, IInv, LedgerOK
<1>4. Submit(id, sender, K, W, Response("Initialize", <<>>))
  BY DEF Initialize
<1> HIDE DEF W
<1>5. ASSUME NEW tx, tx.writes = W, DOMAIN tx.reads = K,
             \A k \in K : tx.reads[k].version = version[k]
      PROVE  Simulated(id, tx)
  <2>1. OptionsWritten(tx)
    BY <1>2, <1>3, <1>5 DEF OptionsWritten, FoundAbsent
  <2>2. \A c \in Client, n \in UtxoName : UtxoKey(c, n) \notin DOMAIN tx.writes
    BY <1>2, <1>5, KeyFacts
  <2>3. DOMAIN tx.writes \subseteq Key
    BY <1>2, <1>5, KeyFacts
  <2> QED
    BY <2>1, <2>2, <2>3 DEF Simulated, UtxoWrite
<1> HIDE DEF K
<1> QED
  BY <1>1, <1>4, <1>5, SubmitInv

\* Mint writes one UTXO under its own id.
LEMMA MintInv ==
    ASSUME IInv, NEW id \in TxId, NEW minter \in Client, NEW amount \in Amount,
           Mint(id, minter, amount)
    PROVE  IInv'
<1> DEFINE key == UtxoKey(minter, <<id, 0>>)
           W == Put(key, amount)
           K == {OptionKey("name")}
<1>1. K \in SUBSET Key
  BY KeyFacts
<1>2. DOMAIN W = {key} /\ W[key] = amount
  BY DEF Put
<1>3. <<id, 0>> \in UtxoName /\ <<id, 0>>[1] = id
  <2>1. 1 \in 1..MaxList
    BY ConstantAssumption
  <2> QED
    BY <2>1, NameFacts
<1>4. Submit(id, minter, K, W, Response("Mint", <<[owner |-> minter, amount |-> amount]>>))
  BY DEF Mint
<1>5. amount \in 1..MaxInt /\ amount # Absent
  BY ValueFacts
<1> HIDE DEF W
<1>6. ASSUME NEW tx, tx.writes = W
      PROVE  Simulated(id, tx)
  <2>1. DOMAIN tx.writes \subseteq Key
    BY <1>2, <1>3, <1>6, KeyFacts
  <2>2. \A k \in OptionKeys : k \notin DOMAIN tx.writes
    BY <1>2, <1>6, KeyFacts
  <2>3. ASSUME NEW c \in Client, NEW n \in UtxoName, UtxoKey(c, n) \in DOMAIN tx.writes
        PROVE  n[1] = id /\ tx.writes[UtxoKey(c, n)] = amount
    BY <1>2, <1>3, <1>6, <2>3, KeyFacts
  <2> QED
    BY <1>5, <2>1, <2>2, <2>3 DEF Simulated, UtxoWrite, OptionsWritten
<1> HIDE DEF K
<1> QED
  BY <1>1, <1>4, <1>6, SubmitInv

\* Transfer deletes UTXOs it found under its caller and creates UTXOs under its
\* own id.
LEMMA TransferInv ==
    ASSUME IInv, NEW id \in TxId, NEW client \in Client,
           NEW inputs \in BoundedSeq(ClientUTXOs(client), MaxList),
           NEW outputs \in BoundedSeq(Output, MaxList),
           Transfer(id, client, inputs, outputs)
    PROVE  IInv'
<1> DEFINE W == TransferWrites(id, client, inputs, outputs)
           K == TransferReads(client, inputs)
           spent == {UtxoKey(client, n) : n \in ToSet(inputs)}
           created == {UtxoKey(outputs[i].owner, <<id, i - 1>>) : i \in DOMAIN outputs}
<1>1. ToSet(inputs) \subseteq UtxoName
  BY ListFacts DEF ClientUTXOs
<1>2. ASSUME NEW i \in DOMAIN outputs
      PROVE  /\ i \in 1..MaxList
             /\ outputs[i].owner \in Client /\ outputs[i].amount \in Amount
             /\ <<id, i - 1>> \in UtxoName
             /\ <<id, i - 1>>[1] = id /\ <<id, i - 1>>[2] + 1 = i
  <2>1. i \in 1..MaxList /\ outputs[i] \in Output
    BY ListFacts
  <2> QED
    BY <2>1, NameFacts DEF Output
<1>3. K \in SUBSET Key /\ spent \subseteq K
  BY <1>1, KeyFacts DEF TransferReads
<1>4. ASSUME NEW k \in spent \union created
      PROVE  \E c \in Client, n \in UtxoName : k = UtxoKey(c, n)
  <2>1. CASE k \in spent
    BY <1>1, <2>1
  <2>2. CASE k \in created
    <3>1. PICK i \in DOMAIN outputs : k = UtxoKey(outputs[i].owner, <<id, i - 1>>)
      BY <2>2
    <3> QED
      BY <1>2, <3>1
  <2> QED
    BY <1>4, <2>1, <2>2
<1>5. \A k \in spent : version[k] # 0
  <2>1. \A n \in ToSet(inputs) : world[UtxoKey(client, n)] # Absent
    BY DEF Transfer
  <2> QED
    BY <1>1, <2>1, KeyFacts DEF IInv, LedgerOK
<1>6. /\ DOMAIN W = spent \union created
      /\ \A k \in spent : W[k] = Absent
      /\ \A k \in created \ spent : W[k] = outputs[k[2][2][2] + 1].amount
  BY DEF TransferWrites
<1>7. Submit(id, client, K, W, Response("Transfer", outputs))
  BY DEF Transfer
<1> HIDE DEF W, K
<1>8. DOMAIN W \subseteq Key /\ (\A k \in OptionKeys : k \notin DOMAIN W)
  <2>1. ASSUME NEW k \in DOMAIN W
        PROVE  k \in Key /\ k \notin OptionKeys
    <3>1. k \in spent \union created
      BY <1>6
    <3>2. PICK c \in Client, n \in UtxoName : k = UtxoKey(c, n)
      BY <1>4, <3>1
    <3> QED
      BY <3>2, KeyFacts
  <2> QED
    BY <2>1
<1>9. ASSUME NEW tx, tx.creator = client, tx.writes = W, DOMAIN tx.reads = K,
             \A k \in K : tx.reads[k].version = version[k]
      PROVE  Simulated(id, tx)
  <2>1. DOMAIN tx.writes \subseteq Key
    BY <1>9, <1>8
  <2>2. \A k \in OptionKeys : k \notin DOMAIN tx.writes
    BY <1>9, <1>8
  <2>3. ASSUME NEW c \in Client, NEW n \in UtxoName, UtxoKey(c, n) \in spent
        PROVE  c = tx.creator /\ FoundThere(tx, UtxoKey(c, n)) /\ W[UtxoKey(c, n)] = Absent
    BY <1>3, <1>5, <1>6, <1>9, <2>3, KeyFacts DEF FoundThere
  <2>4. ASSUME NEW c \in Client, NEW n \in UtxoName,
               UtxoKey(c, n) \in created \ spent
        PROVE  /\ n[1] = id
               /\ W[UtxoKey(c, n)] \in 1..MaxInt /\ W[UtxoKey(c, n)] # Absent
    <3>1. PICK i \in DOMAIN outputs : UtxoKey(c, n) = UtxoKey(outputs[i].owner, <<id, i - 1>>)
      BY <2>4
    <3>2. n = <<id, i - 1>>
      BY <3>1, KeyFacts
    <3>3. UtxoKey(c, n)[2][2] = n
      BY DEF UtxoKey
    <3>4. W[UtxoKey(c, n)] = outputs[i].amount
      BY <1>2, <1>6, <2>4, <3>2, <3>3
    <3> QED
      BY <1>2, <3>2, <3>4, ValueFacts
  <2> QED
    BY <1>6, <1>9, <2>1, <2>2, <2>3, <2>4 DEF Simulated, UtxoWrite, OptionsWritten
<1> QED
  BY <1>3, <1>7, <1>9, SubmitInv
-----------------------------------------------------------------------------
(* The commit.                                                             *)

\* What a commit does to the ledger and to the pool.
LEMMA CommitFacts ==
    ASSUME IInv, NEW id \in TxId, CommitValid(id)
    PROVE  /\ id \in InFlight /\ Simulated(id, pool[id])
           /\ DOMAIN world' = Key /\ DOMAIN version' = Key /\ DOMAIN pool' = TxId
           /\ \A k \in Key \ DOMAIN pool[id].writes :
                 world'[k] = world[k] /\ version'[k] = version[k]
           /\ \A k \in DOMAIN pool[id].writes :
                 /\ world'[k] = pool[id].writes[k]
                 /\ version'[k] = IF pool[id].writes[k] = Absent THEN 0 ELSE height + 1
           /\ \A k \in DOMAIN pool[id].reads : pool[id].reads[k].version = version[k]
           /\ pool'[id] = Idle
           /\ \A j \in InFlight' : j # id /\ j \in InFlight /\ pool'[j] = pool[j]
<1>1. id \in InFlight /\ Simulated(id, pool[id])
  BY DEF CommitValid, InFlight, IInv
<1>2. DOMAIN pool[id].writes \subseteq Key
  BY <1>1 DEF Simulated
<1>3. pool' = [pool EXCEPT ![id] = Idle] /\ DOMAIN pool = TxId
  BY DEF CommitValid, IInv, LedgerOK
<1>4. /\ pool'[id] = Idle /\ DOMAIN pool' = TxId
      /\ \A j \in InFlight' : j # id /\ j \in InFlight /\ pool'[j] = pool[j]
  BY <1>3 DEF InFlight
<1>5. /\ world' = Applied(pool[id].writes)
      /\ version' = VersionAfter(pool[id].writes)
      /\ Valid(pool[id])
  BY DEF CommitValid
<1>6. /\ DOMAIN world' = Key
      /\ \A k \in Key \ DOMAIN pool[id].writes : world'[k] = world[k]
      /\ \A k \in DOMAIN pool[id].writes : world'[k] = pool[id].writes[k]
  BY <1>2, <1>5 DEF Applied
<1>7. /\ DOMAIN version' = Key
      /\ \A k \in Key \ DOMAIN pool[id].writes : version'[k] = version[k]
      /\ \A k \in DOMAIN pool[id].writes :
            version'[k] = IF pool[id].writes[k] = Absent THEN 0 ELSE height + 1
  BY <1>2, <1>5 DEF VersionAfter
<1>8. \A k \in DOMAIN pool[id].reads : pool[id].reads[k].version = version[k]
  BY <1>5 DEF Valid
<1> QED
  BY <1>1, <1>4, <1>6, <1>7, <1>8

\* A valid transaction that writes an option commits while there is no name.
LEMMA CommitOptions ==
    ASSUME IInv, NEW id \in TxId, CommitValid(id),
           NEW k \in OptionKeys, k \in DOMAIN pool[id].writes
    PROVE  /\ ~Initialized
           /\ \A o \in OptionKeys : world'[o] \in Option \union {Absent}
<1>1. /\ FoundAbsent(pool[id], OptionKey("name"))
      /\ \A o \in OptionKeys :
            o \in DOMAIN pool[id].writes /\ pool[id].writes[o] \in Option \union {Absent}
  BY CommitFacts DEF Simulated, OptionsWritten
<1>2. version[OptionKey("name")] = 0
  BY <1>1, CommitFacts DEF FoundAbsent
<1>3. ~Initialized
  BY <1>2, KeyFacts DEF Initialized, IInv, LedgerOK
<1> QED
  BY <1>1, <1>3, CommitFacts

\* A commit preserves the invariant.
LEMMA CommitInv ==
    ASSUME IInv, NEW id \in TxId, CommitValid(id), UNCHANGED issued
    PROVE  IInv'
<1> DEFINE W == DOMAIN pool[id].writes
<1>1. /\ id \in InFlight /\ Simulated(id, pool[id])
      /\ DOMAIN world' = Key /\ DOMAIN version' = Key /\ DOMAIN pool' = TxId
      /\ \A k \in Key \ W : world'[k] = world[k] /\ version'[k] = version[k]
      /\ \A k \in W :
            /\ world'[k] = pool[id].writes[k]
            /\ version'[k] = IF pool[id].writes[k] = Absent THEN 0 ELSE height + 1
      /\ \A j \in InFlight' : j # id /\ j \in InFlight /\ pool'[j] = pool[j]
  BY CommitFacts
<1>2. height' = height + 1 /\ height < MaxHeight
  BY DEF CommitValid
<1>3. LedgerOK'
  <2>1. height' \in 0..MaxHeight
    <3>1. height \in 0..MaxHeight /\ MaxHeight \in Nat
      BY MaxHeightAssumption DEF IInv, LedgerOK
    <3> QED
      BY <1>2, <3>1
  <2>2. \A k \in Key : version'[k] = 0 <=> world'[k] = Absent
    <3>1. height + 1 # 0
      BY Heights DEF IInv
    <3>2. \A k \in Key : version[k] = 0 <=> world[k] = Absent
      BY DEF IInv, LedgerOK
    <3> HIDE DEF W
    <3> QED
      BY <1>1, <3>1, <3>2
  <2> QED
    BY <1>1, <2>1, <2>2 DEF LedgerOK
<1>4. \A j \in InFlight' : Simulated(j, pool'[j])
  BY <1>1 DEF IInv
\* What the commit did to a UTXO.
<1>5. ASSUME NEW c \in Client, NEW n \in UtxoName
      PROVE  \/ world'[UtxoKey(c, n)] = world[UtxoKey(c, n)]
             \/ world'[UtxoKey(c, n)] = Absent
             \/ n[1] = id /\ world'[UtxoKey(c, n)] \in 1..MaxInt
  <2>1. UtxoKey(c, n) \in Key
    BY KeyFacts
  <2>2. CASE UtxoKey(c, n) \in W
    BY <1>1, <2>2 DEF Simulated, UtxoWrite
  <2> QED
    BY <1>1, <2>1, <2>2
<1>6. NamesAreIssued'
  BY <1>1, <1>5 DEF IInv, TypeOK, NamesAreIssued
<1>7. TypeOK'
  <2>1. \A k \in UtxoKeys : world'[k] # Absent => world'[k] \in 1..MaxInt
    BY <1>5 DEF UtxoKeys, IInv, TypeOK
  <2>2. \A k \in OptionKeys : world'[k] \in Option \union {Absent}
    <3>1. CASE \E k \in OptionKeys : k \in W
      BY <3>1, CommitOptions
    <3>2. CASE \A k \in OptionKeys : k \notin W
      <4>1. \A k \in OptionKeys : world'[k] = world[k]
        BY <1>1, <3>2, KeyFacts
      <4> QED
        BY <4>1, KeyFacts DEF IInv, TypeOK
    <3> QED
      BY <3>1, <3>2
  <2>3. height' \in 0..MaxHeight
    BY <1>3 DEF LedgerOK
  <2>4. InFlight' \subseteq issued'
    BY <1>1 DEF IInv, TypeOK
  <2>5. ASSUME NEW j \in InFlight', NEW c \in Client, NEW n \in UtxoName,
               UtxoKey(c, n) \in DOMAIN pool'[j].writes,
               pool'[j].writes[UtxoKey(c, n)] # Absent
        PROVE  /\ n[1] = j
               /\ world'[UtxoKey(c, n)] = Absent
               /\ pool'[j].writes[UtxoKey(c, n)] \in 1..MaxInt
    <3>1. j # id /\ j \in InFlight /\ pool'[j] = pool[j]
      BY <1>1, <2>5
    <3>2. /\ n[1] = j
          /\ world[UtxoKey(c, n)] = Absent
          /\ pool[j].writes[UtxoKey(c, n)] \in 1..MaxInt
      BY <2>5, <3>1 DEF IInv, TypeOK
    <3> QED
      BY <1>5, <3>1, <3>2
  <2> QED
    BY <2>1, <2>2, <2>3, <2>4, <2>5 DEF TypeOK
<1> QED
  BY <1>3, <1>4, <1>6, <1>7 DEF IInv

-----------------------------------------------------------------------------
(* The theorems.                                                           *)

\* The empty ledger satisfies the invariant.
LEMMA InitInv == Init => IInv
<1> SUFFICES ASSUME Init PROVE IInv
  OBVIOUS
<1>1. /\ world = [k \in Key |-> Absent] /\ version = [k \in Key |-> 0]
      /\ height = 0 /\ pool = [id \in TxId |-> Idle] /\ InFlight = {}
  BY DEF Init, LedgerInit, InFlight
<1>2. height \in 0..MaxHeight
  BY <1>1, MaxHeightAssumption
<1>3. LedgerOK
  BY <1>1, <1>2 DEF LedgerOK
<1>4. \A k \in UtxoKeys \union OptionKeys : world[k] = Absent
  BY <1>1, KeyAssumption
<1>5. TypeOK
  BY <1>1, <1>2, <1>4, KeyFacts DEF TypeOK
<1>6. NamesAreIssued
  BY <1>1, KeyFacts DEF NamesAreIssued
<1> QED
  BY <1>1, <1>3, <1>5, <1>6 DEF IInv

\* Every simulation preserves the invariant.
LEMMA SimulateInv ==
    ASSUME IInv, NEW id \in TxId, Simulate(id)
    PROVE  IInv'
<1>1. PICK sender \in Client :
        \/ \E name, symbol \in Option : Initialize(id, sender, name, symbol)
        \/ \E amount \in Amount : Mint(id, sender, amount)
        \/ \E inputs \in BoundedSeq(ClientUTXOs(sender), MaxList),
              outputs \in BoundedSeq(Output, MaxList) :
                 Transfer(id, sender, inputs, outputs)
  BY DEF Simulate
<1> QED
  BY <1>1, InitializeInv, MintInv, TransferInv

\* The inductive invariant: an id is used once and names the UTXOs of its own
\* transaction only, and a transaction in flight deletes UTXOs it found.
THEOREM Inductive == Spec => []IInv
<1>1. IInv /\ [Next]_vars => IInv'
  <2> SUFFICES ASSUME IInv, [Next]_vars PROVE IInv'
    OBVIOUS
  <2>1. ASSUME NEW id \in TxId, Simulate(id)
        PROVE  IInv'
    BY <2>1, SimulateInv
  <2>2. ASSUME NEW id \in TxId, CommitValid(id), UNCHANGED issued
        PROVE  IInv'
    BY <2>2, CommitInv
  <2>3. ASSUME NEW id \in TxId, MarkInvalid(id) \/ Lose(id), UNCHANGED issued
        PROVE  IInv'
    BY <2>3, DroppedInv DEF MarkInvalid, Lose
  <2>4. CASE UNCHANGED vars
    BY <2>4 DEF vars, IInv, TypeOK, LedgerOK, NamesAreIssued, InFlight
  <2> QED
    BY <2>1, <2>2, <2>3, <2>4 DEF Next
<1> QED
  BY <1>1, InitInv, PTL DEF Spec

\* Every amount is a positive int, and a transaction in flight only creates UTXOs
\* that bear its own id, where there are none.
THEOREM TypeCorrect == Spec => []TypeOK
<1>1. IInv => TypeOK
  BY DEF IInv
<1> QED
  BY <1>1, Inductive, PTL

\* All that a simulation does to the ledger is to put a transaction into the pool.
Joins(id) ==
    /\ pool[id] = Idle /\ \E tx : pool' = [pool EXCEPT ![id] = tx]
    /\ UNCHANGED <<world, version, height>>

LEMMA OnlyJoins == ASSUME NEW id, Simulate(id) PROVE Joins(id)
<1>1. PICK sender \in Client : \E K, writes, response : Submit(id, sender, K, writes, response)
  BY DEF Simulate, Initialize, Mint, Transfer
<1> QED
  BY <1>1 DEF Submit, Endorse, CanEndorse, Joins

\* Only the commit of a valid transaction writes the ledger.
LEMMA OnlyCommitWrites ==
    Next => \/ \E id \in TxId : CommitValid(id) /\ UNCHANGED issued
            \/ UNCHANGED <<world, version, height>>
  BY OnlyJoins DEF Next, MarkInvalid, Lose, Joins

\* Nobody creates a UTXO but the transaction whose id it bears, nobody spends it
\* but the client that owns it, and nobody changes it.
THEOREM OnlyTheOwner == Spec => OnlyOwnerSpends
<1> DEFINE P == \A c \in Client, n \in UtxoName :
                  LET k == UtxoKey(c, n) IN
                  world'[k] # world[k] =>
                     \E id \in InFlight :
                        /\ pool'[id] = Idle
                        /\ IF world[k] = Absent THEN n[1] = id
                           ELSE world'[k] = Absent /\ pool[id].creator = c
<1>1. IInv /\ [Next]_vars => [P]_vars
  <2> SUFFICES ASSUME IInv, Next,
                      NEW c \in Client, NEW n \in UtxoName,
                      world'[UtxoKey(c, n)] # world[UtxoKey(c, n)]
               PROVE  \E id \in InFlight :
                        /\ pool'[id] = Idle
                        /\ IF world[UtxoKey(c, n)] = Absent THEN n[1] = id
                           ELSE world'[UtxoKey(c, n)] = Absent /\ pool[id].creator = c
    OBVIOUS
  <2>1. PICK id \in TxId : CommitValid(id)
    BY OnlyCommitWrites
  <2>2. id \in InFlight /\ pool'[id] = Idle /\ Simulated(id, pool[id])
    BY <2>1, CommitFacts
  <2>3. /\ UtxoKey(c, n) \in DOMAIN pool[id].writes
        /\ world'[UtxoKey(c, n)] = pool[id].writes[UtxoKey(c, n)]
    BY <2>1, CommitFacts, KeyFacts
  <2>4. IF world'[UtxoKey(c, n)] = Absent THEN c = pool[id].creator
        ELSE n[1] = id /\ world[UtxoKey(c, n)] = Absent
    BY <2>2, <2>3 DEF Simulated, UtxoWrite, IInv, TypeOK
  <2> QED
    BY <2>2, <2>4
<1>2. Spec => [][P]_vars
  BY <1>1, Inductive, PTL DEF Spec
<1> QED
  BY <1>2 DEF OnlyOwnerSpends

\* However many transfers of a UTXO were endorsed side by side, one at most
\* commits: each committed transfer deletes UTXOs that were there.
THEOREM SpentOnce == Spec => NoDoubleSpend
<1> DEFINE P == \A id \in InFlight :
                  pool'[id] = Idle /\ height' # height =>
                     \A k \in UtxoKeys \intersect DOMAIN pool[id].writes :
                        pool[id].writes[k] = Absent => world[k] # Absent
<1>1. IInv /\ [Next]_vars => [P]_vars
  <2> SUFFICES ASSUME IInv, Next, NEW id \in InFlight, pool'[id] = Idle, height' # height,
                      NEW k \in UtxoKeys \intersect DOMAIN pool[id].writes,
                      pool[id].writes[k] = Absent
               PROVE  world[k] # Absent
    OBVIOUS
  <2>1. PICK i \in TxId : CommitValid(i)
    BY OnlyCommitWrites
  <2>2. CommitValid(id)
    BY <2>1 DEF CommitValid, InFlight, IInv, LedgerOK
  <2>3. /\ Simulated(id, pool[id]) /\ id \in TxId
        /\ \A r \in DOMAIN pool[id].reads : pool[id].reads[r].version = version[r]
    BY <2>2, CommitFacts DEF InFlight
  <2>4. k \in Key
    BY KeyAssumption
  <2>5. PICK c \in Client, n \in UtxoName : k = UtxoKey(c, n)
    BY DEF UtxoKeys
  <2>6. FoundThere(pool[id], k)
    BY <2>3, <2>5 DEF Simulated, UtxoWrite
  <2>7. version[k] # 0
    BY <2>3, <2>6 DEF FoundThere
  <2> QED
    BY <2>4, <2>7 DEF IInv, LedgerOK
<1>2. Spec => [][P]_vars
  BY <1>1, Inductive, PTL DEF Spec
<1> QED
  BY <1>2 DEF NoDoubleSpend

\* Of all the calls of Initialize that were endorsed, one at most commits.
THEOREM OneInitialization == Spec => InitializedOnce
<1> DEFINE P == Initialized => \A k \in OptionKeys : version'[k] = version[k]
<1>1. IInv /\ [Next]_vars => [P]_vars
  <2> SUFFICES ASSUME IInv, Next, Initialized, NEW k \in OptionKeys
               PROVE  version'[k] = version[k]
    OBVIOUS
  <2>1. CASE UNCHANGED version
    BY <2>1
  <2>2. ASSUME NEW id \in TxId, CommitValid(id)
        PROVE  version'[k] = version[k]
    <3>1. k \notin DOMAIN pool[id].writes
      BY <2>2, CommitOptions
    <3> QED
      BY <2>2, <3>1, CommitFacts, KeyFacts
  <2> QED
    BY <2>1, <2>2, OnlyCommitWrites
<1>2. Spec => [][P]_vars
  BY <1>1, Inductive, PTL DEF Spec
<1> QED
  BY <1>2 DEF InitializedOnce

-----------------------------------------------------------------------------
(* What a transaction in flight will do to the accounts, as an invariant.  *)

\* What a transaction read is of the past, and still there if its version is.
ReadsOK(tx) ==
    /\ DOMAIN tx.reads \subseteq Key
    /\ \A k \in DOMAIN tx.reads :
          /\ tx.reads[k].version \in 0..height
          /\ tx.reads[k].version = 0 <=> tx.reads[k].value = Absent
          /\ tx.reads[k].version = version[k] => tx.reads[k].value = world[k]

\* The amounts a transfer found, and those it creates.
FoundAmounts(tx, inputs) ==
    [i \in DOMAIN inputs |-> tx.reads[UtxoKey(tx.creator, inputs[i])].value]
Amounts(outputs) == [i \in DOMAIN outputs |-> outputs[i].amount]

Initializing(tx) ==
    /\ tx.event = Response("Initialize", <<>>)
    /\ DOMAIN tx.writes \subseteq OptionKeys

\* A mint gives its creator one UTXO, and answers it.
Minting(tx) ==
    /\ tx.creator \in Minter
    /\ \E n \in UtxoName : \E a \in Amount :
          /\ tx.writes = Put(UtxoKey(tx.creator, n), a)
          /\ tx.event = Response("Mint", <<[owner |-> tx.creator, amount |-> a]>>)

\* The arguments explain a transfer: what it found under them has, by its own
\* sum, the total of what it creates.
MovesBy(id, tx, inputs, outputs) ==
    /\ IsInjective(inputs)
    /\ \A n \in ToSet(inputs) :
          /\ n[1] # id
          /\ FoundThere(tx, UtxoKey(tx.creator, n))
    /\ Sum(FoundAmounts(tx, inputs)) = Sum(Amounts(outputs))
    /\ tx.writes = TransferWrites(id, tx.creator, inputs, outputs)
    /\ tx.event = Response("Transfer", outputs)

Moving(id, tx) ==
    /\ tx.creator \in Client
    /\ \E inputs \in BoundedSeq(UtxoName, MaxList) :
          \E outputs \in BoundedSeq(Output, MaxList) : MovesBy(id, tx, inputs, outputs)

Explained(id, tx) == Initializing(tx) \/ Minting(tx) \/ Moving(id, tx)

FlowInv ==
    /\ IsFiniteSet(issued)
    /\ \A k \in Key : version[k] \in 0..height
    /\ \A id \in InFlight : ReadsOK(pool[id]) /\ Explained(id, pool[id])

-----------------------------------------------------------------------------

\* A transaction endorsed on the current state read what is there.
LEMMA SubmitFlow ==
    ASSUME IInv, FlowInv, NEW id \in TxId, NEW sender, NEW K \in SUBSET Key,
           NEW writes, NEW response, Submit(id, sender, K, writes, response),
           \A tx : /\ tx.creator = sender /\ tx.writes = writes /\ tx.event = response
                   /\ DOMAIN tx.reads = K
                   /\ \A k \in K : tx.reads[k].version = version[k] /\ tx.reads[k].value = world[k]
                   => Explained(id, tx)
    PROVE  FlowInv'
<1> DEFINE tx == pool'[id]
<1>1. /\ UNCHANGED <<world, version, height>>
      /\ \A j \in TxId \ {id} : pool'[j] = pool[j]
      /\ tx.creator = sender /\ tx.event = response /\ tx.writes = writes
      /\ DOMAIN tx.reads = K
      /\ \A k \in K : tx.reads[k].version = version[k] /\ tx.reads[k].value = world[k]
      /\ issued' = issued \union {id}
  BY DEF Submit, Endorse, ReadSet, IInv, LedgerOK
<1>2. Explained(id, tx)
  BY <1>1
<1> HIDE DEF tx
<1>3. ReadsOK(pool[id])'
  <2>1. \A k \in K : /\ version[k] \in 0..height
                     /\ version[k] = 0 <=> world[k] = Absent
    BY DEF FlowInv, IInv, LedgerOK
  <2>2. \A k \in DOMAIN tx.reads :
           /\ tx.reads[k].version \in 0..height
           /\ tx.reads[k].version = 0 <=> tx.reads[k].value = Absent
           /\ tx.reads[k].version = version[k] => tx.reads[k].value = world[k]
    BY <1>1, <2>1
  <2> QED
    BY <1>1, <2>2 DEF ReadsOK, tx
<1>4. \A j \in InFlight' : j = id \/ (j \in InFlight /\ pool'[j] = pool[j])
  BY <1>1 DEF InFlight
<1>5. \A j \in InFlight' : ReadsOK(pool[j])' /\ Explained(j, pool'[j])
  <2> SUFFICES ASSUME NEW j \in InFlight'
               PROVE  ReadsOK(pool[j])' /\ Explained(j, pool'[j])
    OBVIOUS
  <2>1. CASE j = id
    BY <1>2, <1>3, <2>1 DEF tx
  <2>2. CASE j \in InFlight /\ pool'[j] = pool[j]
    BY <1>1, <2>2 DEF FlowInv, ReadsOK
  <2> QED
    BY <1>4, <2>1, <2>2
<1>6. IsFiniteSet(issued')
  BY <1>1, FS_AddElement DEF FlowInv
<1>7. \A k \in Key : version'[k] \in 0..height'
  BY <1>1 DEF FlowInv
<1> QED
  BY <1>5, <1>6, <1>7 DEF FlowInv

\* An invalid or a lost transaction leaves no trace.
LEMMA DroppedFlow ==
    ASSUME IInv, FlowInv, NEW id \in TxId, pool' = [pool EXCEPT ![id] = Idle],
           UNCHANGED <<world, version, height, issued>>
    PROVE  FlowInv'
<1>1. \A j \in InFlight' : j \in InFlight /\ pool'[j] = pool[j]
  BY DEF InFlight, IInv, LedgerOK
<1>2. \A j \in InFlight' : ReadsOK(pool[j])' /\ Explained(j, pool'[j])
  BY <1>1 DEF FlowInv, ReadsOK
<1> QED
  BY <1>2 DEF FlowInv

\* Initialize writes no UTXO.
LEMMA InitializeFlow ==
    ASSUME IInv, FlowInv, NEW id \in TxId, NEW sender \in Client,
           NEW name \in Option, NEW symbol \in Option,
           Initialize(id, sender, name, symbol)
    PROVE  FlowInv'
<1> DEFINE W == OptionWrites(name, symbol)
           K == {OptionKey("name")}
<1>1. K \in SUBSET Key
  BY KeyFacts
<1>2. DOMAIN W = OptionKeys
  BY DEF OptionWrites
<1>3. Submit(id, sender, K, W, Response("Initialize", <<>>))
  BY DEF Initialize
<1> HIDE DEF W, K
<1>4. ASSUME NEW tx, tx.writes = W, tx.event = Response("Initialize", <<>>)
      PROVE  Explained(id, tx)
  BY <1>2, <1>4 DEF Explained, Initializing
<1> QED
  BY <1>1, <1>3, <1>4, SubmitFlow

\* Mint creates one UTXO, and a minter called it.
LEMMA MintFlow ==
    ASSUME IInv, FlowInv, NEW id \in TxId, NEW minter \in Client, NEW amount \in Amount,
           Mint(id, minter, amount)
    PROVE  FlowInv'
<1> DEFINE W == Put(UtxoKey(minter, <<id, 0>>), amount)
           K == {OptionKey("name")}
           R == Response("Mint", <<[owner |-> minter, amount |-> amount]>>)
<1>1. K \in SUBSET Key
  BY KeyFacts
<1>2. <<id, 0>> \in UtxoName
  <2>1. 1 \in 1..MaxList
    BY ConstantAssumption
  <2> QED
    BY <2>1, NameFacts
<1>3. Submit(id, minter, K, W, R) /\ minter \in Minter
  BY DEF Mint
<1>4. ASSUME NEW tx, tx.writes = W, tx.creator = minter, tx.event = R
      PROVE  Explained(id, tx)
  BY <1>2, <1>3, <1>4, Zenon DEF Explained, Minting
<1> HIDE DEF W, K, R
<1> QED
  BY <1>1, <1>3, <1>4, SubmitFlow

\* Transfer found what it deletes, none of it under its own id, and compared
\* the sum of what it found with that of what it creates.
LEMMA TransferFlow ==
    ASSUME IInv, FlowInv, NEW id \in TxId, NEW client \in Client,
           NEW inputs \in BoundedSeq(ClientUTXOs(client), MaxList),
           NEW outputs \in BoundedSeq(Output, MaxList),
           Transfer(id, client, inputs, outputs)
    PROVE  FlowInv'
<1> DEFINE W == TransferWrites(id, client, inputs, outputs)
           K == TransferReads(client, inputs)
<1>1. ToSet(inputs) \subseteq ClientUTXOs(client) /\ ToSet(inputs) \subseteq UtxoName
  BY ListFacts DEF ClientUTXOs
<1>2. \A i \in DOMAIN inputs : inputs[i] \in ToSet(inputs)
  BY DEF ToSet
<1>3. K \in SUBSET Key /\ \A n \in ToSet(inputs) : UtxoKey(client, n) \in K
  BY <1>1, KeyFacts DEF TransferReads
<1>4. \A n \in ToSet(inputs) : n[1] # id /\ version[UtxoKey(client, n)] # 0
  <2>1. \A n \in ToSet(inputs) : world[UtxoKey(client, n)] # Absent
    BY DEF Transfer
  <2>2. id \notin issued
    BY DEF Transfer, Submit
  <2> QED
    BY <1>1, <2>1, <2>2, KeyFacts DEF IInv, LedgerOK, NamesAreIssued
<1>5. inputs \in BoundedSeq(UtxoName, MaxList)
  <2>1. ClientUTXOs(client) \subseteq UtxoName
    BY DEF ClientUTXOs
  <2>2. PICK m \in 0..MaxList : inputs \in [1..m -> ClientUTXOs(client)]
    BY DEF BoundedSeq, SeqOf
  <2>3. inputs \in [1..m -> UtxoName]
    BY <2>1, <2>2
  <2> QED
    BY <2>3 DEF BoundedSeq, SeqOf
<1>6. /\ Submit(id, client, K, W, Response("Transfer", outputs))
      /\ IsInjective(inputs)
      /\ Sum([i \in DOMAIN inputs |-> world[UtxoKey(client, inputs[i])]]) = Sum(Amounts(outputs))
  BY DEF Transfer, Amounts
<1> HIDE DEF W, K
<1>7. ASSUME NEW tx, tx.writes = W, tx.creator = client,
             tx.event = Response("Transfer", outputs),
             DOMAIN tx.reads = K,
             \A k \in K : tx.reads[k].version = version[k] /\ tx.reads[k].value = world[k]
      PROVE  Explained(id, tx)
  <2>1. FoundAmounts(tx, inputs) = [i \in DOMAIN inputs |-> world[UtxoKey(client, inputs[i])]]
    BY <1>2, <1>3, <1>7 DEF FoundAmounts
  <2>2. \A n \in ToSet(inputs) : n[1] # id /\ FoundThere(tx, UtxoKey(client, n))
    BY <1>3, <1>4, <1>7 DEF FoundThere
  <2>3. tx.writes = TransferWrites(id, client, inputs, outputs)
    BY <1>7 DEF W
  <2>4. MovesBy(id, tx, inputs, outputs)
    BY <1>6, <1>7, <2>1, <2>2, <2>3 DEF MovesBy
  <2> QED
    BY <1>5, <1>7, <2>4 DEF Explained, Moving
<1> QED
  BY <1>3, <1>6, <1>7, SubmitFlow

\* A commit gives what it writes a version nothing in flight has read.
LEMMA CommitFlow ==
    ASSUME IInv, FlowInv, NEW id \in TxId, CommitValid(id), UNCHANGED issued
    PROVE  FlowInv'
<1> DEFINE W == pool[id].writes
<1>1. /\ \A k \in Key \ DOMAIN W : world'[k] = world[k] /\ version'[k] = version[k]
      /\ \A k \in DOMAIN W : /\ world'[k] = W[k]
                             /\ version'[k] = IF W[k] = Absent THEN 0 ELSE height + 1
      /\ \A j \in InFlight' : j # id /\ j \in InFlight /\ pool'[j] = pool[j]
  BY CommitFacts
<1>2. height \in Nat /\ height' = height + 1
  BY Heights DEF CommitValid, IInv
<1>3. \A v : v \in 0..height => v \in 0..height' /\ v # height'
  BY <1>2
<1>4. \A k \in Key : version'[k] \in 0..height'
  <2>1. 0 \in 0..height' /\ height' \in 0..height'
    BY <1>2
  <2> HIDE DEF W
  <2> QED
    BY <1>1, <1>2, <1>3, <2>1 DEF FlowInv
<1>5. ASSUME NEW j \in InFlight'
      PROVE  ReadsOK(pool[j])' /\ Explained(j, pool'[j])
  <2>1. j \in InFlight /\ pool'[j] = pool[j]
    BY <1>1
  <2> DEFINE tx == pool[j]
  <2>2. ReadsOK(tx) /\ Explained(j, tx)
    BY <2>1 DEF FlowInv
  <2>3. ASSUME NEW k \in DOMAIN tx.reads
        PROVE  /\ tx.reads[k].version \in 0..height'
               /\ tx.reads[k].version = 0 <=> tx.reads[k].value = Absent
               /\ tx.reads[k].version = version'[k] => tx.reads[k].value = world'[k]
    <3>1. /\ tx.reads[k].version \in 0..height
          /\ tx.reads[k].version = 0 <=> tx.reads[k].value = Absent
          /\ tx.reads[k].version = version[k] => tx.reads[k].value = world[k]
      BY <2>2 DEF ReadsOK
    <3>2. tx.reads[k].version \in 0..height' /\ tx.reads[k].version # height + 1
      BY <1>2, <1>3, <3>1
    <3>3. k \in DOMAIN W \/ (version'[k] = version[k] /\ world'[k] = world[k]) \/ k \notin Key
      BY <1>1
    <3>4. CASE k \in DOMAIN W
      <4> HIDE DEF W, tx
      <4> QED
        BY <1>1, <3>1, <3>2, <3>4
    <3>5. CASE version'[k] = version[k] /\ world'[k] = world[k]
      BY <3>1, <3>2, <3>5
    <3>6. k \in Key
      BY <2>2 DEF ReadsOK
    <3> QED
      BY <3>3, <3>4, <3>5, <3>6
  <2> QED
    BY <2>1, <2>2, <2>3 DEF ReadsOK
<1> QED
  BY <1>4, <1>5 DEF FlowInv

-----------------------------------------------------------------------------
(* Balances.                                                               *)

\* The UTXOs of client c in a world state w, and their sum.
Held(w, c) == {n \in UtxoName : w[UtxoKey(c, n)] # Absent}
Coins(w, c) == [n \in UtxoName |-> w[UtxoKey(c, n)]]
BalanceIn(w, c) == SumFunctionOnSet(Coins(w, c), Held(w, c))

\* A client owns finitely many UTXOs, since finitely many transactions were
\* submitted.
LEMMA Holdings ==
    ASSUME NEW w, NEW I, IsFiniteSet(I), NEW c \in Client,
           \A n \in UtxoName : w[UtxoKey(c, n)] # Absent =>
              n[1] \in I /\ w[UtxoKey(c, n)] \in 1..MaxInt
    PROVE  /\ IsFiniteSet(Held(w, c))
           /\ \A n \in Held(w, c) : Coins(w, c)[n] = w[UtxoKey(c, n)] /\ Coins(w, c)[n] \in Nat
           /\ BalanceIn(w, c) \in Nat
           /\ SumFunction([n \in Held(w, c) |-> w[UtxoKey(c, n)]]) = BalanceIn(w, c)
<1>1. MaxList \in Nat /\ MaxInt \in Nat
  BY ConstantAssumption
<1>2. IsFiniteSet(Held(w, c))
  <2>1. 0 \in Int /\ MaxList - 1 \in Int
    BY <1>1
  <2>2. IsFiniteSet(I \X (0..(MaxList - 1)))
    BY <2>1, FS_Interval, FS_Product
  <2>3. Held(w, c) \subseteq I \X (0..(MaxList - 1))
    BY DEF Held, UtxoName
  <2> QED
    BY <2>2, <2>3, FS_Subset
<1>3. \A n \in Held(w, c) : Coins(w, c)[n] = w[UtxoKey(c, n)] /\ Coins(w, c)[n] \in Nat
  BY <1>1 DEF Held, Coins
<1>4. BalanceIn(w, c) \in Nat
  BY <1>2, <1>3, SumNat DEF BalanceIn
<1> DEFINE f == [n \in Held(w, c) |-> w[UtxoKey(c, n)]]
<1>5. DOMAIN f = Held(w, c) /\ \A n \in Held(w, c) : f[n] \in Int /\ f[n] = Coins(w, c)[n]
  BY <1>3
<1>6. SumFunction(f) = BalanceIn(w, c)
  <2> HIDE DEF f
  <2>1. SumFunction(f) = SumFunctionOnSet(f, Held(w, c))
    BY <1>5 DEF SumFunction
  <2> QED
    BY <1>2, <1>5, <2>1, SumSame DEF BalanceIn
<1> QED
  BY <1>2, <1>3, <1>4, <1>6

\* What the invariants say of the committed state.
LEMMA Committed ==
    ASSUME IInv, FlowInv, NEW c \in Client
    PROVE  /\ IsFiniteSet(issued)
           /\ \A n \in UtxoName : world[UtxoKey(c, n)] # Absent =>
                 n[1] \in issued /\ world[UtxoKey(c, n)] \in 1..MaxInt
  BY DEF IInv, FlowInv, NamesAreIssued, TypeOK, UtxoKeys

LEMMA CommittedNext ==
    ASSUME IInv', FlowInv', NEW c \in Client
    PROVE  /\ IsFiniteSet(issued')
           /\ \A n \in UtxoName : world'[UtxoKey(c, n)] # Absent =>
                 n[1] \in issued' /\ world'[UtxoKey(c, n)] \in 1..MaxInt
  BY DEF IInv, FlowInv, NamesAreIssued, TypeOK, UtxoKeys

LEMMA BalanceFacts ==
    ASSUME IInv, FlowInv, NEW c \in Client
    PROVE  Balance(c) = BalanceIn(world, c) /\ Balance(c) \in Nat
<1>1. ClientUTXOs(c) = Held(world, c)
  BY DEF ClientUTXOs, Held
<1>2. SumFunction([n \in Held(world, c) |-> world[UtxoKey(c, n)]]) = BalanceIn(world, c)
      /\ BalanceIn(world, c) \in Nat
  BY Committed, Holdings
<1> QED
  BY <1>1, <1>2 DEF Balance

LEMMA BalanceNext ==
    ASSUME IInv', FlowInv', NEW c \in Client
    PROVE  Balance(c)' = BalanceIn(world', c) /\ Balance(c)' \in Nat
<1>1. ClientUTXOs(c)' = Held(world', c)
  BY DEF ClientUTXOs, Held
<1>2. SumFunction([n \in Held(world', c) |-> world'[UtxoKey(c, n)]]) = BalanceIn(world', c)
      /\ BalanceIn(world', c) \in Nat
  BY CommittedNext, Holdings
<1> QED
  BY <1>1, <1>2 DEF Balance

\* The supply is the sum of the balances.
LEMMA SupplyFacts ==
    /\ Supply = SumFunctionOnSet([c \in Client |-> Balance(c)], Client)
    /\ Supply' = SumFunctionOnSet([c \in Client |-> Balance(c)'], Client)
<1>1. Supply = SumFunctionOnSet([c \in Client |-> Balance(c)], Client)
  BY DEF Supply, SumFunction
<1>2. Supply' = SumFunctionOnSet([c \in Client |-> Balance(c)'], Client)
  BY DEF Supply, SumFunction
<1> QED
  BY <1>1, <1>2

-----------------------------------------------------------------------------
(* What a commit does to a balance.                                        *)

\* The UTXOs of c that a transaction deletes, and those it creates.
Gone(tx, c) == {n \in UtxoName : /\ UtxoKey(c, n) \in DOMAIN tx.writes
                                 /\ tx.writes[UtxoKey(c, n)] = Absent}
Fresh(tx, c) == {n \in UtxoName : /\ UtxoKey(c, n) \in DOMAIN tx.writes
                                  /\ tx.writes[UtxoKey(c, n)] # Absent}

\* What they are worth.
Spent(tx, c) == SumFunctionOnSet(Coins(world, c), Gone(tx, c))
Created(tx, c) == SumFunctionOnSet(Coins(tx.writes, c), Fresh(tx, c))

\* A balance loses what is deleted, all of which was there, and gains what is
\* created, none of which was.
LEMMA CommitBalance ==
    ASSUME IInv, FlowInv, NEW id \in TxId, CommitValid(id), UNCHANGED issued,
           NEW c \in Client
    PROVE  /\ Balance(c) \in Nat /\ Balance(c)' \in Nat
           /\ Spent(pool[id], c) \in Nat /\ Created(pool[id], c) \in Nat
           /\ Spent(pool[id], c) <= Balance(c)
           /\ Balance(c)' + Spent(pool[id], c) = Balance(c) + Created(pool[id], c)
           /\ Gone(pool[id], c) \subseteq Held(world, c)
<1> DEFINE tx == pool[id]
           H == Held(world, c)
           G == Gone(tx, c)
           F == Fresh(tx, c)
           R == H \ G
           f == Coins(world, c)
           g == Coins(world', c)
           e == Coins(tx.writes, c)
<1>1. IInv' /\ FlowInv'
  BY CommitInv, CommitFlow
<1>2. /\ IsFiniteSet(H) /\ \A n \in H : f[n] = world[UtxoKey(c, n)] /\ f[n] \in Nat
      /\ BalanceIn(world, c) \in Nat
  BY Committed, Holdings
<1>3. /\ IsFiniteSet(Held(world', c))
      /\ \A n \in Held(world', c) : g[n] = world'[UtxoKey(c, n)] /\ g[n] \in Nat
      /\ BalanceIn(world', c) \in Nat
  BY <1>1, CommittedNext, Holdings
<1>4. \A n \in UtxoName :
         world'[UtxoKey(c, n)] = IF UtxoKey(c, n) \in DOMAIN tx.writes
                                 THEN tx.writes[UtxoKey(c, n)] ELSE world[UtxoKey(c, n)]
  BY CommitFacts, KeyFacts
<1>5. G \subseteq H
  <2>1. \A n \in G : FoundThere(tx, UtxoKey(c, n))
    BY CommitFacts DEF Gone, Simulated, UtxoWrite
  <2>2. \A n \in G : version[UtxoKey(c, n)] # 0
    BY <2>1, CommitFacts DEF FoundThere
  <2> QED
    BY <2>2, KeyFacts DEF Gone, Held, IInv, LedgerOK
<1>6. F \cap H = {}
  BY CommitFacts DEF Fresh, Held, IInv, TypeOK
<1>7. Held(world', c) = R \union F
  BY <1>4 DEF Held, Gone, Fresh
<1>8. /\ IsFiniteSet(G) /\ IsFiniteSet(R) /\ IsFiniteSet(F)
      /\ R \cap G = {} /\ R \union G = H /\ R \cap F = {}
  <2>1. R \subseteq H /\ F \subseteq Held(world', c)
    BY <1>7
  <2>2. IsFiniteSet(G) /\ IsFiniteSet(R) /\ IsFiniteSet(F)
    BY <1>2, <1>3, <1>5, <2>1, FS_Subset
  <2> QED
    BY <1>5, <1>6, <2>2
<1>9. \A n \in R : g[n] = f[n]
  BY <1>4, <1>6 DEF Gone, Fresh, Held, Coins
<1>10. \A n \in F : g[n] = e[n]
  BY <1>4 DEF Fresh, Coins
<1> HIDE DEF tx, H, G, F, R, f, g, e
<1>11. BalanceIn(world, c) = SumFunctionOnSet(f, R) + SumFunctionOnSet(f, G)
  <2>1. \A n \in R \union G : f[n] \in Int
    BY <1>2, <1>8
  <2>2. SumFunctionOnSet(f, R \union G) = SumFunctionOnSet(f, R) + SumFunctionOnSet(f, G)
    BY <1>8, <2>1, SumUnion
  <2> QED
    BY <1>8, <2>2 DEF BalanceIn, f, H
<1>12. BalanceIn(world', c) = SumFunctionOnSet(g, R) + SumFunctionOnSet(g, F)
  <2>1. \A n \in R \union F : g[n] \in Int
    BY <1>3, <1>7
  <2>2. SumFunctionOnSet(g, R \union F) = SumFunctionOnSet(g, R) + SumFunctionOnSet(g, F)
    BY <1>8, <2>1, SumUnion
  <2> QED
    BY <1>7, <2>2 DEF BalanceIn, g
<1>13. SumFunctionOnSet(g, R) = SumFunctionOnSet(f, R) /\ SumFunctionOnSet(f, R) \in Nat
  <2>1. \A n \in R : f[n] \in Nat /\ g[n] \in Int /\ g[n] = f[n]
    BY <1>2, <1>8, <1>9
  <2> QED
    BY <1>8, <2>1, SumSame, SumNat
<1>14. SumFunctionOnSet(g, F) = SumFunctionOnSet(e, F) /\ SumFunctionOnSet(e, F) \in Nat
  <2>1. \A n \in F : g[n] \in Int /\ e[n] \in Nat /\ g[n] = e[n]
    BY <1>3, <1>7, <1>10
  <2> QED
    BY <1>8, <2>1, SumSame, SumNat
<1>15. SumFunctionOnSet(f, G) \in Nat
  <2>1. \A n \in G : f[n] \in Nat
    BY <1>2, <1>8
  <2> QED
    BY <1>8, <2>1, SumNat
<1>16. Spent(tx, c) = SumFunctionOnSet(f, G) /\ Created(tx, c) = SumFunctionOnSet(e, F)
  BY DEF Spent, Created, f, e, G, F
<1>17. /\ Balance(c) = BalanceIn(world, c) /\ Balance(c)' = BalanceIn(world', c)
  BY <1>1, BalanceFacts, BalanceNext
<1>18. \A r, s, n \in Nat : s <= r + s /\ (r + n) + s = (r + s) + n
  OBVIOUS
<1>19. /\ Spent(tx, c) <= Balance(c)
       /\ Balance(c)' + Spent(tx, c) = Balance(c) + Created(tx, c)
  BY <1>11, <1>12, <1>13, <1>14, <1>15, <1>16, <1>17, <1>18
<1> QED
  BY <1>2, <1>3, <1>5, <1>14, <1>15, <1>16, <1>17, <1>19 DEF tx, H, G

\* The same for all the balances together.
LEMMA CommitSupply ==
    ASSUME IInv, FlowInv, NEW id \in TxId, CommitValid(id), UNCHANGED issued
    PROVE  LET spent == SumFunctionOnSet([d \in Client |-> Spent(pool[id], d)], Client)
               created == SumFunctionOnSet([d \in Client |-> Created(pool[id], d)], Client)
           IN  /\ Supply \in Nat /\ Supply' \in Nat /\ spent \in Nat /\ created \in Nat
               /\ Supply' + spent = Supply + created
               /\ \A d \in Client : Spent(pool[id], d) <= Supply
<1> DEFINE tx == pool[id]
           b == [d \in Client |-> Balance(d)]
           n == [d \in Client |-> Balance(d)']
           s == [d \in Client |-> Spent(tx, d)]
           r == [d \in Client |-> Created(tx, d)]
           h == [d \in Client |-> Balance(d) + Created(tx, d)]
<1>1. ASSUME NEW d \in Client
      PROVE  /\ b[d] \in Nat /\ n[d] \in Nat /\ s[d] \in Nat /\ r[d] \in Nat
             /\ s[d] <= b[d] /\ s[d] = Spent(tx, d)
             /\ h[d] = b[d] + r[d] /\ h[d] = n[d] + s[d]
  BY CommitBalance
<1>2. IsFiniteSet(Client)
  BY ConstantAssumption
<1>3. Supply = SumFunctionOnSet(b, Client) /\ Supply' = SumFunctionOnSet(n, Client)
  BY SupplyFacts
<1> HIDE DEF b, n, s, r, h, tx
<1>4. SumFunctionOnSet(h, Client) = SumFunctionOnSet(b, Client) + SumFunctionOnSet(r, Client)
  <2>1. \A d \in Client : b[d] \in Int /\ r[d] \in Int /\ h[d] = b[d] + r[d]
    BY <1>1
  <2> QED
    BY <1>2, <2>1, SumPlus
<1>5. SumFunctionOnSet(h, Client) = SumFunctionOnSet(n, Client) + SumFunctionOnSet(s, Client)
  <2>1. \A d \in Client : n[d] \in Int /\ s[d] \in Int /\ h[d] = n[d] + s[d]
    BY <1>1
  <2> QED
    BY <1>2, <2>1, SumPlus
<1>6. /\ SumFunctionOnSet(b, Client) \in Nat /\ SumFunctionOnSet(n, Client) \in Nat
      /\ SumFunctionOnSet(s, Client) \in Nat /\ SumFunctionOnSet(r, Client) \in Nat
  BY <1>1, <1>2, SumNat
<1>7. ASSUME NEW d \in Client
      PROVE  Spent(tx, d) <= Supply
  <2>1. SumFunctionOnSet(b, {d}) <= SumFunctionOnSet(b, Client)
    <3>1. {d} \in SUBSET Client /\ \A e \in Client : b[e] \in Nat
      BY <1>1
    <3> QED
      BY <1>2, <3>1, SumPart
  <2>2. SumFunctionOnSet(b, {d}) = b[d]
    <3>1. IsFiniteSet({d}) /\ d \in {d} /\ \A e \in {d} \ {d} : b[e] = 0
      BY FS_Singleton
    <3>2. b[d] \in Int
      BY <1>1
    <3> QED
      BY <3>1, <3>2, SumOne
  <2> QED
    BY <1>1, <1>3, <1>6, <2>1, <2>2
<1> QED
  BY <1>3, <1>4, <1>5, <1>6, <1>7 DEF s, r, tx

-----------------------------------------------------------------------------
(* What a transfer moves.                                                  *)

\* The outputs of a transfer that client d receives.
OutputsOf(outputs, d) == {i \in DOMAIN outputs : outputs[i].owner = d}

\* A transfer deletes its inputs, of its creator, and creates its outputs.
LEMMA MovesFacts ==
    ASSUME NEW id \in TxId, NEW tx,
           NEW inputs \in BoundedSeq(UtxoName, MaxList),
           NEW outputs \in BoundedSeq(Output, MaxList),
           MovesBy(id, tx, inputs, outputs)
    PROVE  /\ Gone(tx, tx.creator) = ToSet(inputs)
           /\ \A d \in Client \ {tx.creator} : Gone(tx, d) = {}
           /\ \A d \in Client :
                 /\ Fresh(tx, d) = {<<id, i - 1>> : i \in OutputsOf(outputs, d)}
                 /\ \A i \in OutputsOf(outputs, d) :
                       Coins(tx.writes, d)[<<id, i - 1>>] = outputs[i].amount
           /\ \A i \in DOMAIN outputs : outputs[i].owner \in Client /\ outputs[i].amount \in 1..MaxInt
<1> DEFINE c == tx.creator
           W == tx.writes
           spent == {UtxoKey(c, n) : n \in ToSet(inputs)}
           created == {UtxoKey(outputs[i].owner, <<id, i - 1>>) : i \in DOMAIN outputs}
<1>1. ToSet(inputs) \subseteq UtxoName /\ \A n \in ToSet(inputs) : n[1] # id
  BY ListFacts DEF MovesBy
<1>2. ASSUME NEW i \in DOMAIN outputs
      PROVE  /\ outputs[i].owner \in Client
             /\ outputs[i].amount \in 1..MaxInt /\ outputs[i].amount # Absent
             /\ <<id, i - 1>> \in UtxoName
             /\ <<id, i - 1>>[1] = id /\ <<id, i - 1>>[2] + 1 = i
  <2>1. i \in 1..MaxList /\ outputs[i] \in Output
    BY ListFacts
  <2> QED
    BY <2>1, NameFacts, ValueFacts DEF Output
<1>3. /\ DOMAIN W = spent \union created
      /\ \A k \in spent : W[k] = Absent
      /\ \A k \in created \ spent : W[k] = outputs[k[2][2][2] + 1].amount
  BY DEF MovesBy, TransferWrites
<1> HIDE DEF W
<1>4. ASSUME NEW i \in DOMAIN outputs
      PROVE  LET k == UtxoKey(outputs[i].owner, <<id, i - 1>>)
             IN  k \in created \ spent /\ W[k] = outputs[i].amount
  <2> DEFINE k == UtxoKey(outputs[i].owner, <<id, i - 1>>)
  <2>1. k \in created
    OBVIOUS
  <2>2. k \notin spent
    BY <1>1, <1>2, KeyFacts
  <2>3. k[2][2] = <<id, i - 1>>
    BY DEF UtxoKey
  <2>4. k[2][2][2] + 1 = i
    BY <1>2, <2>3
  <2>5. W[k] = outputs[i].amount
    <3> HIDE DEF k, created, spent
    <3> QED
      BY <1>3, <2>1, <2>2, <2>4
  <2> QED
    BY <2>1, <2>2, <2>5
<1>5. ASSUME NEW d \in Client, NEW n \in UtxoName
      PROVE  /\ UtxoKey(d, n) \in spent <=> d = c /\ n \in ToSet(inputs)
             /\ UtxoKey(d, n) \in created <=>
                   \E i \in OutputsOf(outputs, d) : n = <<id, i - 1>>
  <2>1. UtxoKey(d, n) \in spent <=> d = c /\ n \in ToSet(inputs)
    BY KeyFacts
  <2>2. ASSUME UtxoKey(d, n) \in created
        PROVE  \E i \in OutputsOf(outputs, d) : n = <<id, i - 1>>
    <3>1. PICK i \in DOMAIN outputs : UtxoKey(d, n) = UtxoKey(outputs[i].owner, <<id, i - 1>>)
      BY <2>2
    <3>2. d = outputs[i].owner /\ n = <<id, i - 1>>
      BY <3>1, KeyFacts
    <3> QED
      BY <3>2 DEF OutputsOf
  <2>3. ASSUME NEW i \in OutputsOf(outputs, d), n = <<id, i - 1>>
        PROVE  UtxoKey(d, n) \in created
    BY <2>3 DEF OutputsOf
  <2> QED
    BY <2>1, <2>2, <2>3
<1>6. ASSUME NEW d \in Client, NEW n \in UtxoName
      PROVE  /\ n \in Gone(tx, d) <=> UtxoKey(d, n) \in spent
             /\ n \in Fresh(tx, d) <=> UtxoKey(d, n) \in created
  <2>1. /\ n \in Gone(tx, d) <=> UtxoKey(d, n) \in DOMAIN W /\ W[UtxoKey(d, n)] = Absent
        /\ n \in Fresh(tx, d) <=> UtxoKey(d, n) \in DOMAIN W /\ W[UtxoKey(d, n)] # Absent
    BY DEF Gone, Fresh, W
  <2>2. UtxoKey(d, n) \in created => UtxoKey(d, n) \notin spent /\ W[UtxoKey(d, n)] # Absent
    <3> SUFFICES ASSUME UtxoKey(d, n) \in created
                 PROVE  UtxoKey(d, n) \notin spent /\ W[UtxoKey(d, n)] # Absent
      OBVIOUS
    <3>1. PICK i \in DOMAIN outputs : UtxoKey(d, n) = UtxoKey(outputs[i].owner, <<id, i - 1>>)
      OBVIOUS
    <3> QED
      BY <1>2, <1>4, <3>1
  <2> HIDE DEF spent, created
  <2> QED
    BY <1>3, <2>1, <2>2
<1>7. Gone(tx, c) = ToSet(inputs)
  <2>1. \A n \in ToSet(inputs) : UtxoKey(c, n) \in DOMAIN W /\ W[UtxoKey(c, n)] = Absent
    BY <1>3
  <2>2. \A n \in Gone(tx, c) : n \in ToSet(inputs)
    <3> SUFFICES ASSUME NEW n \in Gone(tx, c) PROVE n \in ToSet(inputs)
      OBVIOUS
    <3>1. UtxoKey(c, n) \in spent \union created /\ W[UtxoKey(c, n)] = Absent
      BY <1>3 DEF Gone, W
    <3>2. UtxoKey(c, n) \notin created
      <4> SUFFICES ASSUME UtxoKey(c, n) \in created PROVE FALSE
        OBVIOUS
      <4>1. PICK i \in DOMAIN outputs : UtxoKey(c, n) = UtxoKey(outputs[i].owner, <<id, i - 1>>)
        OBVIOUS
      <4> QED
        BY <1>2, <1>4, <3>1, <4>1
    <3> QED
      BY <3>1, <3>2, KeyFacts
  <2> QED
    BY <1>1, <2>1, <2>2 DEF Gone, W
<1>8. \A d \in Client \ {c} : Gone(tx, d) = {}
  BY <1>5, <1>6 DEF Gone
<1>9. ASSUME NEW d \in Client
      PROVE  /\ Fresh(tx, d) = {<<id, i - 1>> : i \in OutputsOf(outputs, d)}
             /\ \A i \in OutputsOf(outputs, d) :
                   Coins(W, d)[<<id, i - 1>>] = outputs[i].amount
  <2>1. \A i \in OutputsOf(outputs, d) : i \in DOMAIN outputs /\ outputs[i].owner = d
    BY DEF OutputsOf
  <2>2. \A i \in OutputsOf(outputs, d) : Coins(W, d)[<<id, i - 1>>] = outputs[i].amount
    BY <1>2, <1>4, <2>1 DEF Coins
  <2>3. \A n \in Fresh(tx, d) : \E i \in OutputsOf(outputs, d) : n = <<id, i - 1>>
    BY <1>5, <1>6 DEF Fresh
  <2>4. \A i \in OutputsOf(outputs, d) : <<id, i - 1>> \in Fresh(tx, d)
    BY <1>2, <1>5, <1>6, <2>1
  <2> QED
    BY <2>2, <2>3, <2>4
<1> QED
  BY <1>2, <1>7, <1>8, <1>9 DEF W

\* No client pays for the creator, who pays what the inputs are worth; the
\* outputs of all clients are worth what all the outputs are.
LEMMA MovesSums ==
    ASSUME IInv, FlowInv, NEW id \in TxId, CommitValid(id), UNCHANGED issued,
           pool[id].creator \in Client,
           NEW inputs \in BoundedSeq(UtxoName, MaxList),
           NEW outputs \in BoundedSeq(Output, MaxList),
           MovesBy(id, pool[id], inputs, outputs)
    PROVE  LET tx == pool[id]
               found == FoundAmounts(tx, inputs)
               given == Amounts(outputs)
           IN  /\ \A i \in DOMAIN inputs : found[i] \in Nat
               /\ \A i \in DOMAIN outputs : given[i] \in Nat
               /\ IsFiniteSet(DOMAIN outputs)
               /\ Spent(tx, tx.creator) = SumFunctionOnSet(found, DOMAIN inputs)
               /\ \A d \in Client \ {tx.creator} : Spent(tx, d) = 0
               /\ \A d \in Client :
                     Created(tx, d) = SumFunctionOnSet(given, OutputsOf(outputs, d))
               /\ SumFunctionOnSet([d \in Client |-> Created(tx, d)], Client)
                    = SumFunctionOnSet(given, DOMAIN outputs)
<1> DEFINE tx == pool[id]
           c == tx.creator
           found == FoundAmounts(tx, inputs)
           given == Amounts(outputs)
           f == Coins(world, c)
<1>1. /\ Gone(tx, c) = ToSet(inputs)
      /\ \A d \in Client \ {c} : Gone(tx, d) = {}
      /\ \A d \in Client :
            /\ Fresh(tx, d) = {<<id, i - 1>> : i \in OutputsOf(outputs, d)}
            /\ \A i \in OutputsOf(outputs, d) :
                  Coins(tx.writes, d)[<<id, i - 1>>] = outputs[i].amount
      /\ \A i \in DOMAIN outputs : outputs[i].owner \in Client /\ outputs[i].amount \in 1..MaxInt
  BY MovesFacts
<1>2. IsFiniteSet(DOMAIN inputs) /\ IsFiniteSet(DOMAIN outputs)
      /\ DOMAIN inputs \subseteq Nat /\ DOMAIN outputs \subseteq Nat
  <2>1. DOMAIN inputs \subseteq 1..MaxList /\ DOMAIN outputs \subseteq 1..MaxList
    BY ListFacts
  <2>2. 1 \in Int /\ MaxList \in Int
    BY ConstantAssumption
  <2>3. IsFiniteSet(1..MaxList) /\ 1..MaxList \subseteq Nat
    BY <2>2, FS_Interval
  <2> QED
    BY <2>1, <2>3, FS_Subset
<1>3. ASSUME NEW i \in DOMAIN inputs
      PROVE  found[i] = f[inputs[i]] /\ found[i] \in Nat
  <2>1. inputs[i] \in ToSet(inputs) /\ inputs[i] \in Held(world, c)
    BY <1>1, CommitBalance DEF ToSet
  <2>2. UtxoKey(c, inputs[i]) \in DOMAIN tx.reads
    BY <2>1 DEF MovesBy, FoundThere
  <2>3. tx.reads[UtxoKey(c, inputs[i])].value = world[UtxoKey(c, inputs[i])]
    BY <2>2, CommitFacts DEF FlowInv, ReadsOK
  <2>4. f[inputs[i]] = world[UtxoKey(c, inputs[i])] /\ f[inputs[i]] \in Nat
    BY <2>1, Committed, Holdings
  <2> QED
    BY <2>3, <2>4 DEF FoundAmounts
<1>4. Spent(tx, c) = SumFunctionOnSet(found, DOMAIN inputs)
  <2>1. \A i, j \in DOMAIN inputs : inputs[i] = inputs[j] => i = j
    BY DEF MovesBy, IsInjective
  <2>2. \A i \in DOMAIN inputs : f[inputs[i]] \in Int /\ found[i] = f[inputs[i]]
    BY <1>3
  <2> HIDE DEF f, found, tx
  <2>3. SumFunctionOnSet(f, {inputs[i] : i \in DOMAIN inputs}) = SumFunctionOnSet(found, DOMAIN inputs)
    BY <1>2, <2>1, <2>2, SumImage
  <2> QED
    BY <1>1, <2>3 DEF Spent, ToSet, f
<1>5. \A d \in Client \ {c} : Spent(tx, d) = 0
  BY <1>1, SumClauses DEF Spent
<1>6. \A i \in DOMAIN outputs : given[i] = outputs[i].amount /\ given[i] \in Nat
  <2>1. MaxInt \in Nat
    BY ConstantAssumption
  <2> QED
    BY <1>1, <2>1 DEF Amounts
<1>7. ASSUME NEW d \in Client
      PROVE  Created(tx, d) = SumFunctionOnSet(given, OutputsOf(outputs, d))
  <2> DEFINE S == OutputsOf(outputs, d)
             m == [i \in S |-> <<id, i - 1>>]
             e == Coins(tx.writes, d)
  <2>1. S \subseteq DOMAIN outputs /\ IsFiniteSet(S)
    <3>1. S \subseteq DOMAIN outputs
      BY DEF OutputsOf
    <3> QED
      BY <1>2, <3>1, FS_Subset
  <2>2. \A i, j \in S : m[i] = m[j] => i = j
    <3>1. \A i, j \in S : m[i] = m[j] => i - 1 = j - 1
      OBVIOUS
    <3>2. \A i, j \in Nat : i - 1 = j - 1 => i = j
      OBVIOUS
    <3> HIDE DEF m, S
    <3> QED
      BY <1>2, <2>1, <3>1, <3>2
  <2>3. \A i \in S : e[m[i]] \in Int /\ given[i] = e[m[i]]
    <3>1. \A i \in S : m[i] = <<id, i - 1>> /\ i \in DOMAIN outputs
      BY <2>1
    <3>2. \A i \in S : e[m[i]] = outputs[i].amount
      BY <1>1, <3>1
    <3> HIDE DEF given, e, m, S
    <3> QED
      BY <1>6, <3>1, <3>2
  <2>4. Fresh(tx, d) = {m[i] : i \in S}
    BY <1>1
  <2> HIDE DEF e, m, S, given, tx
  <2>5. SumFunctionOnSet(e, {m[i] : i \in S}) = SumFunctionOnSet(given, S)
    BY <2>1, <2>2, <2>3, SumImage
  <2> QED
    BY <2>4, <2>5 DEF Created, e, S
<1>8. SumFunctionOnSet([d \in Client |-> Created(tx, d)], Client)
        = SumFunctionOnSet(given, DOMAIN outputs)
  <2> DEFINE own == [i \in DOMAIN outputs |-> outputs[i].owner]
             part == [d \in Client |-> Created(tx, d)]
             group == [d \in Client |-> OutputsOf(outputs, d)]
  <2>1. Grouped(DOMAIN outputs, own, Client, group)
    BY <1>1 DEF Grouped, OutputsOf
  <2>2. \A d \in Client : part[d] = SumFunctionOnSet(given, group[d])
    BY <1>7
  <2>3. \A i \in DOMAIN outputs : given[i] \in Int
    BY <1>6
  <2>4. IsFiniteSet(Client)
    BY ConstantAssumption
  <2> HIDE DEF own, part, group, given, found, f, c, tx
  <2>5. SumFunctionOnSet(part, Client) = SumFunctionOnSet(given, DOMAIN outputs)
    BY <1>2, <2>1, <2>2, <2>3, <2>4, SumByOwner
  <2> QED
    BY <2>5 DEF part
<1> QED
  BY <1>2, <1>3, <1>4, <1>5, <1>6, <1>7, <1>8

\* The amounts a transfer may be asked for are too small to overflow together.
SmallLists ==
    \E m \in Nat : MaxList * m <= MaxInt /\ \A a \in Amount : a <= m

\* A transaction whose creator alone pays, the whole of the outputs it answers,
\* each to its owner.
Pays(tx) ==
    /\ tx.creator \in Client
    /\ \A d \in Client \ {tx.creator} : Spent(tx, d) = 0
    /\ \E outputs \in BoundedSeq(Output, MaxList) :
          /\ tx.event = Response("Transfer", outputs)
          /\ IsFiniteSet(DOMAIN outputs) /\ \A i \in DOMAIN outputs : outputs[i].amount \in Nat
          /\ Spent(tx, tx.creator) = SumFunctionOnSet(Amounts(outputs), DOMAIN outputs)
          /\ \A d \in Client :
                Created(tx, d) = SumFunctionOnSet(Amounts(outputs), OutputsOf(outputs, d))

\* While the supply fits an int, no sum of Transfer overflows: it compares what
\* the creator pays with what all clients receive, and the supply stays.
LEMMA MovingTotals ==
    ASSUME IInv, FlowInv, NEW id \in TxId, CommitValid(id), UNCHANGED issued,
           Moving(id, pool[id]), Supply <= MaxInt, Supply' <= MaxInt \/ SmallLists
    PROVE  Supply' = Supply /\ Pays(pool[id])
<1> DEFINE tx == pool[id]
           c == tx.creator
<1>1. c \in Client
  BY DEF Moving
<1>2. PICK inputs \in BoundedSeq(UtxoName, MaxList) :
         \E outputs \in BoundedSeq(Output, MaxList) : MovesBy(id, tx, inputs, outputs)
  BY DEF Moving
<1>3. PICK outputs \in BoundedSeq(Output, MaxList) : MovesBy(id, tx, inputs, outputs)
  BY <1>2
<1> DEFINE found == FoundAmounts(tx, inputs)
           given == Amounts(outputs)
           s == [d \in Client |-> Spent(tx, d)]
           r == [d \in Client |-> Created(tx, d)]
           total == SumFunctionOnSet(given, DOMAIN outputs)
<1>4. /\ \A i \in DOMAIN inputs : found[i] \in Nat
      /\ \A i \in DOMAIN outputs : given[i] \in Nat
      /\ IsFiniteSet(DOMAIN outputs)
      /\ Spent(tx, c) = SumFunctionOnSet(found, DOMAIN inputs)
      /\ \A d \in Client \ {c} : Spent(tx, d) = 0
      /\ \A d \in Client : Created(tx, d) = SumFunctionOnSet(given, OutputsOf(outputs, d))
      /\ SumFunctionOnSet(r, Client) = total
  BY <1>1, <1>3, MovesSums
<1>5. /\ Supply \in Nat /\ Supply' \in Nat
      /\ Supply' + SumFunctionOnSet(s, Client) = Supply + SumFunctionOnSet(r, Client)
      /\ Spent(tx, c) <= Supply
  BY <1>1, CommitSupply
<1>6. IsFiniteSet(Client) /\ MaxInt \in Nat
  BY ConstantAssumption
<1>7. Spent(tx, c) \in Nat
  BY <1>1, CommitBalance
<1>8. s[c] = Spent(tx, c) /\ \A d \in Client \ {c} : s[d] = 0
  BY <1>1, <1>4
<1>9. DOMAIN inputs \subseteq 1..MaxList /\ DOMAIN outputs \subseteq 1..MaxList
  BY ListFacts
<1>10. DOMAIN found = DOMAIN inputs /\ DOMAIN given = DOMAIN outputs
  BY DEF FoundAmounts, Amounts
<1>11. Sum(found) = Sum(given)
  BY <1>3 DEF MovesBy
<1> HIDE DEF s, r, found, given, tx
<1>12. SumFunctionOnSet(s, Client) = Spent(tx, c)
  BY <1>1, <1>6, <1>7, <1>8, SumOne
<1>13. total \in Nat
  BY <1>4, SumNat
<1>14. Supply' + Spent(tx, c) = Supply + total
  BY <1>4, <1>5, <1>12
<1>15. Spent(tx, c) <= MaxInt /\ total <= MaxInt
  <2>1. Spent(tx, c) <= MaxInt
    BY <1>5, <1>6, <1>7
  <2>2. CASE Supply' <= MaxInt
    BY <1>5, <1>6, <1>7, <1>13, <1>14, <2>2
  <2>3. CASE SmallLists
    <3>1. PICK m \in Nat : MaxList * m <= MaxInt /\ \A a \in Amount : a <= m
      BY <2>3 DEF SmallLists
    <3>2. \A i \in DOMAIN outputs : given[i] <= m
      <4>1. \A i \in DOMAIN outputs : outputs[i] \in Output
        BY ListFacts
      <4> QED
        BY <3>1, <4>1 DEF given, Amounts, Output
    <3>3. MaxList \in Nat /\ MaxList * m \in Nat
      BY ConstantAssumption
    <3>4. total <= MaxList * m
      BY <1>4, <1>9, <3>2, <3>3, SumBound
    <3> HIDE DEF total
    <3> QED
      BY <1>6, <1>13, <2>1, <3>1, <3>3, <3>4
  <2> QED
    BY <2>2, <2>3
<1>16. Sum(found) = Spent(tx, c)
  BY <1>4, <1>9, <1>10, <1>15, SumExact
<1>17. Sum(given) = total
  BY <1>4, <1>9, <1>10, <1>15, SumExact
<1>18. Supply' = Supply
  <2>1. Spent(tx, c) = total
    BY <1>11, <1>16, <1>17
  <2>2. \A x, y, z \in Nat : x + z = y + z => x = y
    OBVIOUS
  <2> HIDE DEF total
  <2> QED
    BY <1>5, <1>13, <1>14, <2>1, <2>2
<1>19. Pays(tx)
  <2>1. Spent(tx, c) = total
    BY <1>11, <1>16, <1>17
  <2>2. \A i \in DOMAIN outputs : given[i] = outputs[i].amount
    BY DEF given, Amounts
  <2>3. tx.event = Response("Transfer", outputs)
    BY <1>3 DEF MovesBy
  <2> QED
    BY <1>1, <1>4, <2>1, <2>2, <2>3 DEF Pays, given
<1> QED
  BY <1>18, <1>19 DEF tx

\* What a mint gives its creator.
LEMMA MintFacts ==
    ASSUME NEW tx, Minting(tx)
    PROVE  /\ tx.creator \in Minter /\ tx.creator \in Client
           /\ \A c \in Client : Spent(tx, c) = 0
           /\ \A c \in Client \ {tx.creator} : Created(tx, c) = 0
           /\ \E a \in Amount :
                 /\ a \in Nat /\ Created(tx, tx.creator) = a
                 /\ tx.event = Response("Mint", <<[owner |-> tx.creator, amount |-> a]>>)
<1> DEFINE d == tx.creator
           e == Coins(tx.writes, d)
<1>1. d \in Minter /\ d \in Client
  BY ConstantAssumption DEF Minting
<1>2. PICK n \in UtxoName : \E a \in Amount :
         /\ tx.writes = Put(UtxoKey(d, n), a)
         /\ tx.event = Response("Mint", <<[owner |-> d, amount |-> a]>>)
  BY DEF Minting
<1>3. PICK a \in Amount :
         /\ tx.writes = Put(UtxoKey(d, n), a)
         /\ tx.event = Response("Mint", <<[owner |-> d, amount |-> a]>>)
  BY <1>2
<1>4. a \in Nat /\ a # Absent
  <2>1. MaxInt \in Nat
    BY ConstantAssumption
  <2> QED
    BY <2>1, ValueFacts
<1>5. DOMAIN tx.writes = {UtxoKey(d, n)} /\ tx.writes[UtxoKey(d, n)] = a
  BY <1>3 DEF Put
<1>6. \A c \in Client : \A m \in UtxoName : UtxoKey(c, m) \in DOMAIN tx.writes <=> c = d /\ m = n
  BY <1>5, KeyFacts
<1>7. e[n] = a
  BY <1>5 DEF Coins
<1> HIDE DEF d
<1>8. \A c \in Client : Gone(tx, c) = {}
  BY <1>4, <1>5, <1>6 DEF Gone
<1>9. \A c \in Client \ {d} : Fresh(tx, c) = {}
  BY <1>6 DEF Fresh
<1>10. Fresh(tx, d) = {n}
  BY <1>1, <1>4, <1>5, <1>6 DEF Fresh
<1>11. Created(tx, d) = a
  <2>1. IsFiniteSet({n}) /\ n \in {n} /\ \A m \in {n} \ {n} : e[m] = 0
    BY FS_Singleton
  <2>2. e[n] \in Int
    BY <1>4, <1>7
  <2>3. SumFunctionOnSet(e, {n}) = a
    <3> HIDE DEF e
    <3> QED
      BY <1>7, <2>1, <2>2, SumOne
  <2> QED
    BY <1>10, <2>3 DEF Created
<1>12. /\ \A c \in Client : Spent(tx, c) = 0
       /\ \A c \in Client \ {d} : Created(tx, c) = 0
  BY <1>8, <1>9, SumClauses DEF Spent, Created
<1> QED
  BY <1>1, <1>3, <1>4, <1>11, <1>12 DEF d

-----------------------------------------------------------------------------
(* The refinement: a commit serves the call of its transaction.            *)

\* Every transaction in flight is explained by the arguments of its function,
\* and finitely many were submitted.
LEMMA FlowInductive == Spec => [](IInv /\ FlowInv)
<1>1. Init => FlowInv
  <2> SUFFICES ASSUME Init PROVE FlowInv
    OBVIOUS
  <2>1. issued = {} /\ InFlight = {} /\ height = 0 /\ version = [k \in Key |-> 0]
    BY DEF Init, LedgerInit, InFlight
  <2>2. 0 \in 0..0
    OBVIOUS
  <2> QED
    BY <2>1, <2>2, FS_EmptySet DEF FlowInv
<1>2. IInv /\ FlowInv /\ [Next]_vars => FlowInv'
  <2> SUFFICES ASSUME IInv, FlowInv, [Next]_vars PROVE FlowInv'
    OBVIOUS
  <2>1. ASSUME NEW id \in TxId, Simulate(id)
        PROVE  FlowInv'
    <3>1. PICK sender \in Client :
            \/ \E name, symbol \in Option : Initialize(id, sender, name, symbol)
            \/ \E amount \in Amount : Mint(id, sender, amount)
            \/ \E inputs \in BoundedSeq(ClientUTXOs(sender), MaxList),
                  outputs \in BoundedSeq(Output, MaxList) :
                     Transfer(id, sender, inputs, outputs)
      BY <2>1 DEF Simulate
    <3> QED
      BY <3>1, InitializeFlow, MintFlow, TransferFlow
  <2>2. ASSUME NEW id \in TxId, CommitValid(id), UNCHANGED issued
        PROVE  FlowInv'
    BY <2>2, CommitFlow
  <2>3. ASSUME NEW id \in TxId, MarkInvalid(id) \/ Lose(id), UNCHANGED issued
        PROVE  FlowInv'
    BY <2>3, DroppedFlow DEF MarkInvalid, Lose
  <2>4. CASE UNCHANGED vars
    BY <2>4 DEF vars, FlowInv, ReadsOK, InFlight
  <2> QED
    BY <2>1, <2>2, <2>3, <2>4 DEF Next
<1> QED
  BY <1>1, <1>2, Inductive, PTL DEF Spec

\* A step that leaves the committed state alone leaves the accounts alone.
LEMMA BalancesStay ==
    ASSUME UNCHANGED world
    PROVE  Balances' = Balances /\ Supply' = Supply
<1>1. \A c \in Client : ClientUTXOs(c)' = ClientUTXOs(c)
  BY DEF ClientUTXOs
<1>2. \A c \in Client : Balance(c)' = Balance(c)
  BY <1>1 DEF Balance
<1>3. [c \in Client |-> Balance(c)'] = [c \in Client |-> Balance(c)]
  BY <1>2
<1> QED
  BY <1>2, <1>3 DEF Balances, Supply

\* At first nobody owns anything.
LEMMA InitEmpty == Init => \A c \in Client : Balance(c) = 0
<1> SUFFICES ASSUME Init, NEW c \in Client PROVE Balance(c) = 0
  OBVIOUS
<1>1. \A n \in UtxoName : world[UtxoKey(c, n)] = Absent
  BY KeyFacts DEF Init, LedgerInit
<1>2. ClientUTXOs(c) = {}
  BY <1>1 DEF ClientUTXOs
<1> DEFINE f == [n \in ClientUTXOs(c) |-> world[UtxoKey(c, n)]]
<1>3. DOMAIN f = {}
  BY <1>2
<1>4. SumFunction(f) = 0
  <2> HIDE DEF f
  <2> QED
    BY <1>3, SumClauses DEF SumFunction
<1> QED
  BY <1>4 DEF Balance

\* A committed call of Initialize leaves the accounts alone.
LEMMA InitializeKeeps ==
    ASSUME IInv, FlowInv, NEW id \in TxId, CommitValid(id), UNCHANGED issued,
           Initializing(pool[id])
    PROVE  Balances' = Balances /\ Supply' = Supply
<1> DEFINE tx == pool[id]
<1>1. \A d \in Client : Gone(tx, d) = {} /\ Fresh(tx, d) = {}
  BY KeyFacts DEF Initializing, Gone, Fresh
<1>2. \A d \in Client : Spent(tx, d) = 0 /\ Created(tx, d) = 0
  BY <1>1, SumClauses DEF Spent, Created
<1>3. ASSUME NEW d \in Client
      PROVE  Balance(d)' = Balance(d)
  <2>1. /\ Balance(d) \in Nat /\ Balance(d)' \in Nat
        /\ Balance(d)' + Spent(tx, d) = Balance(d) + Created(tx, d)
    BY CommitBalance
  <2>2. Spent(tx, d) = 0 /\ Created(tx, d) = 0
    BY <1>2
  <2> QED
    BY <2>1, <2>2
<1>4. [d \in Client |-> Balance(d)'] = [d \in Client |-> Balance(d)]
  BY <1>3
<1> QED
  BY <1>3, <1>4 DEF Balances, Supply

\* The payments that outputs are, and what the accounts make of them.
Payments(outputs) ==
    [i \in DOMAIN outputs |->
        [to |-> outputs[i].owner, token |-> "utxo", amount |-> outputs[i].amount]]

LEMMA PaymentSums ==
    ASSUME NEW outputs, IsFiniteSet(DOMAIN outputs),
           \A i \in DOMAIN outputs : outputs[i].amount \in Nat
    PROVE  LET given == Amounts(outputs)
               p == Payments(outputs)
           IN  /\ Accounts!Need(p, "utxo") = SumFunctionOnSet(given, DOMAIN outputs)
               /\ \A d : Accounts!Share(p, d, "utxo")
                           = SumFunctionOnSet(given, OutputsOf(outputs, d))
<1> DEFINE given == Amounts(outputs)
           p == Payments(outputs)
           I == DOMAIN outputs
<1>1. \A f : Accounts!SumFunction(f) = SumFunctionOnSet(f, DOMAIN f)
  BY DEF Accounts!SumFunction, Accounts!SumFunctionOnSet, Accounts!FoldFunctionOnSet,
         SumFunctionOnSet, FoldFunctionOnSet, MapThenFoldSet, Accounts!MapThenFoldSet
<1>2. /\ DOMAIN p = I
      /\ \A i \in I : /\ p[i].to = outputs[i].owner /\ p[i].token = "utxo"
                       /\ p[i].amount = outputs[i].amount
      /\ \A i \in I : given[i] = outputs[i].amount /\ given[i] \in Nat
  BY DEF Payments, Amounts
<1> HIDE DEF p, given
<1>3. Accounts!Need(p, "utxo") = SumFunctionOnSet(given, I)
  <2> DEFINE f == [i \in DOMAIN p |-> IF p[i].token = "utxo" THEN p[i].amount ELSE 0]
  <2>1. Accounts!Need(p, "utxo") = SumFunctionOnSet(f, I)
    BY <1>1, <1>2 DEF Accounts!Need
  <2>2. \A i \in I : f[i] \in Int /\ f[i] = given[i]
    BY <1>2
  <2> HIDE DEF f
  <2>3. SumFunctionOnSet(f, I) = SumFunctionOnSet(given, I)
    BY <2>2, SumSame
  <2> QED
    BY <2>1, <2>3
<1>4. ASSUME NEW d
      PROVE  Accounts!Share(p, d, "utxo") = SumFunctionOnSet(given, OutputsOf(outputs, d))
  <2> DEFINE f == [i \in DOMAIN p |->
                     IF p[i].to = d /\ p[i].token = "utxo" THEN p[i].amount ELSE 0]
             S == OutputsOf(outputs, d)
             R == I \ S
  <2>1. Accounts!Share(p, d, "utxo") = SumFunctionOnSet(f, I)
    BY <1>1, <1>2 DEF Accounts!Share
  <2>2. S \subseteq I /\ \A i \in I : i \in S <=> outputs[i].owner = d
    BY DEF OutputsOf
  <2>3. IsFiniteSet(S) /\ IsFiniteSet(R) /\ S \cap R = {} /\ S \union R = I
    <3>1. R \subseteq I
      OBVIOUS
    <3>2. IsFiniteSet(S) /\ IsFiniteSet(R)
      BY <2>2, <3>1, FS_Subset
    <3> QED
      BY <2>2, <3>2
  <2>4. \A i \in S : f[i] \in Int /\ f[i] = given[i]
    BY <1>2, <2>2
  <2>5. \A i \in R : f[i] = 0
    BY <1>2, <2>2
  <2> HIDE DEF f, S, R
  <2>6. SumFunctionOnSet(f, S \union R) = SumFunctionOnSet(f, S) + SumFunctionOnSet(f, R)
    <3>1. \A i \in S \union R : f[i] \in Int
      BY <2>4, <2>5
    <3> QED
      BY <2>3, <3>1, SumUnion
  <2>7. SumFunctionOnSet(f, R) = 0
    BY <2>3, <2>5, SumZero
  <2>8. SumFunctionOnSet(f, S) = SumFunctionOnSet(given, S)
    BY <2>3, <2>4, SumSame
  <2>9. SumFunctionOnSet(f, S) \in Int
    BY <2>3, <2>4, SumInt
  <2> QED
    BY <2>1, <2>3, <2>6, <2>7, <2>8, <2>9 DEF S
<1> QED
  BY <1>3, <1>4 DEF p, given

\* Balances that change as the payments say.
LEMMA Moved ==
    ASSUME NEW payers, NEW p,
           \A d \in Client :
              LET need == IF d \in payers THEN Accounts!Need(p, "utxo") ELSE 0
              IN  /\ Balance(d) \in Nat /\ Balance(d)' \in Nat
                  /\ need \in Nat /\ Accounts!Share(p, d, "utxo") \in Nat
                  /\ Balance(d)' + need = Balance(d) + Accounts!Share(p, d, "utxo")
    PROVE  Accounts!Move(payers, p)
<1> DEFINE need(d) == IF d \in payers THEN Accounts!Need(p, "utxo") ELSE 0
           share(d) == Accounts!Share(p, d, "utxo")
<1>1. \A d \in Client : /\ Balance(d) \in Nat /\ Balance(d)' \in Nat
                        /\ need(d) \in Nat /\ share(d) \in Nat
                        /\ Balance(d)' + need(d) = Balance(d) + share(d)
  OBVIOUS
<1>2. \A x, y, n, r \in Nat : y + n = x + r => y = x + (r - n)
  OBVIOUS
<1> HIDE DEF need, share
<1>3. \A d \in Client : Balance(d)' = Balance(d) + (share(d) - need(d))
  BY <1>1, <1>2
<1>4. Balances' = [d \in Client |-> [t \in {"utxo"} |-> Balance(d) + (share(d) - need(d))]]
  BY <1>3 DEF Balances
<1>5. \A d \in Client, t \in {"utxo"} :
         /\ Balances[d][t] = Balance(d)
         /\ Accounts!Share(p, d, t) = share(d)
         /\ (IF d \in payers THEN Accounts!Need(p, t) ELSE 0) = need(d)
  BY DEF Balances, share, need
<1> QED
  BY <1>4, <1>5 DEF Accounts!Move

\* A commit does what the accounts do for the call of the transaction.
LEMMA CommitRefines ==
    ASSUME IInv, FlowInv, NEW id \in TxId, CommitValid(id), UNCHANGED issued,
           Supply <= MaxInt, Supply' <= MaxInt
    PROVE  Accounts!Run(CallOf(pool[id]))
<1> DEFINE tx == pool[id]
           c == tx.creator
           call == CallOf(tx)
<1>1. Explained(id, tx)
  BY CommitFacts DEF FlowInv
<1>2. ASSUME NEW d \in Client
      PROVE  /\ Balance(d) \in Nat /\ Balance(d)' \in Nat
             /\ Spent(tx, d) \in Nat /\ Created(tx, d) \in Nat
             /\ Spent(tx, d) <= Balance(d)
             /\ Balance(d)' + Spent(tx, d) = Balance(d) + Created(tx, d)
  BY CommitBalance
<1>3. ASSUME NEW name \in {"Mint", "Transfer"}, NEW outputs,
             tx.event = Response(name, outputs)
      PROVE  /\ call.caller = c /\ call.from = c /\ call.function = name
             /\ call.payments = Payments(outputs)
  BY <1>3 DEF CallOf, Response, Payments
<1>4. CASE Initializing(tx)
  <2>1. call.function = "none"
    BY <1>4 DEF Initializing, CallOf, Response
  <2>2. UNCHANGED Balances
    BY <1>4, InitializeKeeps
  <2> QED
    BY <2>1, <2>2 DEF Accounts!Run
<1>5. CASE Minting(tx)
  <2>1. /\ c \in Minter /\ c \in Client
        /\ \A d \in Client : Spent(tx, d) = 0
        /\ \A d \in Client \ {c} : Created(tx, d) = 0
    BY <1>5, MintFacts
  <2>2. PICK a \in Amount :
           /\ a \in Nat /\ Created(tx, c) = a
           /\ tx.event = Response("Mint", <<[owner |-> c, amount |-> a]>>)
    BY <1>5, MintFacts
  <2> DEFINE outputs == <<[owner |-> c, amount |-> a]>>
             p == Payments(outputs)
             given == Amounts(outputs)
  <2>3. /\ DOMAIN outputs = {1} /\ outputs[1].owner = c /\ outputs[1].amount = a
        /\ given[1] = a
    BY DEF Amounts
  <2>4. call.caller = c /\ call.function = "Mint" /\ call.payments = p
    BY <1>3, <2>2
  <2> HIDE DEF outputs, call, tx, c, given
  <2>5. /\ OutputsOf(outputs, c) = {1}
        /\ \A d \in Client \ {c} : OutputsOf(outputs, d) = {}
    BY <2>3 DEF OutputsOf
  <2>6. IsFiniteSet(DOMAIN outputs) /\ \A i \in DOMAIN outputs : outputs[i].amount \in Nat
    BY <2>2, <2>3, FS_Singleton
  <2>7. SumFunctionOnSet(given, {1}) = a /\ SumFunctionOnSet(given, {}) = 0
    <3>1. IsFiniteSet({1}) /\ 1 \in {1} /\ \A i \in {1} \ {1} : given[i] = 0
      BY FS_Singleton
    <3>2. given[1] \in Int
      BY <2>2, <2>3
    <3> QED
      BY <2>3, <3>1, <3>2, SumOne, SumClauses
  <2>8. \A d \in Client : Accounts!Share(p, d, "utxo") = Created(tx, d)
    <3>1. \A d : Accounts!Share(p, d, "utxo") = SumFunctionOnSet(given, OutputsOf(outputs, d))
      BY <2>6, PaymentSums DEF given
    <3> HIDE DEF p
    <3>2. Accounts!Share(p, c, "utxo") = a
      BY <2>5, <2>7, <3>1
    <3>3. \A d \in Client \ {c} : Accounts!Share(p, d, "utxo") = 0
      BY <2>5, <2>7, <3>1
    <3> QED
      BY <2>1, <2>2, <3>2, <3>3
  <2>9. Accounts!Move({}, p)
    <3>1. \A d \in Client : Balance(d)' + 0 = Balance(d) + Accounts!Share(p, d, "utxo")
      BY <1>2, <2>1, <2>8 DEF tx
    <3>2. \A d \in Client : /\ Balance(d) \in Nat /\ Balance(d)' \in Nat
                            /\ Accounts!Share(p, d, "utxo") \in Nat
      BY <1>2, <2>8 DEF tx
    <3> HIDE DEF p
    <3> QED
      BY <3>1, <3>2, Moved
  <2>10. Accounts!Mint(c, p)
    BY <2>1, <2>9 DEF Accounts!Mint
  <2> QED
    BY <2>4, <2>10 DEF Accounts!Run, call, tx
<1>6. CASE Moving(id, tx)
  <2>1. Pays(tx)
    BY <1>6, MovingTotals
  <2>2. c \in Client /\ \A d \in Client \ {c} : Spent(tx, d) = 0
    BY <2>1 DEF Pays
  <2>3. PICK outputs \in BoundedSeq(Output, MaxList) :
          /\ tx.event = Response("Transfer", outputs)
          /\ IsFiniteSet(DOMAIN outputs) /\ \A i \in DOMAIN outputs : outputs[i].amount \in Nat
          /\ Spent(tx, c) = SumFunctionOnSet(Amounts(outputs), DOMAIN outputs)
          /\ \A d \in Client :
                Created(tx, d) = SumFunctionOnSet(Amounts(outputs), OutputsOf(outputs, d))
    BY <2>1 DEF Pays
  <2> DEFINE p == Payments(outputs)
  <2>4. /\ call.caller = c /\ call.from = c /\ call.function = "Transfer"
        /\ call.payments = p
    BY <1>3, <2>3
  <2> HIDE DEF call, tx, c
  <2>5. /\ Accounts!Need(p, "utxo") = Spent(tx, c)
        /\ \A d \in Client : Accounts!Share(p, d, "utxo") = Created(tx, d)
    BY <2>3, PaymentSums
  <2> HIDE DEF p
  <2>6. Accounts!Move({c}, p)
    <3>1. \A d \in Client : (IF d \in {c} THEN Accounts!Need(p, "utxo") ELSE 0) = Spent(tx, d)
      BY <2>2, <2>5
    <3> QED
      BY <1>2, <2>5, <3>1, Moved DEF tx
  <2>7. Accounts!Covers(c, p)
    <3>1. Balances[c]["utxo"] = Balance(c)
      BY <2>2 DEF Balances
    <3> QED
      BY <1>2, <2>2, <2>5, <3>1 DEF Accounts!Covers, tx
  <2>8. Accounts!Transfer(c, c, p)
    BY <2>6, <2>7 DEF Accounts!Transfer
  <2> QED
    BY <2>4, <2>8 DEF Accounts!Run, call, tx
<1> QED
  BY <1>1, <1>4, <1>5, <1>6 DEF Explained

\* A transaction that joins the pool is a call that is made; one that leaves it
\* is served or refused.
LEMMA JoinRefines ==
    ASSUME DOMAIN pool = TxId, NEW id \in TxId, Joins(id)
    PROVE  Accounts!Submit(id) \/ UNCHANGED <<Calls, height>>
<1>1. PICK tx : pool' = [pool EXCEPT ![id] = tx]
  BY DEF Joins
<1>2. CASE tx = Idle
  <2>1. \A j \in TxId : pool'[j] = pool[j]
    BY <1>1, <1>2 DEF Joins
  <2>2. UNCHANGED InFlight
    BY <2>1 DEF InFlight
  <2>3. UNCHANGED Calls
    BY <2>1, <2>2 DEF Calls, CallOf, InFlight
  <2> QED
    BY <2>3 DEF Joins
<1>3. CASE tx # Idle
  <2>1. /\ id \notin InFlight /\ InFlight' = InFlight \union {id}
        /\ \A j \in InFlight : pool'[j] = pool[j]
    BY <1>1, <1>3 DEF Joins, InFlight
  <2>2. DOMAIN Calls = InFlight /\ DOMAIN Calls' = InFlight'
    BY DEF Calls
  <2>3. \A j \in InFlight : Calls'[j] = Calls[j]
    BY <2>1 DEF Calls, CallOf
  <2> QED
    BY <2>1, <2>2, <2>3 DEF Joins, Accounts!Submit, Accounts!OthersWait
<1> QED
  BY <1>2, <1>3

LEMMA LeaveRefines ==
    ASSUME DOMAIN pool = TxId, NEW id \in InFlight, pool' = [pool EXCEPT ![id] = Idle]
    PROVE  /\ id \in DOMAIN Calls /\ DOMAIN Calls' = DOMAIN Calls \ {id}
           /\ Accounts!OthersWait(id)
           /\ Calls[id] = CallOf(pool[id])
<1>1. /\ InFlight' = InFlight \ {id}
      /\ \A j \in InFlight' : pool'[j] = pool[j]
  BY DEF InFlight
<1>2. DOMAIN Calls = InFlight /\ DOMAIN Calls' = InFlight'
  BY DEF Calls
<1>3. \A j \in InFlight' : Calls'[j] = Calls[j]
  BY <1>1 DEF Calls, CallOf
<1>4. Calls[id] = CallOf(pool[id])
  BY DEF Calls
<1> QED
  BY <1>1, <1>2, <1>3, <1>4 DEF Accounts!OthersWait

\* A commit serves the call of its transaction.
LEMMA ServeRefines ==
    ASSUME IInv, FlowInv, NEW id \in TxId, CommitValid(id), UNCHANGED issued,
           Supply <= MaxInt, Supply' <= MaxInt
    PROVE  Accounts!Next
<1>1. id \in InFlight /\ pool' = [pool EXCEPT ![id] = Idle] /\ height' = height + 1
  BY DEF CommitValid, InFlight
<1>2. /\ id \in DOMAIN Calls /\ DOMAIN Calls' = DOMAIN Calls \ {id}
      /\ Accounts!OthersWait(id)
      /\ Calls[id] = CallOf(pool[id])
  BY <1>1, LeaveRefines DEF IInv, LedgerOK
<1>3. Accounts!Serve(id)
  BY <1>1, <1>2 DEF Accounts!Serve
<1>4. Accounts!Run(Calls[id])
  BY <1>2, CommitRefines
<1> QED
  BY <1>3, <1>4 DEF Accounts!Next

\* A refused or lost transaction is a call that had no effect.
LEMMA RefuseRefines ==
    ASSUME IInv, NEW id \in TxId, MarkInvalid(id) \/ Lose(id)
    PROVE  Accounts!Refuse(id)
<1>1. id \in InFlight /\ pool' = [pool EXCEPT ![id] = Idle] /\ height' = height
  BY DEF MarkInvalid, Lose, InFlight
<1> QED
  BY <1>1, LeaveRefines DEF Accounts!Refuse, IInv, LedgerOK

\* What the comment in Transfer says, and what it takes: while the supply fits an
\* int, no sum of Transfer overflows and a transfer leaves the supply as it was.
THEOREM SupplyKept == Spec /\ [](Supply <= MaxInt) => TransferKeepsSupply
<1> DEFINE P == \A id \in InFlight :
                  pool'[id] = Idle /\ pool[id].event.name = "Transfer" => Supply' = Supply
           Fits == Supply <= MaxInt
<1>1. IInv /\ FlowInv /\ Fits /\ Fits' /\ [Next]_vars => [P]_vars
  <2> SUFFICES ASSUME IInv, FlowInv, Fits, Fits', Next,
                      NEW id \in InFlight, pool'[id] = Idle,
                      pool[id].event.name = "Transfer"
               PROVE  Supply' = Supply
    OBVIOUS
  <2>1. CASE UNCHANGED world
    BY <2>1, BalancesStay
  <2>2. ASSUME NEW i \in TxId, CommitValid(i), UNCHANGED issued
        PROVE  Supply' = Supply
    <3>1. i = id
      BY <2>2 DEF CommitValid, InFlight, IInv, LedgerOK
    <3>2. Moving(id, pool[id])
      <4>1. Explained(id, pool[id])
        BY DEF FlowInv
      <4>2. ~Initializing(pool[id])
        BY DEF Initializing, Response
      <4>3. ~Minting(pool[id])
        <5> SUFFICES ASSUME Minting(pool[id]) PROVE FALSE
          OBVIOUS
        <5>1. \E outputs : pool[id].event = Response("Mint", outputs)
          BY MintFacts
        <5> QED
          BY <5>1 DEF Response
      <4> QED
        BY <4>1, <4>2, <4>3 DEF Explained
    <3>3. CommitValid(id) /\ id \in TxId
      BY <2>2, <3>1
    <3> QED
      BY <2>2, <3>2, <3>3, MovingTotals
  <2>3. (\E i \in TxId : CommitValid(i) /\ UNCHANGED issued) \/ UNCHANGED world
    BY OnlyCommitWrites
  <2> QED
    BY <2>1, <2>2, <2>3
<1>2. Spec /\ []Fits => [][P]_vars
  BY <1>1, FlowInductive, PTL DEF Spec
<1> QED
  BY <1>2 DEF TransferKeepsSupply

\* The contract, with any number of transfers in flight, is the accounts as long
\* as the supply fits an int: a transfer that commits takes the sum of the outputs
\* it answers from its own creator, who has it then, and gives each output to its
\* owner; only a minter mints, and what it answers.
THEOREM Accounting == Spec /\ [](Supply <= MaxInt) => AccountsSpec
<1> DEFINE Fits == Supply <= MaxInt
<1>1. Init => Accounts!Init
  <2> SUFFICES ASSUME Init PROVE Accounts!Init
    OBVIOUS
  <2>1. Accounts!CallsInit
    BY DEF Init, LedgerInit, Calls, InFlight, Accounts!CallsInit
  <2> QED
    BY <2>1, InitEmpty DEF Balances, Accounts!Init
<1>2. IInv /\ FlowInv /\ Fits /\ Fits' /\ [Next]_vars => [Accounts!Next]_(Accounts!vars)
  <2> SUFFICES ASSUME IInv, FlowInv, Fits, Fits', [Next]_vars
               PROVE  Accounts!Next \/ UNCHANGED <<Balances, {}, Calls, height>>
    BY DEF Accounts!vars
  <2>1. CASE UNCHANGED vars
    BY <2>1, BalancesStay DEF vars, Calls, CallOf, InFlight
  <2>2. ASSUME NEW id \in TxId, Simulate(id)
        PROVE  Accounts!Next \/ UNCHANGED <<Balances, {}, Calls, height>>
    <3>1. Joins(id) /\ UNCHANGED world
      BY <2>2, OnlyJoins DEF Joins
    <3>2. UNCHANGED <<Balances, {}>>
      BY <3>1, BalancesStay
    <3> QED
      BY <3>1, <3>2, JoinRefines DEF Accounts!Next, IInv, LedgerOK
  <2>3. ASSUME NEW id \in TxId, CommitValid(id), UNCHANGED issued
        PROVE  Accounts!Next
    BY <2>3, ServeRefines
  <2>4. ASSUME NEW id \in TxId, MarkInvalid(id) \/ Lose(id)
        PROVE  Accounts!Next
    <3>1. UNCHANGED <<Balances, {}>>
      BY <2>4, BalancesStay DEF MarkInvalid, Lose
    <3> QED
      BY <2>4, <3>1, RefuseRefines DEF Accounts!Next
  <2> QED
    BY <2>1, <2>2, <2>3, <2>4 DEF Next
<1> QED
  BY <1>1, <1>2, FlowInductive, PTL DEF Spec, AccountsSpec, Accounts!Spec

-----------------------------------------------------------------------------
(* A bound on the amounts under which the supply fits.                     *)

\* A mint adds its amount to the supply.
LEMMA MintTotals ==
    ASSUME IInv, FlowInv, NEW id \in TxId, CommitValid(id), UNCHANGED issued,
           Minting(pool[id])
    PROVE  \E a \in Amount : Supply' = Supply + a
<1> DEFINE tx == pool[id]
           s == [c \in Client |-> Spent(tx, c)]
           r == [c \in Client |-> Created(tx, c)]
<1>1. /\ tx.creator \in Client
      /\ \A c \in Client : Spent(tx, c) = 0
      /\ \A c \in Client \ {tx.creator} : Created(tx, c) = 0
  BY MintFacts
<1>2. PICK a \in Amount : a \in Nat /\ Created(tx, tx.creator) = a
  BY MintFacts
<1>3. IsFiniteSet(Client)
  BY ConstantAssumption
<1> HIDE DEF tx
<1>4. SumFunctionOnSet(s, Client) = 0
  <2>1. \A c \in Client : s[c] = 0
    BY <1>1
  <2> HIDE DEF s
  <2> QED
    BY <1>3, <2>1, SumZero
<1>5. SumFunctionOnSet(r, Client) = a
  <2>1. r[tx.creator] = a /\ \A c \in Client \ {tx.creator} : r[c] = 0
    BY <1>1, <1>2
  <2> HIDE DEF r
  <2> QED
    BY <1>1, <1>2, <1>3, <2>1, SumOne
<1>6. Supply \in Nat /\ Supply' \in Nat
      /\ Supply' + SumFunctionOnSet(s, Client) = Supply + SumFunctionOnSet(r, Client)
  BY CommitSupply DEF tx
<1> HIDE DEF s, r
<1>7. Supply' + 0 = Supply + a
  BY <1>4, <1>5, <1>6
<1>8. \A x, y, z \in Nat : y + 0 = x + z => y = x + z
  OBVIOUS
<1>9. Supply' = Supply + a
  BY <1>2, <1>6, <1>7, <1>8
<1> QED
  BY <1>9

\* No call asks for more than m, and neither the mints of the whole ledger nor
\* the outputs of one transfer could come to more than an int.
SmallSupply ==
    \E m \in Nat : /\ \A a \in Amount : a <= m
                   /\ MaxHeight * m <= MaxInt
                   /\ MaxList * m <= MaxInt

\* Then the supply always fits: it is at most m for every valid transaction.
THEOREM SupplyFits ==
    ASSUME SmallSupply
    PROVE  Spec => [](Supply <= MaxInt)
<1>1. PICK m \in Nat : /\ \A a \in Amount : a <= m
                       /\ MaxHeight * m <= MaxInt
                       /\ MaxList * m <= MaxInt
  BY DEF SmallSupply
<1> DEFINE Bound == Supply \in Nat /\ Supply <= height * m
<1>2. SmallLists
  BY <1>1 DEF SmallLists
<1>3. MaxInt \in Nat /\ MaxHeight \in Nat /\ MaxHeight * m \in Nat
  BY ConstantAssumption, MaxHeightAssumption
<1>4. ASSUME NEW h \in 0..MaxHeight
      PROVE  /\ h * m \in Nat /\ h * m <= MaxInt
             /\ (h + 1) * m = h * m + m
  <2>1. h \in Nat /\ MaxHeight - h \in Nat /\ MaxHeight = h + (MaxHeight - h)
    BY <1>3
  <2>2. \A k \in Nat : (h + k) * m = h * m + k * m /\ h * m \in Nat /\ k * m \in Nat
    BY <2>1
  <2>3. MaxHeight * m = h * m + (MaxHeight - h) * m /\ (MaxHeight - h) * m \in Nat /\ h * m \in Nat
    BY <2>1, <2>2
  <2>4. h * m <= MaxHeight * m
    BY <2>3
  <2>5. (h + 1) * m = h * m + m
    BY <2>2
  <2> QED
    BY <1>1, <1>3, <2>3, <2>4, <2>5
<1>5. Init => Bound
  <2> SUFFICES ASSUME Init PROVE Bound
    OBVIOUS
  <2>1. \A c \in Client : Balance(c) = 0
    BY InitEmpty
  <2> DEFINE b == [c \in Client |-> Balance(c)]
  <2>2. \A c \in Client : b[c] = 0
    BY <2>1
  <2>3. Supply = SumFunctionOnSet(b, Client)
    BY SupplyFacts
  <2>4. SumFunctionOnSet(b, Client) = 0
    <3> HIDE DEF b
    <3> QED
      BY <2>2, ConstantAssumption, SumZero
  <2>5. height = 0 /\ 0 * m = 0
    BY DEF Init, LedgerInit
  <2> QED
    BY <2>3, <2>4, <2>5
<1>6. IInv /\ FlowInv /\ Bound /\ [Next]_vars => Bound'
  <2> SUFFICES ASSUME IInv, FlowInv, Bound, [Next]_vars PROVE Bound'
    OBVIOUS
  <2>1. CASE UNCHANGED <<world, height>>
    BY <2>1, BalancesStay
  <2>2. ASSUME NEW id \in TxId, CommitValid(id), UNCHANGED issued
        PROVE  Bound'
    <3>1. height \in 0..MaxHeight /\ height' = height + 1
      BY <2>2 DEF CommitValid, IInv, LedgerOK
    <3>2. /\ height * m \in Nat /\ height * m <= MaxInt
          /\ height' * m = height * m + m
      BY <1>4, <3>1
    <3>3. Supply <= MaxInt
      BY <1>3, <3>2
    <3>4. Explained(id, pool[id])
      BY <2>2, CommitFacts DEF FlowInv
    <3>5. Supply' = Supply \/ \E a \in Amount : Supply' = Supply + a
      <4>1. CASE Initializing(pool[id])
        BY <2>2, <4>1, InitializeKeeps
      <4>2. CASE Minting(pool[id])
        BY <2>2, <4>2, MintTotals
      <4>3. CASE Moving(id, pool[id])
        BY <1>2, <2>2, <3>3, <4>3, MovingTotals
      <4> QED
        BY <3>4, <4>1, <4>2, <4>3 DEF Explained
    <3>6. \A a \in Amount : a \in Nat /\ a <= m
      BY <1>1, ConstantAssumption
    <3>7. CASE Supply' = Supply
      BY <3>2, <3>7
    <3>8. CASE \E a \in Amount : Supply' = Supply + a
      <4>1. PICK a \in Amount : Supply' = Supply + a
        BY <3>8
      <4> QED
        BY <3>2, <3>6, <4>1
    <3> QED
      BY <3>5, <3>7, <3>8
  <2> QED
    BY <2>1, <2>2, OnlyCommitWrites DEF vars
<1>7. IInv /\ Bound => Supply <= MaxInt
  <2> SUFFICES ASSUME IInv, Bound PROVE Supply <= MaxInt
    OBVIOUS
  <2>1. height \in 0..MaxHeight
    BY DEF IInv, LedgerOK
  <2> QED
    BY <1>3, <1>4, <2>1
<1> QED
  BY <1>5, <1>6, <1>7, FlowInductive, PTL DEF Spec

\* With amounts that small the contract is the accounts, each call served for its
\* own caller, without any condition on the run.
COROLLARY SmallAccounting ==
    ASSUME SmallSupply
    PROVE  Spec => AccountsSpec
  BY SupplyFits, Accounting, PTL
===============================================================================
