----------------------------- MODULE SumProofs ------------------------------
(***************************************************************************)
(* Sums over finite sets: what SumFunctionOnSet, a fold of the community   *)
(* modules, computes.  The fold takes the elements in the order of a       *)
(* CHOOSE; the lemmas show that it may take them in any.  An induction     *)
(* over sets is put as: there is no smallest set without the property.     *)
(***************************************************************************)
EXTENDS Integers, Functions, FiniteSetTheorems, WellFoundedInduction, TLAPS

LEMMA SmallestSet ==
    ASSUME NEW S, IsFiniteSet(S), NEW Bad \in SUBSET SUBSET S, Bad # {}
    PROVE  \E T \in Bad : \A U \in SUBSET T : U # T => U \notin Bad
<1>1. IsWellFoundedOn(StrictSubsetOrdering(S), FiniteSubsetsOf(S))
  BY FS_StrictSubsetOrderingWellFounded
<1>2. Bad \subseteq FiniteSubsetsOf(S)
  BY FS_Subset DEF FiniteSubsetsOf
<1>3. PICK T \in Bad : \A U \in Bad : ~(<<U, T>> \in StrictSubsetOrdering(S))
  BY <1>1, <1>2, WFMin
<1>4. ASSUME NEW U \in SUBSET T, U # T
      PROVE  U \notin Bad
  <2>1. T \in SUBSET S
    OBVIOUS
  <2>2. <<U, T>> \in StrictSubsetOrdering(S)
    BY <1>4, <2>1 DEF StrictSubsetOrdering
  <2> QED
    BY <1>3, <2>2
<1> QED
  BY <1>4

-----------------------------------------------------------------------------
(* The fold is the value at S of a recursive function on the subsets of S. *)

Pick(s) == CHOOSE x \in s : TRUE

Rest(s) == s \ {Pick(s)}

IsSum(g, f, S) ==
    g = [s \in SUBSET S |-> IF s = {} THEN 0 ELSE f[Pick(s)] + g[Rest(s)]]

SumsOf(f, S) == CHOOSE g : IsSum(g, f, S)

LEMMA SumIsFold ==
    ASSUME NEW f, NEW S
    PROVE  SumFunctionOnSet(f, S) = SumsOf(f, S)[S]
BY DEF SumFunctionOnSet, FoldFunctionOnSet, MapThenFoldSet, SumsOf, IsSum, Pick, Rest

LEMMA RestSmaller ==
    ASSUME NEW s, s # {}
    PROVE  Pick(s) \in s /\ Rest(s) \in SUBSET s /\ Rest(s) # s
BY DEF Pick, Rest

LEMMA SumAt ==
    ASSUME NEW g, NEW f, NEW S, IsSum(g, f, S), NEW s \in SUBSET S
    PROVE  g[s] = IF s = {} THEN 0 ELSE f[Pick(s)] + g[Rest(s)]
BY DEF IsSum

LEMMA SumsAgree ==
    ASSUME NEW f, NEW S, NEW T, IsFiniteSet(T), T \subseteq S,
           NEW g, IsSum(g, f, S), NEW h, IsSum(h, f, T)
    PROVE  g[T] = h[T]
<1> DEFINE Bad == {s \in SUBSET T : g[s] # h[s]}
<1> SUFFICES ASSUME Bad # {} PROVE FALSE
  OBVIOUS
<1>1. PICK s \in Bad : \A U \in SUBSET s : U # s => U \notin Bad
  <2>1. Bad \in SUBSET SUBSET T
    OBVIOUS
  <2> HIDE DEF Bad
  <2> QED
    BY <2>1, SmallestSet
<1>2. s \in SUBSET T /\ s \in SUBSET S /\ g[s] # h[s]
  OBVIOUS
<1>3. s # {}
  BY <1>2, SumAt
<1>4. g[Rest(s)] = h[Rest(s)]
  BY <1>1, <1>2, <1>3, RestSmaller
<1> QED
  BY <1>2, <1>3, <1>4, SumAt

LEMMA SumExists ==
    ASSUME NEW f, NEW S, IsFiniteSet(S)
    PROVE  IsSum(SumsOf(f, S), f, S)
<1> SUFFICES \E g : IsSum(g, f, S)
  BY DEF SumsOf
<1> DEFINE Bad == {T \in SUBSET S : ~\E g : IsSum(g, f, T)}
<1> SUFFICES ASSUME Bad # {} PROVE FALSE
  OBVIOUS
<1>1. PICK T \in Bad : \A U \in SUBSET T : U # T => U \notin Bad
  <2>1. Bad \in SUBSET SUBSET S
    OBVIOUS
  <2> HIDE DEF Bad
  <2> QED
    BY <2>1, SmallestSet
<1>2. IsFiniteSet(T) /\ T \in SUBSET S /\ ~\E g : IsSum(g, f, T)
  BY FS_Subset
<1>3. ASSUME NEW U \in SUBSET T, U # T
      PROVE  IsSum(SumsOf(f, U), f, U)
  BY <1>1, <1>2, <1>3 DEF SumsOf
<1> DEFINE g == [s \in SUBSET T |->
                   IF s = {} THEN 0 ELSE f[Pick(s)] + SumsOf(f, Rest(s))[Rest(s)]]
<1>4. ASSUME NEW r \in SUBSET T, r # T
      PROVE  SumsOf(f, r)[r] = g[r]
  <2>1. IsSum(SumsOf(f, r), f, r)
    BY <1>3, <1>4
  <2>2. CASE r = {}
    BY <2>1, <2>2, SumAt
  <2>3. CASE r # {}
    <3>1. Rest(r) \in SUBSET r /\ Rest(r) \in SUBSET T /\ Rest(r) # T
      BY <1>4, <2>3, RestSmaller
    <3>2. IsFiniteSet(Rest(r)) /\ IsSum(SumsOf(f, Rest(r)), f, Rest(r))
      BY <1>2, <1>3, <3>1, FS_Subset
    <3>3. SumsOf(f, r)[Rest(r)] = SumsOf(f, Rest(r))[Rest(r)]
      BY <2>1, <3>1, <3>2, SumsAgree
    <3>4. SumsOf(f, r)[r] = f[Pick(r)] + SumsOf(f, r)[Rest(r)]
      BY <2>1, <2>3, SumAt
    <3> QED
      BY <2>3, <3>3, <3>4
  <2> QED
    BY <2>2, <2>3
<1>5. ASSUME NEW s \in SUBSET T
      PROVE  g[s] = IF s = {} THEN 0 ELSE f[Pick(s)] + g[Rest(s)]
  <2>1. CASE s = {}
    BY <2>1
  <2>2. CASE s # {}
    <3>1. Rest(s) \in SUBSET T /\ Rest(s) # T
      BY <2>2, RestSmaller
    <3>2. SumsOf(f, Rest(s))[Rest(s)] = g[Rest(s)]
      BY <1>4, <3>1
    <3>3. g[s] = f[Pick(s)] + SumsOf(f, Rest(s))[Rest(s)]
      BY <2>2
    <3> HIDE DEF g
    <3> QED
      BY <2>2, <3>2, <3>3
  <2> QED
    BY <2>1, <2>2
<1>6. IsSum(g, f, T)
  <2>1. g = [s \in SUBSET T |-> g[s]]
    OBVIOUS
  <2> HIDE DEF g
  <2> QED
    BY <1>5, <2>1 DEF IsSum
<1> QED
  BY <1>2, <1>6

(* What the fold computes, one element at a time.                          *)
LEMMA SumEmpty ==
    ASSUME NEW f
    PROVE  SumFunctionOnSet(f, {}) = 0
BY SumIsFold, SumExists, SumAt, FS_EmptySet

LEMMA SumPick ==
    ASSUME NEW f, NEW S, IsFiniteSet(S), S # {}
    PROVE  SumFunctionOnSet(f, S) = f[Pick(S)] + SumFunctionOnSet(f, Rest(S))
<1>1. IsSum(SumsOf(f, S), f, S)
  BY SumExists
<1>2. Rest(S) \in SUBSET S /\ IsFiniteSet(Rest(S))
  BY RestSmaller, FS_Subset
<1>3. IsSum(SumsOf(f, Rest(S)), f, Rest(S))
  BY <1>2, SumExists
<1>4. SumsOf(f, S)[Rest(S)] = SumsOf(f, Rest(S))[Rest(S)]
  BY <1>1, <1>2, <1>3, SumsAgree
<1>5. SumsOf(f, S)[S] = f[Pick(S)] + SumsOf(f, S)[Rest(S)]
  BY <1>1, SumAt
<1> QED
  BY <1>4, <1>5, SumIsFold

-----------------------------------------------------------------------------
(* Sums of natural numbers                                                 *)

LEMMA SumNat ==
    ASSUME NEW f, NEW S, IsFiniteSet(S), \A x \in S : f[x] \in Nat
    PROVE  SumFunctionOnSet(f, S) \in Nat
<1> DEFINE Bad == {T \in SUBSET S : SumFunctionOnSet(f, T) \notin Nat}
<1> SUFFICES ASSUME Bad # {} PROVE FALSE
  OBVIOUS
<1>1. PICK T \in Bad : \A U \in SUBSET T : U # T => U \notin Bad
  <2>1. Bad \in SUBSET SUBSET S
    OBVIOUS
  <2> HIDE DEF Bad
  <2> QED
    BY <2>1, SmallestSet
<1>2. IsFiniteSet(T) /\ T \in SUBSET S /\ SumFunctionOnSet(f, T) \notin Nat
  BY FS_Subset
<1>3. T # {}
  BY <1>2, SumEmpty
<1>4. Rest(T) \in SUBSET T /\ Rest(T) # T /\ f[Pick(T)] \in Nat
  BY <1>2, <1>3, RestSmaller
<1>5. SumFunctionOnSet(f, Rest(T)) \in Nat
  BY <1>1, <1>2, <1>4
<1> QED
  BY <1>2, <1>3, <1>4, <1>5, SumPick

(* Any element may be taken first.                                         *)
LEMMA SumTake ==
    ASSUME NEW f, NEW S, IsFiniteSet(S), \A x \in S : f[x] \in Nat, NEW e \in S
    PROVE  SumFunctionOnSet(f, S) = f[e] + SumFunctionOnSet(f, S \ {e})
<1> DEFINE Splits(T, x) ==
               SumFunctionOnSet(f, T) = f[x] + SumFunctionOnSet(f, T \ {x})
           Bad == {T \in SUBSET S : \E x \in T : ~Splits(T, x)}
<1> SUFFICES ASSUME Bad # {} PROVE FALSE
  OBVIOUS
<1>1. PICK T \in Bad : \A U \in SUBSET T : U # T => U \notin Bad
  <2>1. Bad \in SUBSET SUBSET S
    OBVIOUS
  <2> HIDE DEF Bad
  <2> QED
    BY <2>1, SmallestSet
<1>2. PICK x \in T : ~Splits(T, x)
  OBVIOUS
<1>3. IsFiniteSet(T) /\ T \in SUBSET S /\ T # {}
  BY FS_Subset
<1> DEFINE p == Pick(T)
<1>4. /\ p \in T /\ Rest(T) = T \ {p} /\ Rest(T) \in SUBSET T /\ Rest(T) # T
      /\ SumFunctionOnSet(f, T) = f[p] + SumFunctionOnSet(f, Rest(T))
  BY <1>3, RestSmaller, SumPick DEF Rest
<1>5. x # p /\ x \in Rest(T)
  BY <1>2, <1>4
<1>6. Splits(Rest(T), x)
  BY <1>1, <1>3, <1>4, <1>5
<1>7. T \ {x} \in SUBSET T /\ T \ {x} # T /\ p \in T \ {x}
  BY <1>4, <1>5
<1>8. Splits(T \ {x}, p)
  BY <1>1, <1>3, <1>7
<1>9. (T \ {x}) \ {p} = Rest(T) \ {x}
  BY <1>4
<1>10. SumFunctionOnSet(f, Rest(T) \ {x}) \in Nat
  <2>1. IsFiniteSet(Rest(T) \ {x}) /\ \A y \in Rest(T) \ {x} : f[y] \in Nat
    BY <1>3, <1>4, FS_Subset
  <2> QED
    BY <2>1, SumNat
<1>11. f[x] \in Nat /\ f[p] \in Nat
  BY <1>3, <1>4
<1>12. SumFunctionOnSet(f, Rest(T)) = f[x] + SumFunctionOnSet(f, Rest(T) \ {x})
  BY <1>6
<1>13. SumFunctionOnSet(f, T \ {x}) = f[p] + SumFunctionOnSet(f, Rest(T) \ {x})
  BY <1>8, <1>9
<1>14. SumFunctionOnSet(f, T) # f[x] + SumFunctionOnSet(f, T \ {x})
  BY <1>2
<1> HIDE DEF Bad, p, Splits
<1> QED
  BY <1>4, <1>10, <1>11, <1>12, <1>13, <1>14

(* Functions that agree on the set have the same sum.                      *)
LEMMA SumSame ==
    ASSUME NEW f, NEW g, NEW S, IsFiniteSet(S), \A x \in S : f[x] = g[x]
    PROVE  SumFunctionOnSet(f, S) = SumFunctionOnSet(g, S)
<1> DEFINE Bad == {T \in SUBSET S : SumFunctionOnSet(f, T) # SumFunctionOnSet(g, T)}
<1> SUFFICES ASSUME Bad # {} PROVE FALSE
  OBVIOUS
<1>1. PICK T \in Bad : \A U \in SUBSET T : U # T => U \notin Bad
  <2>1. Bad \in SUBSET SUBSET S
    OBVIOUS
  <2> HIDE DEF Bad
  <2> QED
    BY <2>1, SmallestSet
<1>2. /\ IsFiniteSet(T) /\ T \in SUBSET S
      /\ SumFunctionOnSet(f, T) # SumFunctionOnSet(g, T)
  BY FS_Subset
<1>3. T # {}
  BY <1>2, SumEmpty
<1>4. Rest(T) \in SUBSET T /\ Rest(T) # T /\ f[Pick(T)] = g[Pick(T)]
  BY <1>2, <1>3, RestSmaller
<1>5. SumFunctionOnSet(f, Rest(T)) = SumFunctionOnSet(g, Rest(T))
  BY <1>1, <1>2, <1>4
<1> QED
  BY <1>2, <1>3, <1>4, <1>5, SumPick

(* One term that grows by k makes the sum grow by k.                       *)
LEMMA SumGrows ==
    ASSUME NEW f, NEW g, NEW S, IsFiniteSet(S), NEW e \in S, NEW k \in Int,
           \A x \in S : f[x] \in Nat /\ g[x] \in Nat,
           \A x \in S \ {e} : g[x] = f[x], g[e] = f[e] + k
    PROVE  SumFunctionOnSet(g, S) = SumFunctionOnSet(f, S) + k
<1>1. SumFunctionOnSet(f, S) = f[e] + SumFunctionOnSet(f, S \ {e})
  BY SumTake
<1>2. SumFunctionOnSet(g, S) = g[e] + SumFunctionOnSet(g, S \ {e})
  BY SumTake
<1>3. IsFiniteSet(S \ {e})
  BY FS_Subset
<1>4. SumFunctionOnSet(g, S \ {e}) = SumFunctionOnSet(f, S \ {e})
  BY <1>3, SumSame
<1>5. SumFunctionOnSet(f, S \ {e}) \in Nat
  BY <1>3, SumNat
<1> QED
  BY <1>1, <1>2, <1>4, <1>5

(* Sums are monotone.                                                      *)
LEMMA SumMonotone ==
    ASSUME NEW f, NEW g, NEW S, IsFiniteSet(S),
           \A x \in S : f[x] \in Nat /\ g[x] \in Nat /\ f[x] <= g[x]
    PROVE  SumFunctionOnSet(f, S) <= SumFunctionOnSet(g, S)
<1> DEFINE Bad == {T \in SUBSET S : ~(SumFunctionOnSet(f, T) <= SumFunctionOnSet(g, T))}
<1> SUFFICES ASSUME Bad # {} PROVE FALSE
  OBVIOUS
<1>1. PICK T \in Bad : \A U \in SUBSET T : U # T => U \notin Bad
  <2>1. Bad \in SUBSET SUBSET S
    OBVIOUS
  <2> HIDE DEF Bad
  <2> QED
    BY <2>1, SmallestSet
<1>2. /\ IsFiniteSet(T) /\ T \in SUBSET S
      /\ ~(SumFunctionOnSet(f, T) <= SumFunctionOnSet(g, T))
  BY FS_Subset
<1>3. T # {}
  BY <1>2, SumEmpty
<1>4. /\ Rest(T) \in SUBSET T /\ Rest(T) # T /\ f[Pick(T)] \in Nat
      /\ g[Pick(T)] \in Nat /\ f[Pick(T)] <= g[Pick(T)]
  BY <1>2, <1>3, RestSmaller
<1>5. SumFunctionOnSet(f, Rest(T)) <= SumFunctionOnSet(g, Rest(T))
  BY <1>1, <1>2, <1>4
<1>6. SumFunctionOnSet(f, Rest(T)) \in Nat /\ SumFunctionOnSet(g, Rest(T)) \in Nat
  <2>1. IsFiniteSet(Rest(T)) /\ \A x \in Rest(T) : f[x] \in Nat /\ g[x] \in Nat
    BY <1>2, <1>4, FS_Subset
  <2> QED
    BY <2>1, SumNat
<1>7. /\ SumFunctionOnSet(f, T) = f[Pick(T)] + SumFunctionOnSet(f, Rest(T))
      /\ SumFunctionOnSet(g, T) = g[Pick(T)] + SumFunctionOnSet(g, Rest(T))
  BY <1>2, <1>3, SumPick
<1> HIDE DEF Bad
<1> QED
  BY <1>2, <1>4, <1>5, <1>6, <1>7

(* Terms that are all the same.                                            *)
LEMMA SumConstant ==
    ASSUME NEW f, NEW S, IsFiniteSet(S), NEW k \in Nat, \A x \in S : f[x] = k
    PROVE  SumFunctionOnSet(f, S) = Cardinality(S) * k
<1> DEFINE Bad == {T \in SUBSET S : SumFunctionOnSet(f, T) # Cardinality(T) * k}
<1> SUFFICES ASSUME Bad # {} PROVE FALSE
  OBVIOUS
<1>1. PICK T \in Bad : \A U \in SUBSET T : U # T => U \notin Bad
  <2>1. Bad \in SUBSET SUBSET S
    OBVIOUS
  <2> HIDE DEF Bad
  <2> QED
    BY <2>1, SmallestSet
<1>2. /\ IsFiniteSet(T) /\ T \in SUBSET S
      /\ SumFunctionOnSet(f, T) # Cardinality(T) * k
  BY FS_Subset
<1>3. T # {}
  <2>1. Cardinality({}) * k = 0
    BY FS_EmptySet
  <2> QED
    BY <1>2, <2>1, SumEmpty
<1>4. Rest(T) \in SUBSET T /\ Rest(T) # T /\ f[Pick(T)] = k
  BY <1>2, <1>3, RestSmaller
<1>5. SumFunctionOnSet(f, Rest(T)) = Cardinality(Rest(T)) * k
  BY <1>1, <1>2, <1>4
<1>6. Cardinality(Rest(T)) = Cardinality(T) - 1 /\ Cardinality(T) \in Nat
  BY <1>2, <1>3, RestSmaller, FS_RemoveElement, FS_CardinalityType DEF Rest
<1>7. SumFunctionOnSet(f, T) = k + SumFunctionOnSet(f, Rest(T))
  BY <1>2, <1>3, <1>4, SumPick
<1>8. k + (Cardinality(T) - 1) * k = Cardinality(T) * k
  BY <1>6
<1> HIDE DEF Bad
<1> QED
  BY <1>2, <1>5, <1>6, <1>7, <1>8

=============================================================================
