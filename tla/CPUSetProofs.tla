---------------------------- MODULE CPUSetProofs ----------------------------
(***************************************************************************)
(* The lists of cpuset.go are sets: what its loops and its binary search   *)
(* compute, for lists and texts of every length.                           *)
(***************************************************************************)
EXTENDS CPUSet, SumProofs

-----------------------------------------------------------------------------
(* A loop over a list is FoldLeft, a recursive function on the sets of     *)
(* places, of which it takes the largest place last.                       *)

LEMMA Counting ==
    ASSUME NEW n \in Nat, NEW Good, 0 \in Good, \A k \in 1 .. n : k - 1 \in Good => k \in Good
    PROVE  \A k \in 0 .. n : k \in Good
<1> DEFINE Bad == {k \in 0 .. n : k \notin Good}
<1> SUFFICES ASSUME Bad # {} PROVE FALSE
  OBVIOUS
<1>1. PICK k \in Bad : \A j \in Bad : ~(<<j, k>> \in OpToRel(<, Nat))
  <2>1. Bad \subseteq Nat
    OBVIOUS
  <2> HIDE DEF Bad
  <2> QED
    BY <2>1, NatLessThanWellFounded, WFMin
<1>2. k \in 1 .. n /\ k \notin Good
  OBVIOUS
<1>3. k - 1 \in Bad
  BY <1>2
<1>4. <<k - 1, k>> \in OpToRel(<, Nat)
  BY <1>2 DEF OpToRel
<1> QED
  BY <1>1, <1>3, <1>4

LEMMA MaxIsLargest ==
    ASSUME NEW S, IsFiniteSet(S), S \subseteq Int, S # {}
    PROVE  Max(S) \in S /\ \A y \in S : Max(S) >= y
<1> DEFINE HasMax(T) == \E x \in T : \A y \in T : x >= y
           Bad == {T \in SUBSET S : T # {} /\ ~HasMax(T)}
<1>1. ASSUME Bad # {} PROVE FALSE
  <2>1. PICK T \in Bad : \A U \in SUBSET T : U # T => U \notin Bad
    <3>1. Bad \in SUBSET SUBSET S
      OBVIOUS
    <3> HIDE DEF Bad
    <3> QED
      BY <1>1, <3>1, SmallestSet
  <2>2. PICK e \in T : TRUE
    OBVIOUS
  <2>3. CASE T \ {e} = {}
    BY <2>2, <2>3
  <2>4. CASE T \ {e} # {}
    <3>1. T \ {e} \in SUBSET T /\ T \ {e} # T /\ T \ {e} \in SUBSET S
      BY <2>2
    <3>2. PICK x \in T \ {e} : \A y \in T \ {e} : x >= y
      BY <2>1, <2>4, <3>1
    <3>3. e \in Int /\ x \in Int /\ \A y \in T : y \in Int
      OBVIOUS
    <3>4. ~(x >= e)
      BY <3>2
    <3>5. \A y \in T : e >= y
      BY <3>2, <3>3, <3>4
    <3> QED
      BY <3>5
  <2> QED
    BY <2>3, <2>4
<1>2. HasMax(S)
  BY <1>1
<1> QED
  BY <1>2 DEF Max

Less(s) == s \ {Max(s)}

Places(s) == IsFiniteSet(s) /\ s \subseteq Int

LEMMA PlacesOf ==
    ASSUME NEW n \in Nat, NEW s \in SUBSET (1 .. n)
    PROVE  Places(s)
<1>1. IsFiniteSet(1 .. n)
  BY FS_Interval
<1>2. IsFiniteSet(s)
  BY <1>1, FS_Subset
<1>3. s \subseteq Int
  OBVIOUS
<1> QED
  BY <1>2, <1>3 DEF Places

LEMMA PlacesIn ==
    ASSUME NEW s, Places(s), NEW t \in SUBSET s
    PROVE  Places(t)
<1>1. IsFiniteSet(s) /\ s \subseteq Int
  BY DEF Places
<1>2. IsFiniteSet(t)
  BY <1>1, FS_Subset
<1>3. t \subseteq Int
  BY <1>1
<1> QED
  BY <1>2, <1>3 DEF Places

LEMMA LessSmaller ==
    ASSUME NEW s, Places(s), s # {}
    PROVE  Max(s) \in s /\ Less(s) \in SUBSET s /\ Less(s) # s
<1>1. IsFiniteSet(s) /\ s \subseteq Int
  BY DEF Places
<1> QED
  BY <1>1, MaxIsLargest DEF Less

LEMMA MaxOfPrefix ==
    ASSUME NEW n \in Nat, NEW k \in 1 .. n
    PROVE  /\ 1 .. k \in SUBSET (1 .. n) /\ 1 .. k # {}
           /\ Max(1 .. k) = k /\ Less(1 .. k) = 1 .. (k - 1)
<1>1. IsFiniteSet(1 .. k) /\ 1 .. k \subseteq Int /\ k \in 1 .. k
  BY FS_Interval
<1>2. Max(1 .. k) \in 1 .. k /\ Max(1 .. k) >= k
  BY <1>1, MaxIsLargest
<1>3. Max(1 .. k) = k
  BY <1>2
<1> QED
  BY <1>1, <1>3 DEF Less

(* A loop whose step is the function h, over the places of S.              *)
IsLoop(g, h, b, seq, S) ==
    g = [s \in SUBSET S |-> IF s = {} THEN b ELSE h[g[Less(s)]][seq[Max(s)]]]

LoopOf(h, b, seq, S) == CHOOSE g : IsLoop(g, h, b, seq, S)

LEMMA LoopAt ==
    ASSUME NEW g, NEW h, NEW b, NEW seq, NEW S, IsLoop(g, h, b, seq, S), NEW s \in SUBSET S
    PROVE  g[s] = IF s = {} THEN b ELSE h[g[Less(s)]][seq[Max(s)]]
BY DEF IsLoop

LEMMA LoopsAgree ==
    ASSUME NEW h, NEW b, NEW seq, NEW S, NEW T \in SUBSET S, Places(T),
           NEW f, IsLoop(f, h, b, seq, S), NEW g, IsLoop(g, h, b, seq, T)
    PROVE  f[T] = g[T]
<1> DEFINE Bad == {s \in SUBSET T : f[s] # g[s]}
<1> SUFFICES ASSUME Bad # {} PROVE FALSE
  OBVIOUS
<1>1. PICK s \in Bad : \A U \in SUBSET s : U # s => U \notin Bad
  <2>1. Bad \in SUBSET SUBSET T /\ IsFiniteSet(T)
    BY DEF Places
  <2> HIDE DEF Bad
  <2> QED
    BY <2>1, SmallestSet
<1>2. s \in SUBSET T /\ s \in SUBSET S /\ f[s] # g[s]
  OBVIOUS
<1>6. Places(s)
  BY <1>2, PlacesIn
<1>3. /\ f[s] = IF s = {} THEN b ELSE h[f[Less(s)]][seq[Max(s)]]
      /\ g[s] = IF s = {} THEN b ELSE h[g[Less(s)]][seq[Max(s)]]
  BY <1>2 DEF IsLoop
<1>4. s # {}
  BY <1>2, <1>3
<1>5. f[Less(s)] = g[Less(s)]
  BY <1>1, <1>2, <1>4, <1>6, LessSmaller
<1> QED
  BY <1>2, <1>3, <1>4, <1>5

LEMMA LoopExists ==
    ASSUME NEW h, NEW b, NEW seq, NEW n \in Nat
    PROVE  \E g : IsLoop(g, h, b, seq, 1 .. n)
<1> DEFINE Bad == {T \in SUBSET (1 .. n) : ~\E g : IsLoop(g, h, b, seq, T)}
<1> SUFFICES ASSUME Bad # {} PROVE FALSE
  OBVIOUS
<1>1. PICK T \in Bad : \A U \in SUBSET T : U # T => U \notin Bad
  <2>1. Bad \in SUBSET SUBSET (1 .. n) /\ IsFiniteSet(1 .. n)
    BY FS_Interval
  <2> HIDE DEF Bad
  <2> QED
    BY <2>1, SmallestSet
<1>2. T \in SUBSET (1 .. n) /\ ~\E g : IsLoop(g, h, b, seq, T)
  OBVIOUS
<1>7. ASSUME NEW U \in SUBSET T
      PROVE  Places(U)
  <2>1. U \in SUBSET (1 .. n)
    BY <1>2
  <2> QED
    BY <2>1, PlacesOf
<1>3. ASSUME NEW U \in SUBSET T, U # T
      PROVE  IsLoop(LoopOf(h, b, seq, U), h, b, seq, U)
  BY <1>1, <1>2, <1>3 DEF LoopOf
<1> DEFINE L(s) == LoopOf(h, b, seq, s)[s]
           g == [s \in SUBSET T |-> IF s = {} THEN b ELSE h[L(Less(s))][seq[Max(s)]]]
<1>4. ASSUME NEW r \in SUBSET T, r # T
      PROVE  L(r) = g[r]
  <2>1. IsLoop(LoopOf(h, b, seq, r), h, b, seq, r)
    BY <1>3, <1>4
  <2>2. CASE r = {}
    BY <2>1, <2>2, LoopAt
  <2>3. CASE r # {}
    <3>1. Less(r) \in SUBSET r /\ Less(r) \in SUBSET T /\ Less(r) # T
      BY <1>4, <1>7, <2>3, LessSmaller
    <3>2. IsLoop(LoopOf(h, b, seq, Less(r)), h, b, seq, Less(r))
      BY <1>3, <3>1
    <3>3. Places(Less(r))
      BY <1>7, <3>1
    <3>4. LoopOf(h, b, seq, r)[Less(r)] = LoopOf(h, b, seq, Less(r))[Less(r)]
      <4> HIDE DEF Bad, g, L
      <4>1. PICK f, k, t : f = LoopOf(h, b, seq, r) /\ k = LoopOf(h, b, seq, t) /\ t = Less(r)
        OBVIOUS
      <4>2. /\ IsLoop(f, h, b, seq, r) /\ IsLoop(k, h, b, seq, t)
            /\ t \in SUBSET r /\ Places(t)
        BY <2>1, <3>1, <3>2, <3>3, <4>1
      <4>3. f[t] = k[t]
        BY <4>2, LoopsAgree
      <4> QED
        BY <4>1, <4>3
    <3>5. L(r) = h[LoopOf(h, b, seq, r)[Less(r)]][seq[Max(r)]]
      BY <2>1, <2>3, LoopAt
    <3> QED
      BY <2>3, <3>4, <3>5
  <2> QED
    BY <2>2, <2>3
<1>5. ASSUME NEW s \in SUBSET T
      PROVE  g[s] = IF s = {} THEN b ELSE h[g[Less(s)]][seq[Max(s)]]
  <2>1. CASE s = {}
    BY <2>1
  <2>2. CASE s # {}
    <3>1. Less(s) \in SUBSET T /\ Less(s) # T
      <4>1. Less(s) \in SUBSET s /\ Less(s) # s
        BY <1>7, <2>2, LessSmaller
      <4> QED
        BY <4>1
    <3>2. L(Less(s)) = g[Less(s)]
      BY <1>4, <3>1
    <3>3. g[s] = h[L(Less(s))][seq[Max(s)]]
      BY <2>2
    <3> HIDE DEF g, L
    <3> QED
      BY <2>2, <3>2, <3>3
  <2> QED
    BY <2>1, <2>2
<1>6. IsLoop(g, h, b, seq, T)
  <2>1. g = [s \in SUBSET T |-> g[s]]
    OBVIOUS
  <2> HIDE DEF g
  <2> QED
    BY <1>5, <2>1 DEF IsLoop
<1> QED
  BY <1>2, <1>6

(* Such a loop stays in the type of its step.                              *)
LEMMA LoopStays ==
    ASSUME NEW X, NEW A, NEW h \in [X -> [A -> X]], NEW b \in X, NEW seq, NEW n \in Nat,
           \A k \in 1 .. n : seq[k] \in A, NEW g, IsLoop(g, h, b, seq, 1 .. n)
    PROVE  \A s \in SUBSET (1 .. n) : g[s] \in X
<1> DEFINE Bad == {s \in SUBSET (1 .. n) : g[s] \notin X}
<1> SUFFICES ASSUME Bad # {} PROVE FALSE
  OBVIOUS
<1>1. PICK s \in Bad : \A U \in SUBSET s : U # s => U \notin Bad
  <2>1. Bad \in SUBSET SUBSET (1 .. n) /\ IsFiniteSet(1 .. n)
    BY FS_Interval
  <2> HIDE DEF Bad
  <2> QED
    BY <2>1, SmallestSet
<1>2. s \in SUBSET (1 .. n) /\ g[s] \notin X
  OBVIOUS
<1>3. g[s] = IF s = {} THEN b ELSE h[g[Less(s)]][seq[Max(s)]]
  BY <1>2 DEF IsLoop
<1>4. s # {}
  BY <1>2, <1>3
<1>5. Less(s) \in SUBSET s /\ Less(s) # s /\ Max(s) \in 1 .. n
  <2>1. Places(s)
    BY <1>2, PlacesOf
  <2> QED
    BY <1>2, <1>4, <2>1, LessSmaller
<1>6. g[Less(s)] \in X
  BY <1>1, <1>2, <1>5
<1> QED
  BY <1>2, <1>3, <1>4, <1>5, <1>6

(* What a loop has computed after k iterations.                            *)
Rounds(g, n) == [k \in 0 .. n |-> g[1 .. k]]

LEMMA RoundAt ==
    ASSUME NEW g, NEW n \in Nat
    PROVE  /\ Rounds(g, n)[0] = g[{}] /\ Rounds(g, n)[n] = g[1 .. n]
           /\ \A k \in 1 .. n :
                 /\ Rounds(g, n)[k] = g[1 .. k]
                 /\ Rounds(g, n)[k - 1] = g[Less(1 .. k)]
                 /\ 1 .. k \in SUBSET (1 .. n) /\ 1 .. k # {} /\ Max(1 .. k) = k
<1>1. 1 .. 0 = {}
  OBVIOUS
<1>2. Rounds(g, n)[0] = g[1 .. 0] /\ Rounds(g, n)[n] = g[1 .. n]
  BY DEF Rounds
<1>3. ASSUME NEW k \in 1 .. n
      PROVE  /\ Rounds(g, n)[k] = g[1 .. k] /\ Rounds(g, n)[k - 1] = g[1 .. (k - 1)]
  BY DEF Rounds
<1> QED
  BY <1>1, <1>2, <1>3, MaxOfPrefix

(* The values of a loop whose step is h from X to X.                       *)
LoopValues(g, h, b, seq, n, X, A) ==
    /\ g = [s \in SUBSET (1 .. n) |-> g[s]] /\ g[{}] = b
    /\ \A s \in SUBSET (1 .. n) : s # {} =>
          /\ g[Less(s)] \in X /\ seq[Max(s)] \in A
          /\ g[s] = h[g[Less(s)]][seq[Max(s)]]

LEMMA LoopTyped ==
    ASSUME NEW X, NEW A, NEW h \in [X -> [A -> X]], NEW b \in X, NEW seq, NEW n \in Nat,
           \A k \in 1 .. n : seq[k] \in A
    PROVE  \E g : LoopValues(g, h, b, seq, n, X, A)
<1>1. PICK g : IsLoop(g, h, b, seq, 1 .. n)
  BY LoopExists
<1>2. \A s \in SUBSET (1 .. n) : g[s] \in X
  BY <1>1, LoopStays
<1>3. g = [s \in SUBSET (1 .. n) |-> g[s]] /\ g[{}] = b
  BY <1>1 DEF IsLoop
<1>4. ASSUME NEW s \in SUBSET (1 .. n), s # {}
      PROVE  /\ g[Less(s)] \in X /\ seq[Max(s)] \in A
             /\ g[s] = h[g[Less(s)]][seq[Max(s)]]
  <2>1. Places(s)
    BY PlacesOf
  <2>2. Max(s) \in s /\ Less(s) \in SUBSET s
    BY <1>4, <2>1, LessSmaller
  <2>3. g[s] = h[g[Less(s)]][seq[Max(s)]]
    BY <1>1, <1>4 DEF IsLoop
  <2>4. Max(s) \in 1 .. n /\ Less(s) \in SUBSET (1 .. n)
    BY <2>2
  <2> QED
    BY <1>2, <2>3, <2>4
<1> QED
  BY <1>3, <1>4 DEF LoopValues

-----------------------------------------------------------------------------
(* NewCPUSet                                                               *)

IsDedup(g, seq) ==
    g = [s \in SUBSET DOMAIN seq |->
            IF s = {} THEN <<>>
            ELSE IF Contains(g[s \ {Max(s)}], seq[Max(s)]) THEN g[s \ {Max(s)}]
                 ELSE Append(g[s \ {Max(s)}], seq[Max(s)])]

LEMMA DedupIsFold ==
    ASSUME NEW seq
    PROVE  Deduplicated(seq) = (CHOOSE g : IsDedup(g, seq))[DOMAIN seq]
BY DEF Deduplicated, FoldLeft, MapThenFoldSet, IsDedup

LEMMA DedupExists ==
    ASSUME NEW seq \in Seq(Int)
    PROVE  \E g : IsDedup(g, seq)
<1> DEFINE h == [out \in Seq(Int) |-> [c \in Int |->
                    IF Contains(out, c) THEN out ELSE Append(out, c)]]
<1>1. PICK n \in Nat : n = Len(seq) /\ DOMAIN seq = 1 .. n /\ \A k \in 1 .. n : seq[k] \in Int
  OBVIOUS
<1>2. h \in [Seq(Int) -> [Int -> Seq(Int)]] /\ <<>> \in Seq(Int)
  OBVIOUS
<1>3. PICK g : LoopValues(g, h, <<>>, seq, n, Seq(Int), Int)
  <2> HIDE DEF h
  <2> QED
    BY <1>1, <1>2, LoopTyped
<1>4. ASSUME NEW s \in SUBSET (1 .. n), s # {}
      PROVE  g[s] = IF Contains(g[Less(s)], seq[Max(s)]) THEN g[Less(s)]
                    ELSE Append(g[Less(s)], seq[Max(s)])
  <2>1. PICK out \in Seq(Int), c \in Int :
            out = g[Less(s)] /\ c = seq[Max(s)] /\ g[s] = h[out][c]
    BY <1>3, <1>4 DEF LoopValues
  <2>2. h[out][c] = IF Contains(out, c) THEN out ELSE Append(out, c)
    OBVIOUS
  <2> HIDE DEF h
  <2> QED
    BY <2>1, <2>2
<1>5. g = [s \in SUBSET (1 .. n) |-> g[s]] /\ g[{}] = <<>>
  BY <1>3 DEF LoopValues
<1>6. IsDedup(g, seq)
  <2> HIDE DEF h
  <2> QED
    BY <1>1, <1>4, <1>5 DEF IsDedup, Less
<1> QED
  BY <1>6

LEMMA DedupRounds ==
    ASSUME NEW seq \in Seq(Int)
    PROVE  \E r : /\ r[0] = <<>> /\ r[Len(seq)] = Deduplicated(seq)
                  /\ \A k \in 1 .. Len(seq) :
                        r[k] = IF Contains(r[k - 1], seq[k]) THEN r[k - 1]
                               ELSE Append(r[k - 1], seq[k])
<1>1. PICK n \in Nat : n = Len(seq) /\ DOMAIN seq = 1 .. n
  OBVIOUS
<1>2. PICK g : IsDedup(g, seq) /\ Deduplicated(seq) = g[1 .. n]
  BY <1>1, DedupIsFold, DedupExists
<1>3. \A s \in SUBSET (1 .. n) :
          g[s] = IF s = {} THEN <<>>
                 ELSE IF Contains(g[Less(s)], seq[Max(s)]) THEN g[Less(s)]
                      ELSE Append(g[Less(s)], seq[Max(s)])
  BY <1>1, <1>2 DEF IsDedup, Less
<1>4. PICK r : r = Rounds(g, n)
  OBVIOUS
<1>5. /\ r[0] = g[{}] /\ r[n] = g[1 .. n]
      /\ \A k \in 1 .. n :
            /\ r[k] = g[1 .. k] /\ r[k - 1] = g[Less(1 .. k)]
            /\ 1 .. k \in SUBSET (1 .. n) /\ 1 .. k # {} /\ Max(1 .. k) = k
  BY <1>4, RoundAt
<1>6. ASSUME NEW k \in 1 .. n
      PROVE  r[k] = IF Contains(r[k - 1], seq[k]) THEN r[k - 1] ELSE Append(r[k - 1], seq[k])
  BY <1>3, <1>5
<1>7. r[0] = <<>>
  BY <1>3, <1>5
<1> QED
  BY <1>1, <1>2, <1>5, <1>6, <1>7

-----------------------------------------------------------------------------
(* The loops of Intersect and Difference                                   *)

IsCommon(g, seq, o) ==
    g = [s \in SUBSET DOMAIN seq |->
            IF s = {} THEN <<>>
            ELSE IF Has(o, seq[Max(s)]) THEN Append(g[s \ {Max(s)}], seq[Max(s)]) ELSE g[s \ {Max(s)}]]

LEMMA CommonIsFold ==
    ASSUME NEW seq, NEW o
    PROVE  Intersect(seq, o) = (CHOOSE g : IsCommon(g, seq, o))[DOMAIN seq]
BY DEF Intersect, FoldLeft, MapThenFoldSet, IsCommon

LEMMA CommonExists ==
    ASSUME NEW seq, NEW o, seq \in Seq(Int)
    PROVE  \E g : IsCommon(g, seq, o)
<1> DEFINE h == [out \in Seq(Int) |-> [c \in Int |->
                    IF Has(o, c) THEN Append(out, c) ELSE out]]
<1>1. PICK n \in Nat : n = Len(seq) /\ DOMAIN seq = 1 .. n /\ \A k \in 1 .. n : seq[k] \in Int
  OBVIOUS
<1>2. h \in [Seq(Int) -> [Int -> Seq(Int)]] /\ <<>> \in Seq(Int)
  OBVIOUS
<1>3. PICK g : LoopValues(g, h, <<>>, seq, n, Seq(Int), Int)
  <2> HIDE DEF h
  <2> QED
    BY <1>1, <1>2, LoopTyped
<1>4. ASSUME NEW s \in SUBSET (1 .. n), s # {}
      PROVE  g[s] = IF Has(o, seq[Max(s)]) THEN Append(g[Less(s)], seq[Max(s)]) ELSE g[Less(s)]
  <2>1. PICK out \in Seq(Int), c \in Int :
            out = g[Less(s)] /\ c = seq[Max(s)] /\ g[s] = h[out][c]
    BY <1>3, <1>4 DEF LoopValues
  <2>2. h[out][c] = IF Has(o, c) THEN Append(out, c) ELSE out
    OBVIOUS
  <2> HIDE DEF h
  <2> QED
    BY <2>1, <2>2
<1>5. g = [s \in SUBSET (1 .. n) |-> g[s]] /\ g[{}] = <<>>
  BY <1>3 DEF LoopValues
<1>6. IsCommon(g, seq, o)
  <2> HIDE DEF h
  <2> QED
    BY <1>1, <1>4, <1>5 DEF IsCommon, Less
<1> QED
  BY <1>6

LEMMA CommonRounds ==
    ASSUME NEW seq, NEW o, seq \in Seq(Int)
    PROVE  \E r : /\ r[0] = <<>> /\ r[Len(seq)] = Intersect(seq, o)
                  /\ \A k \in 1 .. Len(seq) :
                        r[k] = IF Has(o, seq[k]) THEN Append(r[k - 1], seq[k]) ELSE r[k - 1]
<1>1. PICK n \in Nat : n = Len(seq) /\ DOMAIN seq = 1 .. n
  OBVIOUS
<1>2. PICK g : IsCommon(g, seq, o) /\ Intersect(seq, o) = g[1 .. n]
  BY <1>1, CommonIsFold, CommonExists
<1>3. \A s \in SUBSET (1 .. n) :
          g[s] = IF s = {} THEN <<>>
                 ELSE IF Has(o, seq[Max(s)]) THEN Append(g[Less(s)], seq[Max(s)]) ELSE g[Less(s)]
  BY <1>1, <1>2 DEF IsCommon, Less
<1>4. PICK r : r = Rounds(g, n)
  OBVIOUS
<1>5. /\ r[0] = g[{}] /\ r[n] = g[1 .. n]
      /\ \A k \in 1 .. n :
            /\ r[k] = g[1 .. k] /\ r[k - 1] = g[Less(1 .. k)]
            /\ 1 .. k \in SUBSET (1 .. n) /\ 1 .. k # {} /\ Max(1 .. k) = k
  BY <1>4, RoundAt
<1>6. ASSUME NEW k \in 1 .. n
      PROVE  r[k] = IF Has(o, seq[k]) THEN Append(r[k - 1], seq[k]) ELSE r[k - 1]
  BY <1>3, <1>5
<1>7. r[0] = <<>>
  BY <1>3, <1>5
<1> QED
  BY <1>1, <1>2, <1>5, <1>6, <1>7

IsLacking(g, seq, o) ==
    g = [s \in SUBSET DOMAIN seq |->
            IF s = {} THEN <<>>
            ELSE IF Has(o, seq[Max(s)]) THEN g[s \ {Max(s)}] ELSE Append(g[s \ {Max(s)}], seq[Max(s)])]

LEMMA LackingIsFold ==
    ASSUME NEW seq, NEW o
    PROVE  Difference(seq, o) = (CHOOSE g : IsLacking(g, seq, o))[DOMAIN seq]
BY DEF Difference, FoldLeft, MapThenFoldSet, IsLacking

LEMMA LackingExists ==
    ASSUME NEW seq, NEW o, seq \in Seq(Int)
    PROVE  \E g : IsLacking(g, seq, o)
<1> DEFINE h == [out \in Seq(Int) |-> [c \in Int |->
                    IF Has(o, c) THEN out ELSE Append(out, c)]]
<1>1. PICK n \in Nat : n = Len(seq) /\ DOMAIN seq = 1 .. n /\ \A k \in 1 .. n : seq[k] \in Int
  OBVIOUS
<1>2. h \in [Seq(Int) -> [Int -> Seq(Int)]] /\ <<>> \in Seq(Int)
  OBVIOUS
<1>3. PICK g : LoopValues(g, h, <<>>, seq, n, Seq(Int), Int)
  <2> HIDE DEF h
  <2> QED
    BY <1>1, <1>2, LoopTyped
<1>4. ASSUME NEW s \in SUBSET (1 .. n), s # {}
      PROVE  g[s] = IF Has(o, seq[Max(s)]) THEN g[Less(s)] ELSE Append(g[Less(s)], seq[Max(s)])
  <2>1. PICK out \in Seq(Int), c \in Int :
            out = g[Less(s)] /\ c = seq[Max(s)] /\ g[s] = h[out][c]
    BY <1>3, <1>4 DEF LoopValues
  <2>2. h[out][c] = IF Has(o, c) THEN out ELSE Append(out, c)
    OBVIOUS
  <2> HIDE DEF h
  <2> QED
    BY <2>1, <2>2
<1>5. g = [s \in SUBSET (1 .. n) |-> g[s]] /\ g[{}] = <<>>
  BY <1>3 DEF LoopValues
<1>6. IsLacking(g, seq, o)
  <2> HIDE DEF h
  <2> QED
    BY <1>1, <1>4, <1>5 DEF IsLacking, Less
<1> QED
  BY <1>6

LEMMA LackingRounds ==
    ASSUME NEW seq, NEW o, seq \in Seq(Int)
    PROVE  \E r : /\ r[0] = <<>> /\ r[Len(seq)] = Difference(seq, o)
                  /\ \A k \in 1 .. Len(seq) :
                        r[k] = IF Has(o, seq[k]) THEN r[k - 1] ELSE Append(r[k - 1], seq[k])
<1>1. PICK n \in Nat : n = Len(seq) /\ DOMAIN seq = 1 .. n
  OBVIOUS
<1>2. PICK g : IsLacking(g, seq, o) /\ Difference(seq, o) = g[1 .. n]
  BY <1>1, LackingIsFold, LackingExists
<1>3. \A s \in SUBSET (1 .. n) :
          g[s] = IF s = {} THEN <<>>
                 ELSE IF Has(o, seq[Max(s)]) THEN g[Less(s)] ELSE Append(g[Less(s)], seq[Max(s)])
  BY <1>1, <1>2 DEF IsLacking, Less
<1>4. PICK r : r = Rounds(g, n)
  OBVIOUS
<1>5. /\ r[0] = g[{}] /\ r[n] = g[1 .. n]
      /\ \A k \in 1 .. n :
            /\ r[k] = g[1 .. k] /\ r[k - 1] = g[Less(1 .. k)]
            /\ 1 .. k \in SUBSET (1 .. n) /\ 1 .. k # {} /\ Max(1 .. k) = k
  BY <1>4, RoundAt
<1>6. ASSUME NEW k \in 1 .. n
      PROVE  r[k] = IF Has(o, seq[k]) THEN r[k - 1] ELSE Append(r[k - 1], seq[k])
  BY <1>3, <1>5
<1>7. r[0] = <<>>
  BY <1>3, <1>5
<1> QED
  BY <1>1, <1>2, <1>5, <1>6, <1>7

-----------------------------------------------------------------------------
(* The loop of ParseCPUSet: the elements that it accepts, and the cores    *)
(* that they add.                                                          *)

Accepted == {e \in Element : ~Refused(e)}

Parsed(text) == FoldLeft(LAMBDA cores, e : cores \o Members(e), <<>>, text)

LEMMA AcceptedRange ==
    ASSUME NEW e \in Accepted
    PROVE  /\ Len(e) \in Nat /\ 1 \in DOMAIN e /\ Len(e) \in DOMAIN e
           /\ Head(e) \in Nat /\ Last(e) \in Nat /\ Head(e) <= Last(e)
           /\ Members(e) \in Seq(Int) /\ ToSet(Members(e)) = Head(e) .. Last(e)
<1>1. e \in Seq(Nat \cup {Junk}) /\ Len(e) <= 2 /\ ~Refused(e)
  BY DEF Accepted, Element
<1>2. Len(e) = 1 \/ Len(e) = 2
  <2>1. e # <<>>
    BY <1>1 DEF Refused
  <2>2. Len(e) # 0
    BY <1>1, <2>1
  <2>3. PICK m \in Nat : m = Len(e) /\ m <= 2
    BY <1>1
  <2> QED
    BY <2>2, <2>3
<1>3. Head(e) = e[1] /\ e[1] \in Nat
  BY <1>1, <1>2 DEF Refused, Junk
<1>4. Last(e) = e[Len(e)] /\ Last(e) \in Nat /\ Head(e) <= Last(e)
  BY <1>1, <1>2, <1>3 DEF Refused, Junk, Last
<1>5. PICK a \in Nat, b \in Nat : a = Head(e) /\ b = Last(e) /\ a <= b
  BY <1>3, <1>4
<1>6. Members(e) = [k \in 1 .. b - a + 1 |-> a + k - 1]
  BY <1>5 DEF Members
<1>7. Members(e) \in Seq(Int) /\ DOMAIN Members(e) = 1 .. b - a + 1
  BY <1>5, <1>6
<1>8. ASSUME NEW c \in a .. b
      PROVE  c \in ToSet(Members(e))
  <2>1. c - a + 1 \in 1 .. b - a + 1
    BY <1>5
  <2>2. Members(e)[c - a + 1] = c
    BY <1>5, <1>6, <2>1
  <2> QED
    BY <1>7, <2>1, <2>2 DEF ToSet
<1>10. ASSUME NEW k \in 1 .. b - a + 1
       PROVE  Members(e)[k] \in a .. b
  BY <1>5, <1>6
<1>9. ToSet(Members(e)) = a .. b
  BY <1>7, <1>8, <1>10 DEF ToSet
<1> QED
  BY <1>1, <1>2, <1>3, <1>4, <1>5, <1>7, <1>9

IsParse(g, seq) ==
    g = [s \in SUBSET DOMAIN seq |->
            IF s = {} THEN <<>>
            ELSE (g[s \ {Max(s)}] \o Members(seq[Max(s)]))]

LEMMA ParseIsFold ==
    ASSUME NEW seq
    PROVE  Parsed(seq) = (CHOOSE g : IsParse(g, seq))[DOMAIN seq]
BY DEF Parsed, FoldLeft, MapThenFoldSet, IsParse

LEMMA ParseExists ==
    ASSUME NEW seq, seq \in Seq(Accepted)
    PROVE  \E g : IsParse(g, seq)
<1> DEFINE h == [out \in Seq(Int) |-> [c \in Accepted |->
                    (out \o Members(c))]]
<1>1. PICK n \in Nat : n = Len(seq) /\ DOMAIN seq = 1 .. n /\ \A k \in 1 .. n : seq[k] \in Accepted
  OBVIOUS
<1>2. h \in [Seq(Int) -> [Accepted -> Seq(Int)]] /\ <<>> \in Seq(Int)
  BY AcceptedRange
<1>3. PICK g : LoopValues(g, h, <<>>, seq, n, Seq(Int), Accepted)
  <2> HIDE DEF h
  <2> QED
    BY <1>1, <1>2, LoopTyped
<1>4. ASSUME NEW s \in SUBSET (1 .. n), s # {}
      PROVE  g[s] = (g[Less(s)] \o Members(seq[Max(s)]))
  <2>1. PICK out \in Seq(Int), c \in Accepted :
            out = g[Less(s)] /\ c = seq[Max(s)] /\ g[s] = h[out][c]
    BY <1>3, <1>4 DEF LoopValues
  <2>2. h[out][c] = (out \o Members(c))
    OBVIOUS
  <2> HIDE DEF h
  <2> QED
    BY <2>1, <2>2
<1>5. g = [s \in SUBSET (1 .. n) |-> g[s]] /\ g[{}] = <<>>
  BY <1>3 DEF LoopValues
<1>6. IsParse(g, seq)
  <2> HIDE DEF h
  <2> QED
    BY <1>1, <1>4, <1>5 DEF IsParse, Less
<1> QED
  BY <1>6

LEMMA ParseRounds ==
    ASSUME NEW seq, seq \in Seq(Accepted)
    PROVE  \E r : /\ r[0] = <<>> /\ r[Len(seq)] = Parsed(seq)
                  /\ \A k \in 1 .. Len(seq) :
                        r[k] = (r[k - 1] \o Members(seq[k]))
<1>1. PICK n \in Nat : n = Len(seq) /\ DOMAIN seq = 1 .. n
  OBVIOUS
<1>2. PICK g : IsParse(g, seq) /\ Parsed(seq) = g[1 .. n]
  BY <1>1, ParseIsFold, ParseExists
<1>3. \A s \in SUBSET (1 .. n) :
          g[s] = IF s = {} THEN <<>>
                 ELSE (g[Less(s)] \o Members(seq[Max(s)]))
  BY <1>1, <1>2 DEF IsParse, Less
<1>4. PICK r : r = Rounds(g, n)
  OBVIOUS
<1>5. /\ r[0] = g[{}] /\ r[n] = g[1 .. n]
      /\ \A k \in 1 .. n :
            /\ r[k] = g[1 .. k] /\ r[k - 1] = g[Less(1 .. k)]
            /\ 1 .. k \in SUBSET (1 .. n) /\ 1 .. k # {} /\ Max(1 .. k) = k
  BY <1>4, RoundAt
<1>6. ASSUME NEW k \in 1 .. n
      PROVE  r[k] = (r[k - 1] \o Members(seq[k]))
  BY <1>3, <1>5
<1>7. r[0] = <<>>
  BY <1>3, <1>5
<1> QED
  BY <1>1, <1>2, <1>5, <1>6, <1>7

-----------------------------------------------------------------------------
(* The loop of String                                                      *)

Runs == Seq(Seq(Int) \ {<<>>})

Grown(runs, c) ==
    IF runs # <<>> /\ Last(Last(runs)) + 1 = c
    THEN Append(Front(runs), <<Head(Last(runs)), c>>)
    ELSE Append(runs, <<c>>)

LEMMA GrowRun ==
    ASSUME NEW runs \in Runs, NEW c \in Int
    PROVE  Grown(runs, c) \in Runs
<1>1. Append(runs, <<c>>) \in Runs
  BY DEF Runs
<1>2. ASSUME runs # <<>>
      PROVE  Append(Front(runs), <<Head(Last(runs)), c>>) \in Runs
  <2>1. Len(runs) \in 1 .. Len(runs) /\ Len(runs) \in Nat
    BY <1>2 DEF Runs
  <2>2. Last(runs) \in Seq(Int) \ {<<>>}
    BY <2>1 DEF Last, Runs
  <2>3. <<Head(Last(runs)), c>> \in Seq(Int) \ {<<>>}
    BY <2>2
  <2>4. Front(runs) \in Runs
    BY <2>1 DEF Front, Runs
  <2> QED
    BY <2>3, <2>4 DEF Runs
<1> QED
  BY <1>1, <1>2 DEF Grown

IsText(g, seq) ==
    g = [s \in SUBSET DOMAIN seq |->
            IF s = {} THEN <<>>
            ELSE Grown(g[s \ {Max(s)}], seq[Max(s)])]

LEMMA TextIsFold ==
    ASSUME NEW seq
    PROVE  String(seq) = (CHOOSE g : IsText(g, seq))[DOMAIN seq]
BY DEF String, FoldLeft, MapThenFoldSet, IsText, Grown

LEMMA TextExists ==
    ASSUME NEW seq, seq \in Seq(Int)
    PROVE  \E g : IsText(g, seq)
<1> DEFINE h == [out \in Runs |-> [c \in Int |->
                    Grown(out, c)]]
<1>1. PICK n \in Nat : n = Len(seq) /\ DOMAIN seq = 1 .. n /\ \A k \in 1 .. n : seq[k] \in Int
  OBVIOUS
<1>2. h \in [Runs -> [Int -> Runs]] /\ <<>> \in Runs
  <2>1. <<>> \in Runs
    BY DEF Runs
  <2> QED
    BY <2>1, GrowRun
<1>3. PICK g : LoopValues(g, h, <<>>, seq, n, Runs, Int)
  <2> HIDE DEF h
  <2> QED
    BY <1>1, <1>2, LoopTyped
<1>4. ASSUME NEW s \in SUBSET (1 .. n), s # {}
      PROVE  g[s] = Grown(g[Less(s)], seq[Max(s)])
  <2>1. PICK out \in Runs, c \in Int :
            out = g[Less(s)] /\ c = seq[Max(s)] /\ g[s] = h[out][c]
    BY <1>3, <1>4 DEF LoopValues
  <2>2. h[out][c] = Grown(out, c)
    OBVIOUS
  <2> HIDE DEF h
  <2> QED
    BY <2>1, <2>2
<1>5. g = [s \in SUBSET (1 .. n) |-> g[s]] /\ g[{}] = <<>>
  BY <1>3 DEF LoopValues
<1>6. IsText(g, seq)
  <2> HIDE DEF h
  <2> QED
    BY <1>1, <1>4, <1>5 DEF IsText, Less
<1> QED
  BY <1>6

LEMMA TextRounds ==
    ASSUME NEW seq, seq \in Seq(Int)
    PROVE  \E r : /\ r[0] = <<>> /\ r[Len(seq)] = String(seq)
                  /\ \A k \in 1 .. Len(seq) :
                        r[k] = Grown(r[k - 1], seq[k])
<1>1. PICK n \in Nat : n = Len(seq) /\ DOMAIN seq = 1 .. n
  OBVIOUS
<1>2. PICK g : IsText(g, seq) /\ String(seq) = g[1 .. n]
  BY <1>1, TextIsFold, TextExists
<1>3. \A s \in SUBSET (1 .. n) :
          g[s] = IF s = {} THEN <<>>
                 ELSE Grown(g[Less(s)], seq[Max(s)])
  BY <1>1, <1>2 DEF IsText, Less
<1>4. PICK r : r = Rounds(g, n)
  OBVIOUS
<1>5. /\ r[0] = g[{}] /\ r[n] = g[1 .. n]
      /\ \A k \in 1 .. n :
            /\ r[k] = g[1 .. k] /\ r[k - 1] = g[Less(1 .. k)]
            /\ 1 .. k \in SUBSET (1 .. n) /\ 1 .. k # {} /\ Max(1 .. k) = k
  BY <1>4, RoundAt
<1>6. ASSUME NEW k \in 1 .. n
      PROVE  r[k] = Grown(r[k - 1], seq[k])
  BY <1>3, <1>5
<1>7. r[0] = <<>>
  BY <1>3, <1>5
<1> QED
  BY <1>1, <1>2, <1>5, <1>6, <1>7

-----------------------------------------------------------------------------
(* Lists and their sets                                                    *)

Injects(list) == \A i, j \in DOMAIN list : list[i] = list[j] => i = j

LEMMA Appended ==
    ASSUME NEW X, NEW s \in Seq(X), NEW x
    PROVE  /\ ToSet(Append(s, x)) = ToSet(s) \cup {x}
           /\ Injects(s) /\ x \notin ToSet(s) => Injects(Append(s, x))
<1>1. /\ Len(s) \in Nat /\ DOMAIN s = 1 .. Len(s)
      /\ Len(Append(s, x)) = Len(s) + 1 /\ DOMAIN Append(s, x) = 1 .. Len(s) + 1
      /\ \A i \in 1 .. Len(s) : Append(s, x)[i] = s[i]
      /\ Append(s, x)[Len(s) + 1] = x
  OBVIOUS
<1>2. PICK n \in Nat : n = Len(s)
  BY <1>1
<1>7. PICK a : a = Append(s, x)
  OBVIOUS
<1>3. /\ DOMAIN s = 1 .. n /\ DOMAIN a = 1 .. n + 1
      /\ \A i \in 1 .. n : a[i] = s[i]
      /\ a[n + 1] = x
  BY <1>1, <1>2, <1>7
<1>4. 1 .. n + 1 = 1 .. n \cup {n + 1}
  OBVIOUS
<1>5. ToSet(a) = ToSet(s) \cup {x}
  BY <1>3, <1>4 DEF ToSet
<1>6. ASSUME Injects(s), x \notin ToSet(s)
      PROVE  Injects(a)
  <2>1. \A i \in 1 .. n : s[i] # x
    BY <1>3, <1>6 DEF ToSet
  <2>2. \A i, j \in 1 .. n : s[i] = s[j] => i = j
    BY <1>3, <1>6 DEF Injects
  <2>3. \A i, j \in 1 .. n + 1 : a[i] = a[j] => i = j
    BY <1>3, <1>4, <2>1, <2>2
  <2> QED
    BY <1>3, <2>3 DEF Injects
<1> QED
  BY <1>5, <1>6, <1>7

LEMMA ContainsMember ==
    ASSUME NEW X, NEW s \in Seq(X), NEW x
    PROVE  Contains(s, x) <=> x \in ToSet(s)
BY DEF Contains, ToSet

(* The duplicates are gone, and nothing else.                              *)
LEMMA DedupFacts ==
    ASSUME NEW seq \in Seq(Int)
    PROVE  /\ Deduplicated(seq) \in Seq(Int) /\ Injects(Deduplicated(seq))
           /\ ToSet(Deduplicated(seq)) = ToSet(seq)
<1>1. PICK n \in Nat : n = Len(seq) /\ DOMAIN seq = 1 .. n /\ \A k \in 1 .. n : seq[k] \in Int
  OBVIOUS
<1>2. PICK r : /\ r[0] = <<>> /\ r[n] = Deduplicated(seq)
               /\ \A k \in 1 .. n :
                     r[k] = IF Contains(r[k - 1], seq[k]) THEN r[k - 1]
                            ELSE Append(r[k - 1], seq[k])
  BY <1>1, DedupRounds
<1> DEFINE Sofar(k) == {seq[j] : j \in 1 .. k}
           Good == {k \in 0 .. n : /\ r[k] \in Seq(Int) /\ Injects(r[k])
                                   /\ ToSet(r[k]) = Sofar(k)}
<1>3. 0 \in Good
  <2>1. <<>> \in Seq(Int) /\ Injects(<<>>) /\ ToSet(<<>>) = {} /\ Sofar(0) = {}
    BY DEF Injects, ToSet
  <2>2. r[0] \in Seq(Int) /\ Injects(r[0]) /\ ToSet(r[0]) = Sofar(0)
    <3> HIDE DEF Sofar
    <3> QED
      BY <1>2, <2>1
  <2>3. 0 \in 0 .. n
    OBVIOUS
  <2> HIDE DEF Sofar
  <2> QED
    BY <2>2, <2>3
<1>4. ASSUME NEW k \in 1 .. n, k - 1 \in Good
      PROVE  k \in Good
  <2>1. k \in 0 .. n /\ seq[k] \in Int
    BY <1>1
  <2>2. Sofar(k) = Sofar(k - 1) \cup {seq[k]}
    <3>1. 1 .. k = 1 .. (k - 1) \cup {k}
      OBVIOUS
    <3> QED
      BY <3>1
  <2>3. r[k - 1] \in Seq(Int) /\ Injects(r[k - 1]) /\ ToSet(r[k - 1]) = Sofar(k - 1)
    BY <1>4
  <2>4. PICK out \in Seq(Int), c \in Int : out = r[k - 1] /\ c = seq[k]
    BY <2>1, <2>3
  <2>5. r[k] = IF c \in ToSet(out) THEN out ELSE Append(out, c)
    BY <1>2, <2>4, ContainsMember
  <2> HIDE DEF Sofar
  <2>6. CASE c \in ToSet(out)
    BY <2>1, <2>2, <2>3, <2>4, <2>5, <2>6
  <2>7. CASE c \notin ToSet(out)
    <3>1. /\ Append(out, c) \in Seq(Int) /\ Injects(Append(out, c))
          /\ ToSet(Append(out, c)) = ToSet(out) \cup {c}
      BY <2>3, <2>4, <2>7, Appended
    <3> QED
      BY <2>1, <2>2, <2>3, <2>4, <2>5, <2>7, <3>1
  <2> QED
    BY <2>6, <2>7
<1>5. n \in Good
  <2> HIDE DEF Good
  <2>1. \A k \in 0 .. n : k \in Good
    BY <1>3, <1>4, Counting
  <2> QED
    BY <2>1
<1>6. Sofar(n) = ToSet(seq)
  BY <1>1 DEF ToSet
<1> HIDE DEF Sofar
<1> QED
  BY <1>2, <1>5, <1>6

-----------------------------------------------------------------------------
(* Sorting: a member's place is one more than the number of the smaller    *)
(* ones.                                                                   *)

Lower(S, c) == {d \in S : d < c}

LEMMA RankGrows ==
    ASSUME NEW S, Places(S), NEW c \in S, NEW d \in S, c < d
    PROVE  Cardinality(Lower(S, c)) < Cardinality(Lower(S, d))
<1>1. IsFiniteSet(S) /\ c \in Int /\ d \in Int /\ \A e \in S : e \in Int
  BY DEF Places
<1>2. /\ Lower(S, c) \in SUBSET Lower(S, d) /\ Lower(S, c) # Lower(S, d)
      /\ Lower(S, d) \in SUBSET S
  <2>1. c \in Lower(S, d) /\ c \notin Lower(S, c)
    BY <1>1 DEF Lower
  <2>2. \A e \in Lower(S, c) : e \in Lower(S, d)
    BY <1>1 DEF Lower
  <2>3. \A e \in Lower(S, d) : e \in S
    BY DEF Lower
  <2> QED
    BY <2>1, <2>2, <2>3
<1>3. IsFiniteSet(Lower(S, d))
  BY <1>1, <1>2, FS_Subset
<1>4. /\ IsFiniteSet(Lower(S, c))
      /\ Cardinality(Lower(S, c)) <= Cardinality(Lower(S, d))
      /\ Cardinality(Lower(S, c)) # Cardinality(Lower(S, d))
  BY <1>2, <1>3, FS_Subset
<1>5. Cardinality(Lower(S, c)) \in Nat /\ Cardinality(Lower(S, d)) \in Nat
  BY <1>3, <1>4, FS_CardinalityType
<1> QED
  BY <1>4, <1>5

LEMMA RankRange ==
    ASSUME NEW S, Places(S), NEW c \in S
    PROVE  Cardinality(Lower(S, c)) \in 0 .. Cardinality(S) - 1
<1>1. Lower(S, c) \in SUBSET S /\ c \notin Lower(S, c) /\ IsFiniteSet(S)
  BY DEF Lower, Places
<1>2. /\ IsFiniteSet(Lower(S, c)) /\ Cardinality(Lower(S, c)) <= Cardinality(S)
      /\ Cardinality(Lower(S, c)) # Cardinality(S)
  BY <1>1, FS_Subset
<1>3. Cardinality(Lower(S, c)) \in Nat /\ Cardinality(S) \in Nat
  BY <1>1, <1>2, FS_CardinalityType
<1> QED
  BY <1>2, <1>3

LEMMA RankIsOne ==
    ASSUME NEW S, Places(S), NEW c \in S, NEW d \in S,
           Cardinality(Lower(S, c)) = Cardinality(Lower(S, d))
    PROVE  c = d
<1>1. c \in Int /\ d \in Int
  BY DEF Places
<1>2. Cardinality(Lower(S, c)) \in Int
  BY RankRange
<1>3. ~(c < d)
  BY <1>2, RankGrows
<1>4. ~(d < c)
  BY <1>2, RankGrows
<1> QED
  BY <1>1, <1>3, <1>4

(* Every place is someone's.                                               *)
LEMMA RankReached ==
    ASSUME NEW S, Places(S), NEW k \in 0 .. Cardinality(S) - 1
    PROVE  \E c \in S : Cardinality(Lower(S, c)) = k
<1>0. IsFiniteSet(S)
  BY DEF Places
<1>1. PICK n \in Nat : n = Cardinality(S)
  BY <1>0, FS_CardinalityType
<1>2. PICK T : T = 0 .. n - 1
  OBVIOUS
<1>3. PICK f : f = [c \in S |-> Cardinality(Lower(S, c))]
  OBVIOUS
<1>4. f \in [S -> T]
  BY <1>1, <1>2, <1>3, RankRange
<1>5. \A c, d \in S : f[c] = f[d] => c = d
  BY <1>3, RankIsOne
<1>6. f \in Injection(S, T)
  BY <1>4, <1>5 DEF Injection, IsInjective
<1>7. IsFiniteSet(T) /\ Cardinality(T) = n
  BY <1>1, <1>2, FS_Interval
<1>8. f \in Surjection(S, T)
  BY <1>0, <1>1, <1>6, <1>7, FS_Injection
<1>9. k \in T
  BY <1>1, <1>2
<1>10. \E c \in S : f[c] = k
  BY <1>8, <1>9 DEF Surjection
<1> QED
  BY <1>3, <1>10

(* A list without duplicates has as many members as places.                *)
LEMMA ListSize ==
    ASSUME NEW list \in Seq(Int), Injects(list)
    PROVE  Places(ToSet(list)) /\ Cardinality(ToSet(list)) = Len(list)
<1>1. PICK n \in Nat : n = Len(list) /\ DOMAIN list = 1 .. n /\ \A k \in 1 .. n : list[k] \in Int
  OBVIOUS
<1>2. ToSet(list) = {list[k] : k \in 1 .. n}
  BY <1>1 DEF ToSet
<1>3. PICK S, D : S = ToSet(list) /\ D = 1 .. n
  OBVIOUS
<1>4. PICK f : f = [k \in D |-> list[k]]
  OBVIOUS
<1>5. f \in Injection(D, S)
  BY <1>1, <1>2, <1>3, <1>4 DEF Injection, IsInjective, Injects
<1>6. f \in Surjection(D, S)
  BY <1>2, <1>3, <1>4 DEF Surjection
<1>7. IsFiniteSet(D) /\ Cardinality(D) = n
  BY <1>3, FS_Interval
<1>8. IsFiniteSet(S) /\ Cardinality(S) = Cardinality(D)
  BY <1>5, <1>6, <1>7, FS_Surjection
<1>9. S \subseteq Int
  BY <1>1, <1>2, <1>3
<1> QED
  BY <1>1, <1>3, <1>7, <1>8, <1>9 DEF Places

Ascends(list) == \A i, j \in DOMAIN list : i < j => list[i] < list[j]

LEMMA SortedFacts ==
    ASSUME NEW list \in Seq(Int), Injects(list)
    PROVE  /\ Sorted(list) \in Seq(Int) /\ Is(Sorted(list), ToSet(list))
           /\ Len(Sorted(list)) = Len(list)
<1>1. PICK n \in Nat : n = Len(list)
  OBVIOUS
<1>2. PICK S : S = ToSet(list)
  OBVIOUS
<1>3. Places(S) /\ Cardinality(S) = n
  BY <1>1, <1>2, ListSize
<1>4. PICK s : s = Sorted(list)
  OBVIOUS
<1>5. s = [k \in 1 .. n |-> CHOOSE c \in S : Cardinality(Lower(S, c)) = k - 1]
  BY <1>1, <1>2, <1>4 DEF Sorted, Lower
<1>6. ASSUME NEW k \in 1 .. n
      PROVE  s[k] \in S /\ Cardinality(Lower(S, s[k])) = k - 1
  <2>1. k - 1 \in 0 .. n - 1
    OBVIOUS
  <2>2. \E c \in S : Cardinality(Lower(S, c)) = k - 1
    BY <1>3, <2>1, RankReached
  <2> QED
    BY <1>5, <2>2
<1>7. s \in Seq(Int) /\ DOMAIN s = 1 .. n /\ Len(s) = n
  <2>1. \A k \in 1 .. n : s[k] \in Int
    BY <1>3, <1>6 DEF Places
  <2>2. s = [k \in 1 .. n |-> s[k]]
    BY <1>5
  <2>3. s \in [1 .. n -> Int]
    BY <2>1, <2>2
  <2> QED
    BY <2>3
<1>8. ASSUME NEW i \in 1 .. n, NEW j \in 1 .. n, i < j
      PROVE  s[i] < s[j]
  <2>1. s[i] \in S /\ s[j] \in S /\ s[i] \in Int /\ s[j] \in Int
    BY <1>3, <1>6 DEF Places
  <2>2. Cardinality(Lower(S, s[i])) = i - 1 /\ Cardinality(Lower(S, s[j])) = j - 1
    BY <1>6
  <2>3. s[i] # s[j]
    BY <1>8, <2>2
  <2>4. ~(s[j] < s[i])
    <3>1. PICK c \in S, d \in S : c = s[i] /\ d = s[j]
      BY <2>1
    <3>2. ASSUME d < c
          PROVE  Cardinality(Lower(S, d)) < Cardinality(Lower(S, c))
      BY <1>3, <3>2, RankGrows
    <3> QED
      BY <1>8, <2>2, <3>1, <3>2
  <2> QED
    BY <2>1, <2>3, <2>4
<1>9. ASSUME NEW c \in S
      PROVE  \E k \in 1 .. n : s[k] = c
  <2>1. Cardinality(Lower(S, c)) \in 0 .. n - 1
    BY <1>3, RankRange
  <2>2. PICK k \in 1 .. n : k - 1 = Cardinality(Lower(S, c))
    <3>1. Cardinality(Lower(S, c)) + 1 \in 1 .. n
      BY <2>1
    <3>2. (Cardinality(Lower(S, c)) + 1) - 1 = Cardinality(Lower(S, c))
      BY <2>1
    <3> QED
      BY <3>1, <3>2
  <2>3. PICK d \in S : d = s[k] /\ Cardinality(Lower(S, d)) = k - 1
    BY <1>6
  <2>4. d = c
    BY <1>3, <2>2, <2>3, RankIsOne
  <2> QED
    BY <2>3, <2>4
<1>10. ToSet(s) = S
  BY <1>6, <1>7, <1>9 DEF ToSet
<1> QED
  BY <1>1, <1>2, <1>4, <1>7, <1>8, <1>10 DEF Is

LEMMA AscendingInjects ==
    ASSUME NEW list \in Seq(Int), Ascends(list)
    PROVE  Injects(list)
<1>1. PICK n \in Nat : n = Len(list) /\ DOMAIN list = 1 .. n /\ \A k \in 1 .. n : list[k] \in Int
  OBVIOUS
<1> SUFFICES ASSUME NEW i \in 1 .. n, NEW j \in 1 .. n, list[i] = list[j], i # j
             PROVE  FALSE
  BY <1>1 DEF Injects
<1>2. i < j \/ j < i
  OBVIOUS
<1>3. list[i] \in Int
  BY <1>1
<1> QED
  BY <1>1, <1>2, <1>3 DEF Ascends

(* The place of a member, in any ascending list.                           *)
LEMMA AscendingRank ==
    ASSUME NEW list \in Seq(Int), Ascends(list), NEW k \in DOMAIN list
    PROVE  Cardinality(Lower(ToSet(list), list[k])) = k - 1
<1>1. PICK n \in Nat : n = Len(list) /\ DOMAIN list = 1 .. n /\ \A j \in 1 .. n : list[j] \in Int
  OBVIOUS
<1>2. k \in 1 .. n /\ k - 1 \in Nat
  BY <1>1
<1>3. ASSUME NEW j \in 1 .. n
      PROVE  list[j] < list[k] <=> j < k
  <2>1. list[j] \in Int /\ list[k] \in Int /\ j \in Nat /\ k \in Nat
    BY <1>1, <1>2
  <2>2. j < k => list[j] < list[k]
    BY <1>1, <1>2 DEF Ascends
  <2>3. k < j => list[k] < list[j]
    BY <1>1, <1>2 DEF Ascends
  <2> QED
    BY <2>1, <2>2, <2>3
<1>4. Lower(ToSet(list), list[k]) = {list[j] : j \in 1 .. k - 1}
  <2>1. \A j \in 1 .. k - 1 : j \in 1 .. n /\ j < k
    BY <1>2
  <2>2. \A j \in 1 .. n : j < k => j \in 1 .. k - 1
    BY <1>2
  <2> QED
    BY <1>1, <1>3, <2>1, <2>2 DEF Lower, ToSet
<1>5. PICK p : p = [j \in 1 .. k - 1 |-> list[j]]
  OBVIOUS
<1>6. p \in Seq(Int) /\ DOMAIN p = 1 .. k - 1 /\ Len(p) = k - 1
  <2>1. PICK m \in Nat : m = k - 1
    BY <1>2
  <2>2. \A j \in 1 .. m : list[j] \in Int
    BY <1>1, <1>2, <2>1
  <2>3. p = [j \in 1 .. m |-> list[j]]
    BY <1>5, <2>1
  <2>4. p \in [1 .. m -> Int]
    BY <2>2, <2>3
  <2>5. p \in Seq(Int) /\ DOMAIN p = 1 .. m
    BY <2>4
  <2>6. Len(p) = m
    BY <2>4
  <2> QED
    BY <2>1, <2>5, <2>6
<1>7. Injects(p)
  <2>1. Injects(list)
    BY AscendingInjects
  <2>2. \A j \in 1 .. k - 1 : j \in 1 .. n /\ p[j] = list[j]
    BY <1>2, <1>5
  <2> QED
    BY <1>1, <1>6, <2>1, <2>2 DEF Injects
<1>8. ToSet(p) = {list[j] : j \in 1 .. k - 1}
  BY <1>5, <1>6 DEF ToSet
<1> QED
  BY <1>4, <1>6, <1>7, <1>8, ListSize

(* A set has one list.                                                     *)
LEMMA OneList ==
    ASSUME NEW l \in Seq(Int), NEW m \in Seq(Int), NEW S, Is(l, S), Is(m, S)
    PROVE  l = m
<1>1. Ascends(l) /\ Ascends(m) /\ ToSet(l) = S /\ ToSet(m) = S
  BY DEF Is, Ascends
<1>2. Injects(l) /\ Injects(m)
  BY <1>1, AscendingInjects
<1>3. Places(S) /\ Cardinality(S) = Len(l) /\ Cardinality(S) = Len(m)
  BY <1>1, <1>2, ListSize
<1>4. PICK n \in Nat : n = Len(l) /\ n = Len(m) /\ DOMAIN l = 1 .. n /\ DOMAIN m = 1 .. n
  <2>1. Len(l) \in Nat /\ DOMAIN l = 1 .. Len(l)
    OBVIOUS
  <2>2. Len(m) \in Nat /\ DOMAIN m = 1 .. Len(m)
    OBVIOUS
  <2>3. Len(l) = Len(m)
    BY <1>3
  <2> QED
    BY <2>1, <2>2, <2>3
<1>5. ASSUME NEW k \in 1 .. n
      PROVE  l[k] = m[k]
  <2>1. Cardinality(Lower(S, l[k])) = k - 1 /\ Cardinality(Lower(S, m[k])) = k - 1
    BY <1>1, <1>4, AscendingRank
  <2>2. PICK c \in S, d \in S : c = l[k] /\ d = m[k]
    BY <1>1, <1>4 DEF ToSet
  <2> QED
    BY <1>3, <2>1, <2>2, RankIsOne
<1>6. l = [k \in 1 .. n |-> l[k]] /\ m = [k \in 1 .. n |-> m[k]]
  BY <1>4
<1> QED
  BY <1>5, <1>6

LEMMA NewCPUSetFacts ==
    ASSUME NEW seq \in Seq(Int)
    PROVE  NewCPUSet(seq) \in Seq(Int) /\ Is(NewCPUSet(seq), ToSet(seq))
BY DedupFacts, SortedFacts DEF NewCPUSet

-----------------------------------------------------------------------------
(* The binary search                                                       *)

IsSearch(g, s, core) ==
    LET n == Len(s) + 1
    IN  g = [r \in (1 .. n) \X (1 .. n) |->
                LET half == (r[1] + r[2]) \div 2
                IN  IF r[1] >= r[2] THEN r[1] ELSE
                    IF s[half] < core THEN g[<<half + 1, r[2]>>] ELSE g[<<r[1], half>>]]

LEMMA SearchIsFunction ==
    ASSUME NEW s, NEW core
    PROVE  SearchInts(s, core) = (CHOOSE g : IsSearch(g, s, core))[<<1, Len(s) + 1>>]
BY DEF SearchInts, IsSearch

(* k is the first place from i to j - 1 whose core is not smaller, or j.   *)
Finds(s, core, i, j, k) ==
    /\ k \in i .. j
    /\ \A m \in i .. k - 1 : s[m] < core
    /\ k < j => s[k] >= core

LEMMA FindsOne ==
    ASSUME NEW s \in Seq(Int), NEW core \in Int, NEW i \in 1 .. Len(s) + 1, NEW j \in i .. Len(s) + 1
    PROVE  /\ \E k : Finds(s, core, i, j, k)
           /\ \A k, l : Finds(s, core, i, j, k) /\ Finds(s, core, i, j, l) => k = l
<1>1. PICK n \in Nat : n = Len(s) /\ \A m \in 1 .. n : s[m] \in Int
  OBVIOUS
<1>2. i \in Nat \ {0} /\ j \in Nat /\ i <= j /\ j <= n + 1
  BY <1>1
<1>3. \E k : Finds(s, core, i, j, k)
  <2> DEFINE Stops == {k \in i .. j : k = j \/ s[k] >= core}
  <2>1. Stops # {} /\ Stops \subseteq Nat
    BY <1>2
  <2>2. PICK k \in Stops : \A m \in Stops : ~(<<m, k>> \in OpToRel(<, Nat))
    <3> HIDE DEF Stops
    <3> QED
      BY <2>1, NatLessThanWellFounded, WFMin
  <2>3. k \in i .. j /\ (k = j \/ s[k] >= core)
    OBVIOUS
  <2>4. ASSUME NEW m \in i .. k - 1
        PROVE  s[m] < core
    <3>1. m \in 1 .. n /\ m \in i .. j /\ m < k /\ m \in Nat /\ k \in Nat /\ s[m] \in Int
      BY <1>1, <1>2, <2>3
    <3>2. m \notin Stops
      BY <2>2, <3>1 DEF OpToRel
    <3> QED
      BY <3>1, <3>2
  <2>5. k \in i .. j /\ (k < j => s[k] >= core)
    BY <1>2, <2>3
  <2> HIDE DEF Stops
  <2> QED
    BY <2>4, <2>5 DEF Finds
<1>4. ASSUME NEW k, NEW l, Finds(s, core, i, j, k), Finds(s, core, i, j, l), k < l
      PROVE  FALSE
  <2>1. k \in i .. j /\ l \in i .. j
    BY <1>4 DEF Finds
  <2>2. k \in i .. l - 1 /\ k < j /\ k \in 1 .. n
    BY <1>2, <1>4, <2>1
  <2>3. s[k] < core /\ s[k] >= core /\ s[k] \in Int
    BY <1>1, <1>4, <2>2 DEF Finds
  <2> QED
    BY <2>3
<1>5. ASSUME NEW k, NEW l, Finds(s, core, i, j, k), Finds(s, core, i, j, l)
      PROVE  k = l
  <2>1. k \in Int /\ l \in Int
    BY <1>2, <1>5 DEF Finds
  <2>2. ~(k < l) /\ ~(l < k)
    BY <1>4, <1>5
  <2> QED
    BY <2>1, <2>2
<1> QED
  BY <1>3, <1>5

(* Half of the places answers for all of them, if they are in order.       *)
LEMMA HalfFinds ==
    ASSUME NEW s \in Seq(Int), Ascends(s), NEW core \in Int,
           NEW i \in 1 .. Len(s) + 1, NEW j \in 1 .. Len(s) + 1, i < j, NEW half, half = (i + j) \div 2, NEW k
    PROVE  /\ half \in i .. j - 1
           /\ s[half] < core /\ Finds(s, core, half + 1, j, k) => Finds(s, core, i, j, k)
           /\ ~(s[half] < core) /\ Finds(s, core, i, half, k) => Finds(s, core, i, j, k)
<1>1. PICK n \in Nat : n = Len(s) /\ DOMAIN s = 1 .. n /\ \A m \in 1 .. n : s[m] \in Int
  OBVIOUS
<1>2. i \in Nat \ {0} /\ j \in Nat /\ j <= n + 1
  BY <1>1
<1>3. half \in i .. j - 1 /\ half \in 1 .. n /\ half \in Nat
  BY <1>2
<1>4. s[half] \in Int
  BY <1>1, <1>3
<1>5. ASSUME s[half] < core, Finds(s, core, half + 1, j, k)
      PROVE  Finds(s, core, i, j, k)
  <2>1. k \in half + 1 .. j /\ k \in Nat /\ k \in i .. j
    BY <1>2, <1>3, <1>5 DEF Finds
  <2>2. ASSUME NEW m \in i .. k - 1
        PROVE  s[m] < core
    <3>1. CASE m > half
      <4>1. m \in half + 1 .. k - 1
        BY <1>2, <1>3, <2>1, <3>1
      <4> QED
        BY <1>5, <4>1 DEF Finds
    <3>2. CASE m = half
      BY <1>5, <3>2
    <3>3. CASE m < half
      <4>1. m \in 1 .. n /\ s[m] \in Int
        BY <1>1, <1>2, <1>3, <3>3
      <4>2. s[m] < s[half]
        BY <1>1, <1>3, <3>3, <4>1 DEF Ascends
      <4> QED
        BY <1>4, <1>5, <4>1, <4>2
    <3> QED
      BY <1>2, <1>3, <3>1, <3>2, <3>3
  <2>3. k < j => s[k] >= core
    BY <1>5 DEF Finds
  <2> QED
    BY <2>1, <2>2, <2>3 DEF Finds
<1>6. ASSUME ~(s[half] < core), Finds(s, core, i, half, k)
      PROVE  Finds(s, core, i, j, k)
  <2>1. k \in i .. half /\ k \in Nat /\ k \in i .. j
    BY <1>2, <1>3, <1>6 DEF Finds
  <2>2. s[k] >= core
    <3>1. CASE k = half
      BY <1>4, <1>6, <3>1
    <3>2. CASE k < half
      BY <1>6, <3>2 DEF Finds
    <3> QED
      BY <1>3, <2>1, <3>1, <3>2
  <2>3. \A m \in i .. k - 1 : s[m] < core
    BY <1>6 DEF Finds
  <2> QED
    BY <2>1, <2>2, <2>3 DEF Finds
<1> QED
  BY <1>3, <1>5, <1>6

LEMMA SearchAt ==
    ASSUME NEW g, NEW s, NEW core, IsSearch(g, s, core), NEW n, n = Len(s) + 1,
           NEW i \in 1 .. n, NEW j \in 1 .. n
    PROVE  g[<<i, j>>] = IF i >= j THEN i ELSE
                         IF s[(i + j) \div 2] < core THEN g[<<(i + j) \div 2 + 1, j>>]
                         ELSE g[<<i, (i + j) \div 2>>]
<1>1. g = [r \in (1 .. n) \X (1 .. n) |->
              IF r[1] >= r[2] THEN r[1] ELSE
              IF s[(r[1] + r[2]) \div 2] < core THEN g[<<(r[1] + r[2]) \div 2 + 1, r[2]>>]
              ELSE g[<<r[1], (r[1] + r[2]) \div 2>>]]
  BY DEF IsSearch
<1>2. PICK r \in (1 .. n) \X (1 .. n) : r = <<i, j>>
  OBVIOUS
<1>3. r[1] = i /\ r[2] = j
  BY <1>2
<1>4. g[r] = IF r[1] >= r[2] THEN r[1] ELSE
             IF s[(r[1] + r[2]) \div 2] < core THEN g[<<(r[1] + r[2]) \div 2 + 1, r[2]>>]
             ELSE g[<<r[1], (r[1] + r[2]) \div 2>>]
  BY <1>1
<1> QED
  BY <1>2, <1>3, <1>4

LEMMA SearchExists ==
    ASSUME NEW s \in Seq(Int), Ascends(s), NEW core \in Int
    PROVE  \E g : IsSearch(g, s, core)
<1>1. PICK n \in Nat : n = Len(s) + 1 /\ Len(s) \in Nat
  OBVIOUS
<1> DEFINE Found(i, j) == IF i >= j THEN i ELSE CHOOSE k : Finds(s, core, i, j, k)
<1>2. PICK g : g = [r \in (1 .. n) \X (1 .. n) |-> Found(r[1], r[2])]
  OBVIOUS
<1>3. ASSUME NEW i \in 1 .. n, NEW j \in 1 .. n
      PROVE  g[<<i, j>>] = Found(i, j)
  <2>1. PICK r \in (1 .. n) \X (1 .. n) : r = <<i, j>>
    OBVIOUS
  <2>2. r[1] = i /\ r[2] = j
    BY <2>1
  <2>3. g[r] = Found(r[1], r[2])
    <3> HIDE DEF Found
    <3> QED
      BY <1>2
  <2> QED
    BY <2>1, <2>2, <2>3
<1>4. ASSUME NEW i \in 1 .. n, NEW j \in 1 .. n, i <= j
      PROVE  Finds(s, core, i, j, Found(i, j))
  <2>1. CASE i = j
    <3>1. Found(i, j) = i
      BY <2>1
    <3>2. Finds(s, core, i, j, i)
      BY <2>1 DEF Finds
    <3> QED
      BY <3>1, <3>2
  <2>2. CASE i < j
    <3>1. j \in i .. Len(s) + 1 /\ i \in 1 .. Len(s) + 1
      BY <1>1, <1>4
    <3>2. \E k : Finds(s, core, i, j, k)
      BY <3>1, FindsOne
    <3>3. Found(i, j) = CHOOSE k : Finds(s, core, i, j, k)
      BY <2>2
    <3> QED
      BY <3>2, <3>3
  <2> QED
    BY <1>4, <2>1, <2>2
<1>5. ASSUME NEW i \in 1 .. n, NEW j \in 1 .. n, i < j, NEW half, half = (i + j) \div 2
      PROVE  Found(i, j) = IF s[half] < core THEN Found(half + 1, j) ELSE Found(i, half)
  <2>1. i \in 1 .. Len(s) + 1 /\ j \in 1 .. Len(s) + 1 /\ j \in i .. Len(s) + 1
    BY <1>1, <1>5
  <2>2. half \in i .. j - 1
    BY <1>5, <2>1, HalfFinds
  <2>3. half + 1 \in 1 .. n /\ half + 1 <= j /\ half \in 1 .. n /\ i <= half
    BY <1>1, <2>2
  <2>4. Finds(s, core, i, j, Found(i, j))
    <3> HIDE DEF Found
    <3> QED
      BY <1>4, <1>5
  <2>5. Finds(s, core, half + 1, j, Found(half + 1, j)) /\ Finds(s, core, i, half, Found(i, half))
    <3> HIDE DEF Found
    <3> QED
      BY <1>4, <2>3
  <2> HIDE DEF Found
  <2>6. PICK a, b, c : a = Found(i, j) /\ b = Found(half + 1, j) /\ c = Found(i, half)
    OBVIOUS
  <2>7. s[half] < core => Finds(s, core, i, j, b)
    BY <1>5, <2>1, <2>5, <2>6, HalfFinds
  <2>8. ~(s[half] < core) => Finds(s, core, i, j, c)
    BY <1>5, <2>1, <2>5, <2>6, HalfFinds
  <2>9. (s[half] < core => a = b) /\ (~(s[half] < core) => a = c)
    BY <2>1, <2>4, <2>6, <2>7, <2>8, FindsOne
  <2> QED
    BY <2>6, <2>9
<1>6. ASSUME NEW i \in 1 .. n, NEW j \in 1 .. n
      PROVE  Found(i, j) = IF i >= j THEN i ELSE
                           IF s[(i + j) \div 2] < core THEN g[<<(i + j) \div 2 + 1, j>>]
                           ELSE g[<<i, (i + j) \div 2>>]
  <2>1. CASE i >= j
    BY <2>1
  <2>2. CASE i < j
    <3>1. PICK half : half = (i + j) \div 2
      OBVIOUS
    <3>2. half \in 1 .. n /\ half + 1 \in 1 .. n
      BY <1>1, <2>2, <3>1
    <3>3. Found(i, j) = IF s[half] < core THEN Found(half + 1, j) ELSE Found(i, half)
      <4> HIDE DEF Found
      <4> QED
        BY <1>5, <2>2, <3>1
    <3>4. g[<<half + 1, j>>] = Found(half + 1, j) /\ g[<<i, half>>] = Found(i, half)
      <4> HIDE DEF Found
      <4> QED
        BY <1>3, <3>2
    <3> HIDE DEF Found
    <3> QED
      BY <2>2, <3>1, <3>3, <3>4
  <2> QED
    BY <1>1, <2>1, <2>2
<1>7. ASSUME NEW r \in (1 .. n) \X (1 .. n)
      PROVE  Found(r[1], r[2]) = IF r[1] >= r[2] THEN r[1] ELSE
             IF s[(r[1] + r[2]) \div 2] < core THEN g[<<(r[1] + r[2]) \div 2 + 1, r[2]>>]
             ELSE g[<<r[1], (r[1] + r[2]) \div 2>>]
  <2> HIDE DEF Found
  <2>1. r[1] \in 1 .. n /\ r[2] \in 1 .. n
    <3>1. PICK S : S = 1 .. n
      OBVIOUS
    <3>2. r \in S \X S
      BY <3>1
    <3>3. r[1] \in S /\ r[2] \in S
      BY <3>2
    <3> QED
      BY <3>1, <3>3
  <2> QED
    BY <1>6, <2>1
<1>8. g = [r \in (1 .. n) \X (1 .. n) |->
              IF r[1] >= r[2] THEN r[1] ELSE
              IF s[(r[1] + r[2]) \div 2] < core THEN g[<<(r[1] + r[2]) \div 2 + 1, r[2]>>]
              ELSE g[<<r[1], (r[1] + r[2]) \div 2>>]]
  <2> HIDE DEF Found
  <2> QED
    BY <1>2, <1>7
<1>9. IsSearch(g, s, core)
  BY <1>1, <1>8 DEF IsSearch
<1> QED
  BY <1>9

(* The search for a core in a list that is in order.                       *)
LEMMA SearchFinds ==
    ASSUME NEW s \in Seq(Int), Ascends(s), NEW core \in Int
    PROVE  Finds(s, core, 1, Len(s) + 1, SearchInts(s, core))
<1>1. PICK n \in Nat : n = Len(s) + 1 /\ Len(s) \in Nat
  OBVIOUS
<1>2. PICK g : IsSearch(g, s, core) /\ SearchInts(s, core) = g[<<1, n>>]
  BY <1>1, SearchIsFunction, SearchExists
<1> DEFINE Good == {d \in 0 .. n : \A i \in 1 .. n, j \in 1 .. n :
                        i <= j /\ j - i <= d => Finds(s, core, i, j, g[<<i, j>>])}
<1>3. ASSUME NEW i \in 1 .. n, NEW j \in 1 .. n, i = j
      PROVE  Finds(s, core, i, j, g[<<i, j>>])
  <2>1. g[<<i, j>>] = IF i >= j THEN i ELSE
                      IF s[(i + j) \div 2] < core THEN g[<<(i + j) \div 2 + 1, j>>]
                      ELSE g[<<i, (i + j) \div 2>>]
    BY <1>1, <1>2, SearchAt
  <2>3. g[<<i, j>>] = i
    BY <1>3, <2>1
  <2>2. Finds(s, core, i, j, i)
    BY <1>3 DEF Finds
  <2> QED
    BY <2>2, <2>3
<1>4. 0 \in Good
  <2>1. ASSUME NEW i \in 1 .. n, NEW j \in 1 .. n, i <= j, j - i <= 0
        PROVE  Finds(s, core, i, j, g[<<i, j>>])
    BY <1>3, <2>1
  <2> QED
    BY <2>1
<1>5. ASSUME NEW d \in 1 .. n, d - 1 \in Good
      PROVE  d \in Good
  <2>1. ASSUME NEW i \in 1 .. n, NEW j \in 1 .. n, i < j, j - i <= d
        PROVE  Finds(s, core, i, j, g[<<i, j>>])
    <3>1. PICK half : half = (i + j) \div 2
      OBVIOUS
    <3>2. half \in 1 .. n /\ half + 1 \in 1 .. n /\ i <= half /\ half < j
      BY <1>1, <2>1, <3>1
    <3>3. j - (half + 1) <= d - 1 /\ half + 1 <= j /\ half - i <= d - 1
      BY <2>1, <3>2
    <3>4. /\ Finds(s, core, half + 1, j, g[<<half + 1, j>>])
          /\ Finds(s, core, i, half, g[<<i, half>>])
      BY <1>5, <3>2, <3>3
    <3>5. g[<<i, j>>] = IF s[half] < core THEN g[<<half + 1, j>>] ELSE g[<<i, half>>]
      <4>1. g[<<i, j>>] = IF i >= j THEN i ELSE
                          IF s[(i + j) \div 2] < core THEN g[<<(i + j) \div 2 + 1, j>>]
                          ELSE g[<<i, (i + j) \div 2>>]
        BY <1>1, <1>2, SearchAt
      <4> QED
        BY <2>1, <3>1, <4>1
    <3>6. i \in 1 .. Len(s) + 1 /\ j \in 1 .. Len(s) + 1
      BY <1>1
    <3>7. PICK a, b, c : a = g[<<i, j>>] /\ b = g[<<half + 1, j>>] /\ c = g[<<i, half>>]
      OBVIOUS
    <3>8. s[half] < core => Finds(s, core, i, j, b)
      BY <2>1, <3>1, <3>4, <3>6, <3>7, HalfFinds
    <3>9. ~(s[half] < core) => Finds(s, core, i, j, c)
      BY <2>1, <3>1, <3>4, <3>6, <3>7, HalfFinds
    <3> QED
      BY <3>5, <3>7, <3>8, <3>9
  <2>2. ASSUME NEW i \in 1 .. n, NEW j \in 1 .. n, i <= j, j - i <= d
        PROVE  Finds(s, core, i, j, g[<<i, j>>])
    BY <1>3, <2>1, <2>2
  <2>3. d \in 0 .. n
    OBVIOUS
  <2> QED
    BY <2>2, <2>3
<1>6. n \in Good
  <2> HIDE DEF Good
  <2>1. \A k \in 0 .. n : k \in Good
    BY <1>4, <1>5, Counting
  <2> QED
    BY <2>1
<1>7. 1 \in 1 .. n /\ n \in 1 .. n /\ 1 <= n /\ n - 1 <= n
  BY <1>1
<1>8. Finds(s, core, 1, n, g[<<1, n>>])
  BY <1>6, <1>7
<1> QED
  BY <1>1, <1>2, <1>8

(* Contains, for a list that is in order, is membership.                   *)
LEMMA HasIsMembership ==
    ASSUME NEW s \in Seq(Int), Ascends(s), NEW core \in Int
    PROVE  Has(s, core) <=> core \in ToSet(s)
<1>1. PICK n \in Nat : n = Len(s) /\ DOMAIN s = 1 .. n /\ \A m \in 1 .. n : s[m] \in Int
  OBVIOUS
<1>2. PICK k : k = SearchInts(s, core)
  OBVIOUS
<1>3. Finds(s, core, 1, n + 1, k)
  BY <1>1, <1>2, SearchFinds
<1>4. /\ k \in 1 .. n + 1
      /\ \A m \in 1 .. k - 1 : s[m] < core
      /\ k < n + 1 => s[k] >= core
  BY <1>3 DEF Finds
<1>5. Has(s, core) <=> k <= n /\ s[k] = core
  BY <1>1, <1>2 DEF Has
<1>6. ASSUME NEW m \in 1 .. n, s[m] = core
      PROVE  m = k
  <2>1. ~(m < k)
    <3>1. ASSUME m < k
          PROVE  FALSE
      <4>1. m \in 1 .. k - 1
        BY <1>4, <3>1
      <4>2. s[m] < core /\ s[m] \in Int
        BY <1>1, <1>4, <4>1
      <4> QED
        BY <1>6, <4>2
    <3> QED
      BY <3>1
  <2>2. ~(k < m)
    <3>1. ASSUME k < m
          PROVE  FALSE
      <4>1. k \in 1 .. n /\ k < n + 1
        BY <1>4, <3>1
      <4>2. s[k] >= core /\ s[k] < s[m] /\ s[k] \in Int /\ s[m] \in Int
        BY <1>1, <1>4, <3>1, <4>1 DEF Ascends
      <4> QED
        BY <1>6, <4>2
    <3> QED
      BY <3>1
  <2> QED
    BY <1>4, <2>1, <2>2
<1>7. core \in ToSet(s) <=> \E m \in 1 .. n : s[m] = core
  BY <1>1 DEF ToSet
<1>8. k <= n => k \in 1 .. n
  BY <1>4
<1> QED
  BY <1>5, <1>6, <1>7, <1>8

-----------------------------------------------------------------------------
(* The operations are those on sets.                                       *)

LEMMA AppendedAscends ==
    ASSUME NEW s \in Seq(Int), Ascends(s), NEW c \in Int, \A d \in ToSet(s) : d < c
    PROVE  Ascends(Append(s, c))
<1>1. PICK n \in Nat : n = Len(s) /\ DOMAIN s = 1 .. n
  OBVIOUS
<1>2. PICK a : a = Append(s, c)
  OBVIOUS
<1>3. DOMAIN a = 1 .. n + 1 /\ a[n + 1] = c /\ \A k \in 1 .. n : a[k] = s[k]
  BY <1>1, <1>2
<1>4. ASSUME NEW i \in 1 .. n + 1, NEW j \in 1 .. n + 1, i < j
      PROVE  a[i] < a[j]
  <2>1. i \in 1 .. n
    BY <1>1, <1>4
  <2>2. CASE j = n + 1
    <3>1. s[i] \in ToSet(s)
      BY <1>1, <2>1 DEF ToSet
    <3> QED
      BY <1>3, <2>1, <2>2, <3>1
  <2>3. CASE j \in 1 .. n
    BY <1>1, <1>3, <1>4, <2>1, <2>3 DEF Ascends
  <2> QED
    BY <1>1, <2>2, <2>3
<1> QED
  BY <1>2, <1>3, <1>4 DEF Ascends

(* A loop over an ascending list that keeps the cores of Keeps.            *)
LEMMA Filtered ==
    ASSUME NEW s \in Seq(Int), Ascends(s), NEW Keeps, NEW r, r[0] = <<>>,
           \A k \in 1 .. Len(s) :
               r[k] = IF s[k] \in Keeps THEN Append(r[k - 1], s[k]) ELSE r[k - 1]
    PROVE  r[Len(s)] \in Seq(Int) /\ Is(r[Len(s)], ToSet(s) \cap Keeps)
<1>1. PICK n \in Nat : n = Len(s) /\ DOMAIN s = 1 .. n /\ \A k \in 1 .. n : s[k] \in Int
  OBVIOUS
<1> DEFINE Sofar(k) == {s[j] : j \in 1 .. k}
           Good == {k \in 0 .. n : /\ r[k] \in Seq(Int) /\ Ascends(r[k])
                                   /\ ToSet(r[k]) = Sofar(k) \cap Keeps}
<1>2. 0 \in Good
  <2>1. <<>> \in Seq(Int) /\ Ascends(<<>>) /\ ToSet(<<>>) = {} /\ Sofar(0) = {}
    BY DEF Ascends, ToSet
  <2>2. 0 \in 0 .. n
    OBVIOUS
  <2> HIDE DEF Sofar
  <2>3. r[0] \in Seq(Int) /\ Ascends(r[0]) /\ ToSet(r[0]) = Sofar(0) \cap Keeps
    BY <2>1
  <2> QED
    BY <2>2, <2>3
<1>3. ASSUME NEW k \in 1 .. n, k - 1 \in Good
      PROVE  k \in Good
  <2>1. k \in 0 .. n
    OBVIOUS
  <2>2. Sofar(k) = Sofar(k - 1) \cup {s[k]}
    <3>1. 1 .. k = 1 .. (k - 1) \cup {k}
      OBVIOUS
    <3> QED
      BY <3>1
  <2>3. \A d \in Sofar(k - 1) : d < s[k]
    <3>1. ASSUME NEW j \in 1 .. k - 1
          PROVE  s[j] < s[k]
      <4>1. j \in 1 .. n /\ j < k
        OBVIOUS
      <4> HIDE DEF Good, Sofar
      <4> QED
        BY <1>1, <4>1 DEF Ascends
    <3> QED
      BY <3>1
  <2>4. r[k - 1] \in Seq(Int) /\ Ascends(r[k - 1]) /\ ToSet(r[k - 1]) = Sofar(k - 1) \cap Keeps
    BY <1>3
  <2> HIDE DEF Sofar
  <2>5. PICK out \in Seq(Int), c \in Int : out = r[k - 1] /\ c = s[k]
    BY <1>1, <2>4
  <2>6. r[k] = IF c \in Keeps THEN Append(out, c) ELSE out
    BY <1>1, <2>5
  <2>7. CASE c \notin Keeps
    <3>1. Sofar(k) \cap Keeps = Sofar(k - 1) \cap Keeps
      BY <2>2, <2>5, <2>7
    <3> QED
      BY <2>1, <2>4, <2>5, <2>6, <2>7, <3>1
  <2>8. CASE c \in Keeps
    <3>1. \A d \in ToSet(out) : d < c
      BY <2>3, <2>4, <2>5
    <3>2. Ascends(Append(out, c)) /\ Append(out, c) \in Seq(Int)
      BY <2>4, <2>5, <3>1, AppendedAscends
    <3>3. ToSet(Append(out, c)) = ToSet(out) \cup {c}
      BY Appended
    <3>4. ToSet(Append(out, c)) = Sofar(k) \cap Keeps
      BY <2>2, <2>4, <2>5, <2>8, <3>3
    <3> QED
      BY <2>1, <2>6, <2>8, <3>2, <3>4
  <2> QED
    BY <2>7, <2>8
<1>4. n \in Good
  <2> HIDE DEF Good
  <2>1. \A k \in 0 .. n : k \in Good
    BY <1>2, <1>3, Counting
  <2> QED
    BY <2>1
<1>5. Sofar(n) = ToSet(s)
  BY <1>1 DEF ToSet
<1> HIDE DEF Sofar
<1> QED
  BY <1>1, <1>4, <1>5 DEF Is, Ascends

LEMMA MemberIsInt ==
    ASSUME NEW s \in Seq(Int), NEW k \in 1 .. Len(s)
    PROVE  s[k] \in Int
OBVIOUS

LEMMA IntersectFacts ==
    ASSUME NEW s \in Seq(Int), NEW o \in Seq(Int), Ascends(s), Ascends(o)
    PROVE  Is(Intersect(s, o), ToSet(s) \cap ToSet(o))
<1>1. PICK r : /\ r[0] = <<>> /\ r[Len(s)] = Intersect(s, o)
               /\ \A k \in 1 .. Len(s) :
                     r[k] = IF Has(o, s[k]) THEN Append(r[k - 1], s[k]) ELSE r[k - 1]
  BY CommonRounds
<1>2. PICK Keeps : Keeps = ToSet(o)
  OBVIOUS
<1>3. \A k \in 1 .. Len(s) :
          r[k] = IF s[k] \in Keeps THEN Append(r[k - 1], s[k]) ELSE r[k - 1]
  BY <1>1, <1>2, MemberIsInt, HasIsMembership
<1>4. Is(r[Len(s)], ToSet(s) \cap Keeps)
  BY <1>1, <1>3, Filtered
<1> QED
  BY <1>1, <1>2, <1>4

LEMMA DifferenceFacts ==
    ASSUME NEW s \in Seq(Int), NEW o \in Seq(Int), Ascends(s), Ascends(o)
    PROVE  Is(Difference(s, o), ToSet(s) \ ToSet(o))
<1>1. PICK r : /\ r[0] = <<>> /\ r[Len(s)] = Difference(s, o)
               /\ \A k \in 1 .. Len(s) :
                     r[k] = IF Has(o, s[k]) THEN r[k - 1] ELSE Append(r[k - 1], s[k])
  BY LackingRounds
<1>2. PICK Keeps : Keeps = Int \ ToSet(o)
  OBVIOUS
<1>3. \A k \in 1 .. Len(s) :
          r[k] = IF s[k] \in Keeps THEN Append(r[k - 1], s[k]) ELSE r[k - 1]
  BY <1>1, <1>2, MemberIsInt, HasIsMembership
<1>4. Is(r[Len(s)], ToSet(s) \cap Keeps)
  BY <1>1, <1>3, Filtered
<1>5. ToSet(s) \cap Keeps = ToSet(s) \ ToSet(o)
  BY <1>2 DEF ToSet
<1> QED
  BY <1>1, <1>4, <1>5

LEMMA JoinedSet ==
    ASSUME NEW s \in Seq(Int), NEW o \in Seq(Int)
    PROVE  s \o o \in Seq(Int) /\ ToSet(s \o o) = ToSet(s) \cup ToSet(o)
<1>1. PICK n \in Nat : n = Len(s) /\ DOMAIN s = 1 .. n
  OBVIOUS
<1>2. PICK m \in Nat : m = Len(o) /\ DOMAIN o = 1 .. m
  OBVIOUS
<1>9. s \o o \in Seq(Int)
  OBVIOUS
<1>10. /\ DOMAIN (s \o o) = 1 .. Len(s) + Len(o)
       /\ \A k \in 1 .. Len(s) + Len(o) :
             (s \o o)[k] = IF k <= Len(s) THEN s[k] ELSE o[k - Len(s)]
  OBVIOUS
<1>3. PICK j : j = s \o o
  OBVIOUS
<1>4. /\ DOMAIN j = 1 .. n + m /\ \A k \in 1 .. n : j[k] = s[k]
      /\ \A k \in n + 1 .. n + m : j[k] = o[k - n]
  BY <1>1, <1>2, <1>3, <1>10
<1>5. ASSUME NEW c \in ToSet(j)
      PROVE  c \in ToSet(s) \cup ToSet(o)
  <2>1. PICK k \in 1 .. n + m : j[k] = c
    BY <1>4 DEF ToSet
  <2>2. CASE k \in 1 .. n
    BY <1>1, <1>4, <2>1, <2>2 DEF ToSet
  <2>3. CASE k \in n + 1 .. n + m
    <3>1. k - n \in 1 .. m /\ o[k - n] = c
      BY <1>4, <2>1, <2>3
    <3> QED
      BY <1>2, <3>1 DEF ToSet
  <2> QED
    BY <2>2, <2>3
<1>6. ASSUME NEW c \in ToSet(s)
      PROVE  c \in ToSet(j)
  <2>1. PICK k \in 1 .. n : s[k] = c
    BY <1>1 DEF ToSet
  <2>2. k \in 1 .. n + m /\ j[k] = c
    BY <1>4, <2>1
  <2> QED
    BY <1>4, <2>2 DEF ToSet
<1>7. ASSUME NEW c \in ToSet(o)
      PROVE  c \in ToSet(j)
  <2>1. PICK k \in 1 .. m : o[k] = c
    BY <1>2 DEF ToSet
  <2>2. k + n \in n + 1 .. n + m /\ (k + n) - n = k
    OBVIOUS
  <2>3. k + n \in 1 .. n + m /\ j[k + n] = c
    BY <1>4, <2>1, <2>2
  <2> QED
    BY <1>4, <2>3 DEF ToSet
<1>8. ToSet(j) = ToSet(s) \cup ToSet(o)
  BY <1>5, <1>6, <1>7
<1> QED
  BY <1>3, <1>8, <1>9

LEMMA UnionFacts ==
    ASSUME NEW s \in Seq(Int), NEW o \in Seq(Int)
    PROVE  Is(Union(s, o), ToSet(s) \cup ToSet(o))
<1>1. PICK j \in Seq(Int) : j = s \o o /\ ToSet(j) = ToSet(s) \cup ToSet(o)
  BY JoinedSet
<1>2. Is(NewCPUSet(j), ToSet(j))
  BY NewCPUSetFacts
<1> QED
  BY <1>1, <1>2 DEF Union

LEMMA EqualFacts ==
    ASSUME NEW s \in Seq(Int), NEW o \in Seq(Int), Ascends(s), Ascends(o)
    PROVE  Equal(s, o) <=> ToSet(s) = ToSet(o)
<1>1. PICK n \in Nat : n = Len(s) /\ DOMAIN s = 1 .. n
  OBVIOUS
<1>2. PICK m \in Nat : m = Len(o) /\ DOMAIN o = 1 .. m
  OBVIOUS
<1>3. ASSUME Equal(s, o)
      PROVE  ToSet(s) = ToSet(o)
  <2>1. n = m /\ \A i \in 1 .. n : s[i] = o[i]
    BY <1>1, <1>2, <1>3 DEF Equal
  <2> QED
    BY <1>1, <1>2, <2>1 DEF ToSet
<1>4. ASSUME ToSet(s) = ToSet(o)
      PROVE  Equal(s, o)
  <2>1. Is(s, ToSet(s)) /\ Is(o, ToSet(s))
    BY <1>4 DEF Is, Ascends
  <2>2. s = o
    BY <2>1, OneList
  <2> QED
    BY <2>2 DEF Equal
<1> QED
  BY <1>3, <1>4

-----------------------------------------------------------------------------
(* ParseCPUSet                                                             *)

Covered(text) == UNION {Head(text[k]) .. Last(text[k]) : k \in DOMAIN text}

(* The cores of a text that it accepts are those that its elements name.   *)
LEMMA ParsedFacts ==
    ASSUME NEW text \in Seq(Accepted)
    PROVE  Parsed(text) \in Seq(Int) /\ ToSet(Parsed(text)) = Covered(text)
<1>1. PICK n \in Nat : n = Len(text) /\ DOMAIN text = 1 .. n /\ \A k \in 1 .. n : text[k] \in Accepted
  OBVIOUS
<1>2. PICK r : /\ r[0] = <<>> /\ r[n] = Parsed(text)
               /\ \A k \in 1 .. n : r[k] = (r[k - 1] \o Members(text[k]))
  BY <1>1, ParseRounds
<1> DEFINE Sofar(k) == UNION {Head(text[j]) .. Last(text[j]) : j \in 1 .. k}
           Good == {k \in 0 .. n : r[k] \in Seq(Int) /\ ToSet(r[k]) = Sofar(k)}
<1>3. 0 \in Good
  <2>1. <<>> \in Seq(Int) /\ ToSet(<<>>) = {} /\ Sofar(0) = {}
    BY DEF ToSet
  <2>2. 0 \in 0 .. n
    OBVIOUS
  <2> HIDE DEF Sofar
  <2>3. r[0] \in Seq(Int) /\ ToSet(r[0]) = Sofar(0)
    BY <1>2, <2>1
  <2> QED
    BY <2>2, <2>3
<1>4. ASSUME NEW k \in 1 .. n, k - 1 \in Good
      PROVE  k \in Good
  <2>1. k \in 0 .. n
    OBVIOUS
  <2>2. Sofar(k) = Sofar(k - 1) \cup (Head(text[k]) .. Last(text[k]))
    <3>1. 1 .. k = 1 .. (k - 1) \cup {k}
      OBVIOUS
    <3> QED
      BY <3>1
  <2>3. r[k - 1] \in Seq(Int) /\ ToSet(r[k - 1]) = Sofar(k - 1)
    BY <1>4
  <2> HIDE DEF Sofar
  <2>4. PICK e \in Accepted : e = text[k]
    BY <1>1
  <2>5. Members(e) \in Seq(Int) /\ ToSet(Members(e)) = Head(e) .. Last(e)
    BY AcceptedRange
  <2>6. PICK out \in Seq(Int), more \in Seq(Int) : out = r[k - 1] /\ more = Members(e)
    BY <2>3, <2>5
  <2>7. out \o more \in Seq(Int) /\ ToSet(out \o more) = ToSet(out) \cup ToSet(more)
    BY JoinedSet
  <2>8. r[k] = out \o more
    BY <1>2, <2>4, <2>6
  <2>9. r[k] \in Seq(Int) /\ ToSet(r[k]) = Sofar(k)
    BY <2>2, <2>3, <2>4, <2>5, <2>6, <2>7, <2>8
  <2> QED
    BY <2>1, <2>9
<1>5. n \in Good
  <2> HIDE DEF Good
  <2>1. \A k \in 0 .. n : k \in Good
    BY <1>3, <1>4, Counting
  <2> QED
    BY <2>1
<1>6. Sofar(n) = Covered(text)
  BY <1>1 DEF Covered
<1> HIDE DEF Sofar
<1> QED
  BY <1>2, <1>5, <1>6

LEMMA ParseFacts ==
    ASSUME NEW text \in Seq(Element), ParseCPUSet(text) # ParseError
    PROVE  /\ ParseCPUSet(text) \in Seq(Int) /\ Is(ParseCPUSet(text), Covered(text))
           /\ text \in Seq(Accepted)
<1>1. ~\E k \in DOMAIN text : Refused(text[k])
  BY DEF ParseCPUSet
<1>2. PICK n \in Nat : n = Len(text) /\ DOMAIN text = 1 .. n /\ \A k \in 1 .. n : text[k] \in Element
  OBVIOUS
<1>3. text \in Seq(Accepted)
  <2>1. \A k \in 1 .. n : text[k] \in Accepted
    BY <1>1, <1>2 DEF Accepted
  <2>2. text = [k \in 1 .. n |-> text[k]]
    BY <1>2
  <2>3. text \in [1 .. n -> Accepted]
    BY <2>1, <2>2
  <2> QED
    BY <2>3
<1>4. ParseCPUSet(text) = NewCPUSet(Parsed(text))
  BY <1>1 DEF ParseCPUSet, Parsed
<1>5. PICK list \in Seq(Int) : list = Parsed(text) /\ ToSet(list) = Covered(text)
  BY <1>3, ParsedFacts
<1> QED
  BY <1>3, <1>4, <1>5, NewCPUSetFacts

LEMMA ParseAccepted ==
    ASSUME NEW text \in Seq(Accepted)
    PROVE  ParseCPUSet(text) \in Seq(Int) /\ Is(ParseCPUSet(text), Covered(text))
<1>1. \A k \in DOMAIN text : text[k] \in Accepted
  OBVIOUS
<1>2. ~\E k \in DOMAIN text : Refused(text[k])
  BY <1>1 DEF Accepted
<1>3. ParseCPUSet(text) = NewCPUSet(Parsed(text))
  BY <1>2 DEF ParseCPUSet, Parsed
<1>4. PICK list \in Seq(Int) : list = Parsed(text) /\ ToSet(list) = Covered(text)
  BY ParsedFacts
<1> QED
  BY <1>3, <1>4, NewCPUSetFacts

-----------------------------------------------------------------------------
(* String                                                                  *)

LEMMA AppendedCovers ==
    ASSUME NEW text \in Seq(Accepted), NEW e \in Accepted
    PROVE  /\ Append(text, e) \in Seq(Accepted)
           /\ Covered(Append(text, e)) = Covered(text) \cup (Head(e) .. Last(e))
<1>1. PICK n \in Nat : n = Len(text) /\ DOMAIN text = 1 .. n
  OBVIOUS
<1>2. Append(text, e) \in Seq(Accepted)
  OBVIOUS
<1>3. PICK a : a = Append(text, e)
  OBVIOUS
<1>4. DOMAIN a = 1 .. n + 1 /\ a[n + 1] = e /\ \A k \in 1 .. n : a[k] = text[k]
  BY <1>1, <1>3
<1>5. 1 .. n + 1 = 1 .. n \cup {n + 1}
  OBVIOUS
<1>6. Covered(a) = UNION {Head(a[k]) .. Last(a[k]) : k \in 1 .. n \cup {n + 1}}
  BY <1>4, <1>5 DEF Covered
<1>7. Covered(text) = UNION {Head(a[k]) .. Last(a[k]) : k \in 1 .. n}
  BY <1>1, <1>4 DEF Covered
<1>8. Covered(a) = Covered(text) \cup (Head(e) .. Last(e))
  BY <1>4, <1>6, <1>7
<1> QED
  BY <1>2, <1>3, <1>8

LEMMA LastCovers ==
    ASSUME NEW text \in Seq(Accepted), text # <<>>
    PROVE  /\ Front(text) \in Seq(Accepted) /\ Last(text) \in Accepted
           /\ Covered(text) = Covered(Front(text)) \cup (Head(Last(text)) .. Last(Last(text)))
<1>1. PICK n \in Nat : n = Len(text) /\ DOMAIN text = 1 .. n
  OBVIOUS
<1>2. n # 0 /\ n \in 1 .. n
  BY <1>1
<1>3. PICK e : e = Last(text)
  OBVIOUS
<1>4. e = text[n] /\ e \in Accepted
  BY <1>1, <1>2, <1>3 DEF Last
<1>5. PICK m \in Nat : m = n - 1
  BY <1>2
<1>6. PICK f : f = Front(text)
  OBVIOUS
<1>7. f = [k \in 1 .. m |-> text[k]]
  BY <1>1, <1>5, <1>6 DEF Front
<1>8. \A k \in 1 .. m : text[k] \in Accepted
  BY <1>1, <1>5
<1>9. f \in Seq(Accepted) /\ DOMAIN f = 1 .. m
  BY <1>7, <1>8
<1>10. 1 .. n = 1 .. m \cup {n}
  BY <1>2, <1>5
<1>11. Covered(text) = UNION {Head(text[k]) .. Last(text[k]) : k \in 1 .. m \cup {n}}
  BY <1>1, <1>10 DEF Covered
<1>12. Covered(f) = UNION {Head(text[k]) .. Last(text[k]) : k \in 1 .. m}
  BY <1>7, <1>9 DEF Covered
<1>13. Covered(text) = Covered(f) \cup (Head(e) .. Last(e))
  BY <1>4, <1>11, <1>12
<1> QED
  BY <1>3, <1>4, <1>6, <1>9, <1>13

LEMMA OneCore ==
    ASSUME NEW c \in Nat
    PROVE  <<c>> \in Accepted /\ Head(<<c>>) .. Last(<<c>>) = {c}
<1>1. <<c>> \in Seq(Nat \cup {Junk}) /\ Len(<<c>>) = 1 /\ Head(<<c>>) = c /\ Last(<<c>>) = c /\ <<c>> # <<>>
  BY DEF Last
<1>2. ~Refused(<<c>>)
  BY <1>1 DEF Refused, Junk
<1>3. <<c>> \in Accepted
  BY <1>1, <1>2 DEF Accepted, Element
<1> QED
  BY <1>1, <1>3

LEMMA TwoCores ==
    ASSUME NEW a \in Nat, NEW c \in Nat, a <= c
    PROVE  <<a, c>> \in Accepted /\ Head(<<a, c>>) = a /\ Last(<<a, c>>) = c
<1>1. /\ <<a, c>> \in Seq(Nat \cup {Junk}) /\ Len(<<a, c>>) = 2 /\ <<a, c>> # <<>>
      /\ Head(<<a, c>>) = a /\ <<a, c>>[1] = a /\ <<a, c>>[2] = c
  OBVIOUS
<1>2. Last(<<a, c>>) = c
  BY <1>1 DEF Last
<1>3. ~Refused(<<a, c>>)
  BY <1>1 DEF Refused, Junk
<1>4. <<a, c>> \in Accepted
  BY <1>1, <1>3 DEF Accepted, Element
<1> QED
  BY <1>1, <1>2, <1>4

(* A core adds itself to the text and nothing else.                        *)
LEMMA GrownCovers ==
    ASSUME NEW text \in Seq(Accepted), NEW c \in Nat
    PROVE  Grown(text, c) \in Seq(Accepted) /\ Covered(Grown(text, c)) = Covered(text) \cup {c}
<1>1. CASE text # <<>> /\ Last(Last(text)) + 1 = c
  <2>1. PICK e \in Accepted, f \in Seq(Accepted) :
            /\ e = Last(text) /\ f = Front(text)
            /\ Covered(text) = Covered(f) \cup (Head(e) .. Last(e))
    BY <1>1, LastCovers
  <2>2. PICK a \in Nat, b \in Nat : a = Head(e) /\ b = Last(e) /\ a <= b
    BY AcceptedRange
  <2>3. b + 1 = c /\ a <= c
    BY <1>1, <2>1, <2>2
  <2>4. PICK more \in Accepted : more = <<a, c>> /\ Head(more) = a /\ Last(more) = c
    BY <2>3, TwoCores
  <2>5. Grown(text, c) = Append(f, more)
    BY <1>1, <2>1, <2>2, <2>4 DEF Grown
  <2>6. Append(f, more) \in Seq(Accepted) /\ Covered(Append(f, more)) = Covered(f) \cup (a .. c)
    BY <2>4, AppendedCovers
  <2>7. a .. c = (a .. b) \cup {c}
    BY <2>2, <2>3
  <2>8. Covered(f) \cup (a .. c) = Covered(text) \cup {c}
    BY <2>1, <2>2, <2>7
  <2> QED
    BY <2>5, <2>6, <2>8
<1>2. CASE ~(text # <<>> /\ Last(Last(text)) + 1 = c)
  <2>1. PICK more \in Accepted : more = <<c>> /\ Head(more) .. Last(more) = {c}
    BY OneCore
  <2>2. Grown(text, c) = Append(text, more)
    BY <1>2, <2>1 DEF Grown
  <2> QED
    BY <2>1, <2>2, AppendedCovers
<1> QED
  BY <1>1, <1>2

LEMMA StringFacts ==
    ASSUME NEW s \in Seq(Nat)
    PROVE  String(s) \in Seq(Accepted) /\ Covered(String(s)) = ToSet(s)
<1>1. PICK n \in Nat : n = Len(s) /\ DOMAIN s = 1 .. n /\ \A k \in 1 .. n : s[k] \in Nat
  OBVIOUS
<1>7. s \in Seq(Int)
  OBVIOUS
<1>2. PICK r : /\ r[0] = <<>> /\ r[n] = String(s)
               /\ \A k \in 1 .. n : r[k] = Grown(r[k - 1], s[k])
  BY <1>1, <1>7, TextRounds
<1> DEFINE Sofar(k) == {s[j] : j \in 1 .. k}
           Good == {k \in 0 .. n : r[k] \in Seq(Accepted) /\ Covered(r[k]) = Sofar(k)}
<1>3. 0 \in Good
  <2>1. <<>> \in Seq(Accepted) /\ Covered(<<>>) = {} /\ Sofar(0) = {}
    BY DEF Covered
  <2>2. 0 \in 0 .. n
    OBVIOUS
  <2> HIDE DEF Sofar
  <2>3. r[0] \in Seq(Accepted) /\ Covered(r[0]) = Sofar(0)
    BY <1>2, <2>1
  <2> QED
    BY <2>2, <2>3
<1>4. ASSUME NEW k \in 1 .. n, k - 1 \in Good
      PROVE  k \in Good
  <2>1. k \in 0 .. n
    OBVIOUS
  <2>2. Sofar(k) = Sofar(k - 1) \cup {s[k]}
    <3>1. 1 .. k = 1 .. (k - 1) \cup {k}
      OBVIOUS
    <3> QED
      BY <3>1
  <2>3. r[k - 1] \in Seq(Accepted) /\ Covered(r[k - 1]) = Sofar(k - 1)
    BY <1>4
  <2> HIDE DEF Sofar
  <2>4. PICK out \in Seq(Accepted), c \in Nat : out = r[k - 1] /\ c = s[k]
    BY <1>1, <2>3
  <2>5. r[k] = Grown(out, c)
    BY <1>2, <2>4
  <2>6. Grown(out, c) \in Seq(Accepted) /\ Covered(Grown(out, c)) = Covered(out) \cup {c}
    BY GrownCovers
  <2>7. r[k] \in Seq(Accepted) /\ Covered(r[k]) = Sofar(k)
    BY <2>2, <2>3, <2>4, <2>5, <2>6
  <2> QED
    BY <2>1, <2>7
<1>5. n \in Good
  <2> HIDE DEF Good
  <2>1. \A k \in 0 .. n : k \in Good
    BY <1>3, <1>4, Counting
  <2> QED
    BY <2>1
<1>6. Sofar(n) = ToSet(s)
  BY <1>1 DEF ToSet
<1> HIDE DEF Sofar
<1> QED
  BY <1>2, <1>5, <1>6

LEMMA TwiceCovers ==
    ASSUME NEW text \in Seq(Accepted)
    PROVE  /\ Reverse(text) \o text \in Seq(Accepted)
           /\ Covered(Reverse(text) \o text) = Covered(text)
<1>1. PICK n \in Nat : n = Len(text) /\ DOMAIN text = 1 .. n /\ \A k \in 1 .. n : text[k] \in Accepted
  OBVIOUS
<1>2. PICK b : b = Reverse(text)
  OBVIOUS
<1>3. b = [k \in 1 .. n |-> text[(n - k) + 1]]
  BY <1>1, <1>2 DEF Reverse
<1>4. \A k \in 1 .. n : (n - k) + 1 \in 1 .. n
  OBVIOUS
<1>5. b \in Seq(Accepted) /\ DOMAIN b = 1 .. n /\ Len(b) = n
  <2>1. \A k \in 1 .. n : text[(n - k) + 1] \in Accepted
    BY <1>1, <1>4
  <2>2. b \in [1 .. n -> Accepted]
    BY <1>3, <2>1
  <2> QED
    BY <2>2
<1>6. b \o text \in Seq(Accepted)
  BY <1>5
<1>7. /\ DOMAIN (b \o text) = 1 .. Len(b) + Len(text)
      /\ \A k \in 1 .. Len(b) + Len(text) :
            (b \o text)[k] = IF k <= Len(b) THEN b[k] ELSE text[k - Len(b)]
  BY <1>5
<1>8. PICK t : t = b \o text
  OBVIOUS
<1>9. /\ DOMAIN t = 1 .. n + n
      /\ \A k \in 1 .. n + n : t[k] = IF k <= n THEN b[k] ELSE text[k - n]
  BY <1>1, <1>5, <1>7, <1>8
<1>10. ASSUME NEW k \in 1 .. n + n
       PROVE  \E j \in 1 .. n : t[k] = text[j]
  <2>1. CASE k <= n
    <3>1. k \in 1 .. n /\ (n - k) + 1 \in 1 .. n
      BY <2>1
    <3> QED
      BY <1>3, <1>9, <2>1, <3>1
  <2>2. CASE ~(k <= n)
    <3>1. k - n \in 1 .. n
      BY <2>2
    <3> QED
      BY <1>9, <2>2, <3>1
  <2> QED
    BY <2>1, <2>2
<1>11. ASSUME NEW j \in 1 .. n
       PROVE  \E k \in 1 .. n + n : t[k] = text[j]
  <2>1. n + j \in 1 .. n + n /\ ~(n + j <= n) /\ (n + j) - n = j
    OBVIOUS
  <2> QED
    BY <1>9, <2>1
<1>12. Covered(t) = Covered(text)
  <2>1. Covered(t) = UNION {Head(t[k]) .. Last(t[k]) : k \in 1 .. n + n}
    BY <1>9 DEF Covered
  <2>2. Covered(text) = UNION {Head(text[k]) .. Last(text[k]) : k \in 1 .. n}
    BY <1>1 DEF Covered
  <2> QED
    BY <1>10, <1>11, <2>1, <2>2
<1> QED
  BY <1>2, <1>6, <1>8, <1>12

(* A list in order is what its text parses to, in any order and repeated.  *)
LEMMA TextIsTheSet ==
    ASSUME NEW s \in Seq(Nat), Ascends(s)
    PROVE  ParseCPUSet(String(s)) = s /\ ParseCPUSet(Reverse(String(s)) \o String(s)) = s
<1>1. PICK text \in Seq(Accepted) : text = String(s) /\ Covered(text) = ToSet(s)
  BY StringFacts
<1>2. PICK twice \in Seq(Accepted) : twice = Reverse(text) \o text /\ Covered(twice) = ToSet(s)
  BY <1>1, TwiceCovers
<1>3. s \in Seq(Int) /\ Is(s, ToSet(s))
  BY DEF Is, Ascends
<1>4. ParseCPUSet(text) = s
  BY <1>1, <1>3, ParseAccepted, OneList
<1>5. ParseCPUSet(twice) = s
  BY <1>2, <1>3, ParseAccepted, OneList
<1> QED
  BY <1>1, <1>2, <1>4, <1>5
=============================================================================
