--------------------------- MODULE PlannerProofs ---------------------------
(***************************************************************************)
(* Isolation of exclusive roles, a core for every role, what is in the     *)
(* pool in between, when a plan is refused and when siblings collide, for  *)
(* every machine, topology and Spec.                                       *)
(***************************************************************************)
EXTENDS PlannerProperties, WellFoundedInduction, FiniteSetTheorems, TLAPS

-----------------------------------------------------------------------------
(* The pickers return cores of their pool.                                 *)

LEMMA FirstNSubset ==
    ASSUME NEW S, NEW n
    PROVE  FirstN(S, n) \subseteq S
BY DEF FirstN

LEMMA PickExclusiveSubset ==
    ASSUME NEW pool, NEW n, NEW siblings, NEW avoid,
           NEW set \in PickExclusive(pool, n, siblings, avoid)
    PROVE  set \subseteq pool
<1>1. PICK G \in SUBSET pool :
          set = G \cup FirstN(pool \ G, n - Cardinality(G))
  BY DEF PickExclusive
<1>2. FirstN(pool \ G, n - Cardinality(G)) \subseteq pool \ G
  BY FirstNSubset
<1> QED
  BY <1>1, <1>2

LEMMA TakeSharedSubset ==
    ASSUME NEW rest, NEW pool, NEW n
    PROVE  TakeShared(rest, pool, n) \subseteq rest \cup pool
<1> DEFINE take == FirstN(rest, n)
<1>1. take \subseteq rest
  BY FirstNSubset
<1>2. FirstN(pool \ take, n - Cardinality(take)) \subseteq pool \ take
  BY FirstNSubset
<1> QED
  BY <1>1, <1>2 DEF TakeShared

-----------------------------------------------------------------------------
(* What the types say of the arguments.                                    *)

LEMMA ArgumentTypes ==
    ASSUME input \in Input
    PROVE  /\ Roles \in Seq(Role)
           /\ Len(Roles) \in Nat
           /\ DOMAIN Roles = 1 .. Len(Roles)
           /\ \A k \in 1 .. Len(Roles) : /\ Roles[k] \in Role
                                         /\ Roles[k].cores \subseteq Core
           /\ Available \subseteq Core
<1>1. Roles \in Seq(Role) /\ Available \subseteq Core
  BY DEF Input, Roles, Available
<1>2. Len(Roles) \in Nat /\ DOMAIN Roles = 1 .. Len(Roles)
  BY <1>1
<1>3. \A k \in 1 .. Len(Roles) : Roles[k] \in Role
  BY <1>1
<1>4. \A r \in Role : r.cores \subseteq Core
  BY DEF Role
<1> QED
  BY <1>1, <1>2, <1>3, <1>4

LEMMA InitIInv == Init => IInv
<1> SUFFICES ASSUME Init PROVE IInv
  OBVIOUS
<1>1. input \in Input
  BY InputAssumption DEF Init
<1>2. TypeOK
  BY <1>1 DEF Init, TypeOK, Phases, Errors
<1>3. Seen = 0
  BY DEF Init, Seen
<1>4. IndexExact
  BY <1>1, <1>3, ArgumentTypes DEF Init, IndexExact
<1>5. ClaimsInOrder /\ RemainingIsFree /\ PoolIsShareable /\ AutoNeverClashes
  BY <1>3 DEF Init, ClaimsInOrder, RemainingIsFree, PoolIsShareable, AutoNeverClashes
<1>6. CheckedAtEnd /\ err # "overlap"
  BY DEF Init, CheckedAtEnd
<1> QED
  BY <1>2, <1>4, <1>5, <1>6 DEF IInv

-----------------------------------------------------------------------------
(* Steps that change no claim                                              *)

(* With its claims and the set of validated roles unchanged, a step need   *)
(* only account for the parts that speak of the phase.                     *)
LEMMA SameClaims ==
    ASSUME IInv, UNCHANGED <<input, alloc, housekeeping>>, Seen' = Seen
    PROVE  /\ Roles' = Roles /\ Available' = Available
           /\ \A k \in 1 .. Seen : Claim(k)' = Claim(k)
           /\ IndexExact' /\ AutoNeverClashes' /\ (SomeClash' <=> SomeClash)
<1>1. Roles' = Roles /\ Available' = Available
  BY DEF Roles, Available
<1>2. \A k : Claim(k)' = Claim(k)
  BY <1>1 DEF Claim
<1>3. \A k, l : Clash(k, l)' <=> Clash(k, l)
  BY <1>1, <1>2 DEF Clash
<1>4. IndexExact'
  BY <1>1 DEF IInv, IndexExact
<1>5. AutoNeverClashes'
  BY <1>1, <1>3 DEF IInv, AutoNeverClashes, Explicit
<1>6. SomeClash' <=> SomeClash
  BY <1>1, <1>3 DEF SomeClash
<1> QED
  BY <1>1, <1>2, <1>4, <1>5, <1>6

(* An error return keeps every local, so the invariant of the state it was *)
(* decided in.                                                             *)
LEMMA RefuseStep ==
    ASSUME IInv, UNCHANGED input, NEW why \in Errors, Refuse(why),
           why = "overlap" => phase = "disjoint" /\ SomeClash
    PROVE  IInv'
<1>1. UNCHANGED <<input, phase, i, locals>> /\ err' = why
  BY DEF Refuse
<1>2. Roles' = Roles /\ Seen' = Seen
  BY <1>1 DEF Roles, Seen
<1>3. /\ IndexExact' /\ AutoNeverClashes' /\ (SomeClash' <=> SomeClash)
      /\ \A k \in 1 .. Seen : Claim(k)' = Claim(k)
  BY <1>1, <1>2, SameClaims DEF locals
<1>4. TypeOK'
  BY <1>1 DEF IInv, TypeOK, locals, Available
<1>5. ClaimsInOrder'
  BY <1>1, <1>2, <1>3 DEF IInv, ClaimsInOrder, Explicit, Automatic, Pending
<1>6. RemainingIsFree'
  BY <1>1, <1>2, <1>3 DEF IInv, RemainingIsFree, locals
<1>7. PoolIsShareable'
  BY <1>1, <1>2, <1>3 DEF IInv, PoolIsShareable, Explicit, locals
<1>8. CheckedAtEnd'
  BY <1>1, <1>3 DEF IInv, CheckedAtEnd
<1> QED
  BY <1>1, <1>3, <1>4, <1>5, <1>6, <1>7, <1>8 DEF IInv

(* A step that only moves on: to the next iteration, past a role that      *)
(* claims nothing in this loop, or to a loop with an invariant to start.   *)
LEMMA MoveStep ==
    ASSUME IInv, UNCHANGED <<input, err, alloc, housekeeping>>,
           err = "none", phase # "validate", phase' \in Phases \ {"validate"},
           i' \in Nat \ {0},
           remaining' = remaining, exclusiveTaken' \subseteq Core,
           nonexPool' \subseteq Available,
           phase' = "explicit" => phase = "explicit" /\ i' = i + 1 /\ Automatic(i),
           phase = "explicit" /\ phase' # "explicit" => i > Len(Roles),
           phase' \in {"exclusive", "shared", "leftovers"} =>
               phase \in {"explicit", "exclusive", "shared", "leftovers"},
           phase' = "shared" => \/ phase = "shared" /\ nonexPool' = nonexPool
                                \/ nonexPool' = remaining,
           phase' \in {"smt", "done"} => ~SomeClash
    PROVE  IInv'
<1>1. Roles' = Roles /\ Available' = Available
  BY DEF Roles, Available
<1>2. Seen = Len(Roles) /\ Seen' = Seen
  BY <1>1 DEF Seen, Phases
<1>3. /\ IndexExact' /\ AutoNeverClashes' /\ (SomeClash' <=> SomeClash)
      /\ \A k \in 1 .. Seen : Claim(k)' = Claim(k)
  BY <1>2, SameClaims
<1>4. TypeOK'
  BY <1>1 DEF IInv, TypeOK
<1>5. ClaimsInOrder'
  <2> SUFFICES ASSUME NEW k \in 1 .. Seen, Explicit(k)
               PROVE  Pending(k)' <=> Pending(k)
    BY <1>1, <1>2, <1>3 DEF IInv, ClaimsInOrder, Explicit, Automatic
  <2>1. k \in Nat /\ i \in Nat /\ k <= Len(Roles) /\ Len(Roles) \in Nat
    BY <1>2, ArgumentTypes DEF IInv, TypeOK
  <2>2. CASE phase' = "explicit"
    <3>1. k # i /\ phase = "explicit" /\ i' = i + 1
      BY <2>2 DEF Explicit, Automatic
    <3> QED
      BY <2>1, <2>2, <3>1 DEF Pending
  <2>3. CASE phase' # "explicit"
    BY <2>1, <2>3 DEF Pending
  <2> QED
    BY <2>2, <2>3
<1>6. RemainingIsFree'
  BY <1>2, <1>3 DEF IInv, RemainingIsFree
<1>7. PoolIsShareable'
  BY <1>1, <1>2, <1>3 DEF IInv, PoolIsShareable, RemainingIsFree, Explicit
<1>8. CheckedAtEnd' /\ err' # "overlap"
  BY <1>3 DEF CheckedAtEnd
<1> QED
  BY <1>3, <1>4, <1>5, <1>6, <1>7, <1>8 DEF IInv

LEMMA SkipStep ==
    ASSUME IInv, UNCHANGED input, err = "none", phase \in {"explicit", "exclusive", "shared"},
           phase = "explicit" => Automatic(i), Skip
    PROVE  IInv'
<1>1. UNCHANGED <<phase, err, locals>> /\ i' = i + 1
  BY DEF Skip, NextRole
<1> QED
  BY <1>1, MoveStep DEF IInv, TypeOK, locals, Phases

-----------------------------------------------------------------------------
(* The validation pass                                                     *)

LEMMA ValidateRoleStep == ASSUME IInv, ValidateRole PROVE IInv'
<1> DEFINE r == Roles[i]
<1>1. CASE Refuse("malformed")
  BY <1>1, RefuseStep DEF ValidateRole, AtRole, In, Errors
<1>2. CASE ~Refuse("malformed")
  <2>1. /\ phase = "validate" /\ err = "none" /\ i <= Len(Roles)
        /\ UNCHANGED <<input, phase, err, remaining, exclusiveTaken, nonexPool, warnings>>
        /\ i' = i + 1
        /\ alloc' = [n \in DOMAIN alloc \cup {r.name} |->
                         IF n = r.name THEN {} ELSE alloc[n]]
        /\ housekeeping' = IF r.housekeeping THEN r.name ELSE housekeeping
        /\ r.name # NoName /\ r.name \notin DOMAIN alloc
    BY <1>2 DEF ValidateRole, AtRole, In, NextRole, Malformed
  <2>2. Roles' = Roles /\ Available' = Available
    BY <2>1 DEF Roles, Available
  <2>3. i \in 1 .. Len(Roles) /\ Len(Roles) \in Nat
    BY <2>1, ArgumentTypes DEF IInv, TypeOK
  <2>4. Seen = i - 1 /\ Seen' = i
    BY <2>1, <2>3 DEF Seen
  <2>5. r.name \in Name
    BY <2>1, <2>3, ArgumentTypes DEF IInv, TypeOK, Role
  <2>6. \A k \in 1 .. i : Claim(k)' = {}
    <3>1. \A k \in 1 .. (i - 1) : Roles[k].name \in DOMAIN alloc /\ alloc[Roles[k].name] = {}
      BY <2>1, <2>4 DEF IInv, IndexExact, ClaimsInOrder, Claim, Pending, Explicit, Automatic
    <3>2. \A k \in 1 .. i : k \in 1 .. (i - 1) \/ k = i
      BY <2>3
    <3> QED
      BY <2>1, <2>2, <3>1, <3>2 DEF Claim
  <2>7. TypeOK'
    BY <2>1, <2>2, <2>5 DEF IInv, TypeOK
  <2>8. IndexExact'
    <3>1. \A k \in 1 .. i : k \in 1 .. (i - 1) \/ k = i
      BY <2>3
    <3>2. DOMAIN alloc' = {Roles[k].name : k \in 1 .. i}
      BY <2>1, <2>3, <2>4, <3>1 DEF IInv, IndexExact
    <3>3. \A k, l \in 1 .. i : Roles[k].name = Roles[l].name => k = l
      BY <2>1, <2>3, <2>4, <3>1 DEF IInv, IndexExact
    <3>4. housekeeping' # NoName => \E k \in 1 .. i : Roles[k].name = housekeeping'
      BY <2>1, <2>3, <2>4 DEF IInv, IndexExact
    <3> QED
      BY <2>2, <2>3, <2>4, <3>2, <3>3, <3>4 DEF IndexExact
  <2>9. ClaimsInOrder' /\ AutoNeverClashes'
    BY <2>1, <2>4, <2>6 DEF ClaimsInOrder, AutoNeverClashes, Clash, Pending
  <2>10. RemainingIsFree' /\ PoolIsShareable' /\ CheckedAtEnd' /\ err' # "overlap"
    BY <2>1 DEF RemainingIsFree, PoolIsShareable, CheckedAtEnd
  <2> QED
    BY <2>7, <2>8, <2>9, <2>10 DEF IInv
<1> QED
  BY <1>1, <1>2

LEMMA ValidatedStep == ASSUME IInv, Validated PROVE IInv'
<1>1. /\ phase = "validate" /\ phase' = "explicit" /\ err = "none" /\ i > Len(Roles) /\ i' = 1
      /\ UNCHANGED <<input, err, alloc, housekeeping, exclusiveTaken, nonexPool, warnings>>
      /\ remaining' = Available
  BY DEF Validated, AtEnd, In, Enter
<1>2. Roles' = Roles /\ Available' = Available
  BY <1>1 DEF Roles, Available
<1>3. Seen = Len(Roles) /\ Seen' = Len(Roles)
  BY <1>1, <1>2, ArgumentTypes DEF IInv, TypeOK, IndexExact, Seen
<1>4. /\ IndexExact' /\ AutoNeverClashes'
      /\ \A k \in 1 .. Seen : Claim(k)' = Claim(k)
  BY <1>1, <1>3, SameClaims
<1>5. TypeOK'
  BY <1>1, <1>2 DEF IInv, TypeOK, Phases
<1>6. \A k \in 1 .. Seen : Claim(k)' = {}
  BY <1>1, <1>4 DEF IInv, ClaimsInOrder, Pending, Explicit, Automatic
<1>7. ClaimsInOrder' /\ RemainingIsFree'
  BY <1>1, <1>2, <1>3, <1>6, ArgumentTypes DEF IInv, TypeOK, ClaimsInOrder, RemainingIsFree, Pending
<1>8. PoolIsShareable' /\ CheckedAtEnd' /\ err' # "overlap"
  BY <1>1 DEF PoolIsShareable, CheckedAtEnd
<1> QED
  BY <1>4, <1>5, <1>7, <1>8 DEF IInv

-----------------------------------------------------------------------------
(* Steps that give a role its cores                                        *)

LEMMA AssignStep ==
    ASSUME IInv, UNCHANGED <<input, housekeeping>>,
           phase # "validate", phase' # "validate",
           NEW k \in 1 .. Len(Roles), NEW set, Assign(Roles[k].name, set)
    PROVE  /\ Roles' = Roles /\ Available' = Available
           /\ Seen = Len(Roles) /\ Seen' = Len(Roles)
           /\ \A l \in 1 .. Seen : Claim(l)' = IF l = k THEN set ELSE Claim(l)
           /\ IndexExact'
           /\ set \subseteq Core => /\ DOMAIN alloc' \subseteq Name
                                   /\ alloc' \in [DOMAIN alloc' -> SUBSET Core]
                                   /\ DOMAIN alloc' = DOMAIN alloc
<1>1. Roles' = Roles /\ Available' = Available
  BY DEF Roles, Available
<1>2. Seen = Len(Roles) /\ Seen' = Len(Roles)
  BY <1>1 DEF Seen
<1>3. Roles[k].name \in DOMAIN alloc /\ DOMAIN alloc' = DOMAIN alloc
  BY <1>2 DEF Assign, IInv, IndexExact
<1>4. \A l \in 1 .. Seen : Claim(l)' = IF l = k THEN set ELSE Claim(l)
  BY <1>1, <1>2, <1>3 DEF Assign, Claim, IInv, IndexExact
<1>5. IndexExact'
  BY <1>1, <1>2, <1>3 DEF IInv, IndexExact
<1>6. set \subseteq Core => alloc' \in [DOMAIN alloc' -> SUBSET Core]
  BY <1>3 DEF Assign, IInv, TypeOK
<1> QED
  BY <1>1, <1>2, <1>3, <1>4, <1>5, <1>6 DEF IInv, TypeOK

(* A set that meets no claim it may not meet keeps automatic allocations   *)
(* clear of every clash.                                                   *)
LEMMA AssignClear ==
    ASSUME IInv, UNCHANGED <<input, housekeeping>>,
           phase # "validate", phase' # "validate",
           NEW k \in 1 .. Len(Roles), NEW set, Assign(Roles[k].name, set),
           \A l \in 1 .. Len(Roles) :
               l # k /\ (Roles[k].exclusive \/ Roles[l].exclusive)
                   => set \cap Claim(l) = {} \/ (Explicit(k) /\ Explicit(l))
    PROVE  AutoNeverClashes'
<1>1. /\ Roles' = Roles /\ Seen = Len(Roles) /\ Seen' = Seen
      /\ \A l \in 1 .. Seen : Claim(l)' = IF l = k THEN set ELSE Claim(l)
  BY AssignStep
<1>2. SUFFICES ASSUME NEW x \in 1 .. Seen, NEW y \in 1 .. Seen, x # y, Clash(x, y)'
               PROVE  Explicit(x) /\ Explicit(y)
  BY <1>1 DEF AutoNeverClashes, Explicit
<1>3. /\ Roles[x].exclusive \/ Roles[y].exclusive
      /\ Claim(x)' \cap Claim(y)' # {}
  BY <1>1, <1>2 DEF Clash
<1>4. CASE x = k
  BY <1>1, <1>2, <1>3, <1>4
<1>5. CASE y = k
  BY <1>1, <1>2, <1>3, <1>5
<1>6. CASE x # k /\ y # k
  BY <1>1, <1>2, <1>3, <1>6 DEF IInv, AutoNeverClashes, Clash
<1> QED
  BY <1>4, <1>5, <1>6

LEMMA ClaimExplicitStep == ASSUME IInv, ClaimExplicit PROVE IInv'
<1> DEFINE r == Roles[i]
<1>1. /\ phase = "explicit" /\ err = "none" /\ i <= Len(Roles) /\ UNCHANGED input
  BY DEF ClaimExplicit, AtRole, In
<1>2. CASE r.cores = {} /\ Skip
  BY <1>1, <1>2, SkipStep DEF Automatic, Explicit
<1>3. CASE Refuse("outside")
  BY <1>1, <1>3, RefuseStep DEF Errors
<1>4. CASE ~(r.cores = {} /\ Skip) /\ ~Refuse("outside")
  <2>1. /\ r.cores # {} /\ r.cores \subseteq Available
        /\ Assign(r.name, r.cores)
        /\ remaining' = remaining \ r.cores
        /\ i' = i + 1
        /\ UNCHANGED <<phase, err, housekeeping, exclusiveTaken, nonexPool, warnings>>
    BY <1>4 DEF ClaimExplicit, NextRole
  <2>2. i \in 1 .. Len(Roles) /\ Len(Roles) \in Nat /\ r.cores \subseteq Core
    BY <1>1, ArgumentTypes DEF IInv, TypeOK
  <2>3. /\ Roles' = Roles /\ Available' = Available
        /\ Seen = Len(Roles) /\ Seen' = Len(Roles)
        /\ \A l \in 1 .. Seen : Claim(l)' = IF l = i THEN r.cores ELSE Claim(l)
        /\ IndexExact'
        /\ DOMAIN alloc' \subseteq Name /\ DOMAIN alloc' = DOMAIN alloc
        /\ alloc' \in [DOMAIN alloc' -> SUBSET Core]
    BY <1>1, <2>1, <2>2, AssignStep
  <2>4. TypeOK'
    BY <1>1, <2>1, <2>2, <2>3 DEF IInv, TypeOK
  <2>5. AutoNeverClashes'
    <3>1. \A l \in 1 .. Len(Roles) : Explicit(l) \/ Claim(l) = {}
      BY <1>1, <2>3 DEF IInv, ClaimsInOrder, Automatic, Explicit
    <3> QED
      BY <1>1, <2>1, <2>2, <3>1, AssignClear DEF Explicit
  <2>6. ClaimsInOrder'
    <3> SUFFICES ASSUME NEW l \in 1 .. Seen
                 PROVE  /\ Explicit(l) => Claim(l)' = IF l >= i + 1 THEN {} ELSE Roles[l].cores
                        /\ Automatic(l) => Claim(l)' = {}
      BY <1>1, <2>1, <2>3 DEF ClaimsInOrder, Explicit, Automatic, Pending
    <3>1. CASE l = i
      BY <2>1, <2>2, <2>3, <3>1 DEF Explicit, Automatic
    <3>2. CASE l # i
      BY <1>1, <2>2, <2>3, <3>2 DEF IInv, ClaimsInOrder, Pending
    <3> QED
      BY <3>1, <3>2
  <2>7. RemainingIsFree'
    BY <1>1, <2>1, <2>3 DEF IInv, RemainingIsFree
  <2>8. PoolIsShareable' /\ CheckedAtEnd' /\ err' # "overlap"
    BY <1>1, <2>1 DEF PoolIsShareable, CheckedAtEnd
  <2> QED
    BY <2>3, <2>4, <2>5, <2>6, <2>7, <2>8 DEF IInv
<1> QED
  BY <1>2, <1>3, <1>4

(* A set taken from the free cores, or for a role that is not exclusive    *)
(* from the shareable pool, keeps the invariant of the loop.               *)
LEMMA GiveStep ==
    ASSUME IInv, UNCHANGED <<input, housekeeping, phase, err, nonexPool>>, err = "none",
           phase \in {"exclusive", "shared"}, i <= Len(Roles), i' = i + 1,
           Automatic(i), NEW set, Assign(Roles[i].name, set),
           set \subseteq (IF phase = "exclusive" THEN remaining ELSE remaining \cup nonexPool),
           phase = "shared" => ~Roles[i].exclusive,
           remaining' = remaining \ set,
           exclusiveTaken' \subseteq Core
    PROVE  IInv'
<1>1. i \in 1 .. Len(Roles) /\ Len(Roles) \in Nat /\ Available \subseteq Core
  BY ArgumentTypes DEF IInv, TypeOK
<1>2. set \subseteq Core /\ set \subseteq Available
  BY <1>1 DEF IInv, TypeOK
<1>3. /\ Roles' = Roles /\ Available' = Available
      /\ Seen = Len(Roles) /\ Seen' = Len(Roles)
      /\ \A l \in 1 .. Seen : Claim(l)' = IF l = i THEN set ELSE Claim(l)
      /\ IndexExact'
      /\ DOMAIN alloc' \subseteq Name /\ DOMAIN alloc' = DOMAIN alloc
      /\ alloc' \in [DOMAIN alloc' -> SUBSET Core]
  BY <1>1, <1>2, AssignStep
<1>4. TypeOK'
  BY <1>1, <1>2, <1>3 DEF IInv, TypeOK
<1>5. AutoNeverClashes'
  <2>1. \A l \in 1 .. Len(Roles) :
            l # i /\ (Roles[i].exclusive \/ Roles[l].exclusive) => set \cap Claim(l) = {}
    BY <1>3 DEF IInv, RemainingIsFree, PoolIsShareable
  <2> QED
    BY <1>1, <2>1, AssignClear
<1>6. ClaimsInOrder'
  BY <1>1, <1>3 DEF IInv, ClaimsInOrder, Explicit, Automatic, Pending
<1>7. RemainingIsFree'
  BY <1>3 DEF IInv, RemainingIsFree
<1>8. PoolIsShareable'
  BY <1>1, <1>3 DEF IInv, PoolIsShareable, Explicit, Automatic
<1>9. CheckedAtEnd' /\ err' # "overlap"
  BY DEF CheckedAtEnd
<1> QED
  BY <1>3, <1>4, <1>5, <1>6, <1>7, <1>8, <1>9 DEF IInv

LEMMA AllocExclusiveStep == ASSUME IInv, AllocExclusive PROVE IInv'
<1>1. /\ phase = "exclusive" /\ err = "none" /\ i <= Len(Roles) /\ UNCHANGED input
  BY DEF AllocExclusive, AtRole, In
<1>2. CASE Skip
  BY <1>1, <1>2, SkipStep
<1>3. CASE Refuse("noExclusive")
  BY <1>1, <1>3, RefuseStep DEF Errors
<1>4. CASE ~Skip /\ ~Refuse("noExclusive")
  <2>1. PICK set \in PickExclusive(remaining, Roles[i].threads, Siblings, exclusiveTaken) :
            /\ Assign(Roles[i].name, set)
            /\ exclusiveTaken' = exclusiveTaken \cup set
            /\ remaining' = remaining \ set
    BY <1>4 DEF AllocExclusive
  <2>2. /\ AutoExclusive(Roles[i]) /\ i' = i + 1
        /\ UNCHANGED <<phase, err, housekeeping, nonexPool, warnings>>
    BY <1>4 DEF AllocExclusive, NextRole
  <2>3. Automatic(i)
    BY <2>2 DEF AutoExclusive, Automatic, Explicit
  <2>4. set \subseteq remaining /\ set \subseteq Core
    BY <2>1, PickExclusiveSubset, ArgumentTypes DEF IInv, TypeOK
  <2>5. exclusiveTaken' \subseteq Core
    BY <2>1, <2>4 DEF IInv, TypeOK
  <2> QED
    BY <1>1, <2>1, <2>2, <2>3, <2>4, <2>5, GiveStep
<1> QED
  BY <1>2, <1>3, <1>4

LEMMA AllocSharedStep == ASSUME IInv, AllocShared PROVE IInv'
<1> DEFINE r == Roles[i]
           wrap == TakeShared(remaining, nonexPool, r.threads)
<1>1. /\ phase = "shared" /\ err = "none" /\ i <= Len(Roles) /\ UNCHANGED input
  BY DEF AllocShared, AtRole, In
<1>2. CASE Skip
  BY <1>1, <1>2, SkipStep
<1>3. CASE Refuse("noShared")
  BY <1>1, <1>3, RefuseStep DEF Errors
<1>4. ASSUME NEW set \in {FirstN(remaining, r.threads), wrap},
             AutoShared(r), GiveShared(r, set)
      PROVE  IInv'
  <2>1. set \subseteq remaining \cup nonexPool
    BY <1>4, FirstNSubset, TakeSharedSubset
  <2>2. /\ Assign(r.name, set) /\ remaining' = remaining \ set /\ i' = i + 1
        /\ UNCHANGED <<phase, err, housekeeping, exclusiveTaken, nonexPool>>
    BY <1>4 DEF GiveShared, NextRole
  <2>3. Automatic(i) /\ ~r.exclusive
    BY <1>4 DEF AutoShared, Automatic, Explicit
  <2>4. exclusiveTaken' \subseteq Core
    BY <2>2 DEF IInv, TypeOK
  <2> QED
    BY <1>1, <2>1, <2>2, <2>3, <2>4, GiveStep
<1> QED
  BY <1>2, <1>3, <1>4 DEF AllocShared

LEMMA AllocHousekeepingStep == ASSUME IInv, AllocHousekeeping PROVE IInv'
<1>1. phase = "leftovers" /\ err = "none" /\ UNCHANGED input
  BY DEF AllocHousekeeping, In
<1>2. CASE Refuse("noLeftovers")
  BY <1>1, <1>2, RefuseStep DEF Errors
<1>3. CASE Enter("disjoint") /\ UNCHANGED locals
  BY <1>1, <1>3, MoveStep DEF Enter, locals, IInv, TypeOK, Phases
<1>4. CASE /\ WantsLeftovers /\ Assign(housekeeping, remaining) /\ Enter("disjoint")
           /\ UNCHANGED <<housekeeping, remaining, exclusiveTaken, nonexPool, warnings>>
  <2>1. phase' = "disjoint" /\ i' = 1 /\ err' = "none"
    BY <1>1, <1>4 DEF Enter
  <2>2. Seen = Len(Roles) /\ Len(Roles) \in Nat /\ Available \subseteq Core
    BY <1>1, ArgumentTypes DEF Seen, IInv, TypeOK
  <2>3. PICK k \in 1 .. Len(Roles) : Roles[k].name = housekeeping
    BY <1>4, <2>2 DEF IInv, IndexExact, WantsLeftovers
  <2>4. Claim(k) = {}
    BY <1>4, <2>3 DEF WantsLeftovers, Claim
  <2>5. remaining \subseteq Core /\ Assign(Roles[k].name, remaining)
    BY <1>4, <2>2, <2>3 DEF IInv, TypeOK
  <2>6. /\ Roles' = Roles /\ Available' = Available
        /\ Seen' = Len(Roles)
        /\ \A l \in 1 .. Seen : Claim(l)' = IF l = k THEN remaining ELSE Claim(l)
        /\ IndexExact'
        /\ DOMAIN alloc' \subseteq Name /\ DOMAIN alloc' = DOMAIN alloc
        /\ alloc' \in [DOMAIN alloc' -> SUBSET Core]
    BY <1>1, <1>4, <2>1, <2>5, AssignStep
  <2>7. AutoNeverClashes'
    BY <1>1, <1>4, <2>1, <2>2, <2>5, AssignClear DEF IInv, RemainingIsFree
  <2>8. TypeOK'
    BY <1>1, <1>4, <2>1, <2>6 DEF IInv, TypeOK, Phases
  <2>9. Automatic(k)
    \* An explicit housekeeping role already holds its cores.
    BY <1>1, <2>2, <2>4 DEF IInv, ClaimsInOrder, Explicit, Automatic, Pending
  <2>10. ClaimsInOrder'
    BY <1>1, <2>1, <2>2, <2>6, <2>9 DEF IInv, ClaimsInOrder, Explicit, Automatic, Pending
  <2>11. RemainingIsFree' /\ PoolIsShareable' /\ CheckedAtEnd' /\ err' # "overlap"
    BY <2>1 DEF RemainingIsFree, PoolIsShareable, CheckedAtEnd
  <2> QED
    BY <2>6, <2>7, <2>8, <2>10, <2>11 DEF IInv
<1> QED
  BY <1>2, <1>3, <1>4 DEF AllocHousekeeping

-----------------------------------------------------------------------------
(* Every step                                                              *)

LEMMA LoopEndStep ==
    ASSUME IInv, ExplicitClaimed \/ ExclusiveAllocated \/ SharedAllocated
    PROVE  IInv'
<1>1. CASE ExplicitClaimed
  <2>1. \A k \in ExplicitExclusive : Roles[k].cores \subseteq Core
    BY ArgumentTypes DEF IInv, TypeOK, ExplicitExclusive
  <2>2. exclusiveTaken' \subseteq Core
    BY <1>1, <2>1 DEF ExplicitClaimed
  <2> QED
    BY <1>1, <2>2, MoveStep DEF ExplicitClaimed, AtEnd, In, Enter, Phases, IInv, TypeOK
<1>2. CASE ExclusiveAllocated
  BY <1>2, MoveStep DEF ExclusiveAllocated, ShareablePool, AtEnd, In, Enter, Phases, IInv, TypeOK
<1>3. CASE SharedAllocated
  BY <1>3, MoveStep DEF SharedAllocated, AtEnd, In, Enter, Phases, IInv, TypeOK, locals
<1> QED
  BY <1>1, <1>2, <1>3

LEMMA ReturnStep ==
    ASSUME IInv, CheckExclusivity \/ WarnSMT
    PROVE  IInv'
<1>1. CASE CheckExclusivity /\ SomeClash /\ Refuse("overlap")
  BY <1>1, RefuseStep DEF CheckExclusivity, In, Errors
<1>2. CASE CheckExclusivity /\ ~SomeClash
  BY <1>2, MoveStep DEF CheckExclusivity, In, Enter, Phases, IInv, TypeOK, locals
<1>3. CASE WarnSMT
  BY <1>3, MoveStep DEF WarnSMT, In, Enter, Phases, IInv, TypeOK, CheckedAtEnd
<1> QED
  BY <1>1, <1>2, <1>3 DEF CheckExclusivity

LEMMA StutterStep == ASSUME IInv, UNCHANGED vars PROVE IInv'
<1>1. Seen' = Seen /\ UNCHANGED <<input, phase, i, err, locals>>
  BY DEF vars, Seen, Roles
<1>2. CASE err = "none"
  <2>1. err' \in Errors /\ Refuse("none")
    BY <1>1, <1>2 DEF Refuse, Errors
  <2> QED
    BY <1>1, <2>1, RefuseStep DEF Errors
<1>3. CASE err # "none"
  <2>1. err \in Errors /\ Refuse(err)
    BY <1>1 DEF Refuse, IInv, TypeOK
  <2> QED
    BY <1>1, <2>1, RefuseStep DEF IInv
<1> QED
  BY <1>2, <1>3

LEMMA NextIInv == ASSUME IInv, [Next]_vars PROVE IInv'
<1>1. CASE RefuseEmpty
  BY <1>1, RefuseStep DEF RefuseEmpty, In, Errors
<1>2. CASE ValidateRole
  BY <1>2, ValidateRoleStep
<1>3. CASE Validated
  BY <1>3, ValidatedStep
<1>4. CASE ClaimExplicit
  BY <1>4, ClaimExplicitStep
<1>5. CASE ExplicitClaimed \/ ExclusiveAllocated \/ SharedAllocated
  BY <1>5, LoopEndStep
<1>6. CASE AllocExclusive
  BY <1>6, AllocExclusiveStep
<1>7. CASE AllocShared
  BY <1>7, AllocSharedStep
<1>8. CASE AllocHousekeeping
  BY <1>8, AllocHousekeepingStep
<1>9. CASE CheckExclusivity \/ WarnSMT
  BY <1>9, ReturnStep
<1>10. CASE Terminated \/ UNCHANGED vars
  BY <1>10, StutterStep DEF Terminated
<1> QED
  BY <1>1, <1>2, <1>3, <1>4, <1>5, <1>6, <1>7, <1>8, <1>9, <1>10 DEF Next

-----------------------------------------------------------------------------
(* The allocator's locals stay in their types and its claims in order, on  *)
(* any machine and for any Spec (buildPlan, plan.go:46-193).               *)
THEOREM PlannerInvariant == Spec => []IInv
<1>1. Init => IInv
  BY InitIInv
<1>2. IInv /\ [Next]_vars => IInv'
  BY NextIInv
<1> QED
  BY <1>1, <1>2, PTL DEF Spec

THEOREM PlannerTypes == Spec => []TypeOK
<1>1. IInv => TypeOK
  BY DEF IInv
<1> QED
  BY <1>1, PlannerInvariant, PTL

(* A finished plan isolates its exclusive roles (plan.go:23).              *)
THEOREM PlannerIsolates == Spec => []ExclusiveIsolation
<1>1. IInv => ExclusiveIsolation
  <2> SUFFICES ASSUME IInv, Planned, NEW k \in RoleIds, NEW l \in RoleIds,
                      k # l, Roles[k].exclusive
               PROVE  Claim(k) \cap Claim(l) = {}
    BY DEF ExclusiveIsolation
  <2>1. ~SomeClash
    BY DEF IInv, CheckedAtEnd, Planned
  <2>2. k \in Nat /\ l \in Nat
    BY ArgumentTypes DEF IInv, TypeOK, RoleIds
  <2>3. k < l \/ l < k
    BY <2>2
  <2> QED
    BY <2>1, <2>3 DEF SomeClash, Clash, RoleIds
<1> QED
  BY <1>1, PlannerInvariant, PTL

(* The validation of plan.go:163-181 only ever refuses two explicit core   *)
(* lists: automatic allocation cannot break the isolation of a role.       *)
THEOREM PlannerClashesAreExplicit == Spec => []ClashOnlyFromExplicit
<1>1. IInv => ClashOnlyFromExplicit
  <2> SUFFICES ASSUME IInv, err = "overlap"
               PROVE  \E k, l \in RoleIds : /\ k # l /\ Roles[k].exclusive
                                            /\ Roles[k].cores \cap Roles[l].cores # {}
    BY DEF ClashOnlyFromExplicit
  <2>1. phase = "disjoint" /\ SomeClash
    BY DEF IInv
  <2>2. Seen = Len(Roles) /\ RoleIds = 1 .. Len(Roles) /\ Len(Roles) \in Nat
    BY <2>1, ArgumentTypes DEF IInv, TypeOK, Seen, RoleIds
  <2>3. PICK k, l \in RoleIds : k < l /\ Clash(k, l)
    BY <2>1 DEF SomeClash, RoleIds
  <2>4. k # l /\ Explicit(k) /\ Explicit(l)
    BY <2>2, <2>3 DEF IInv, AutoNeverClashes
  <2>5. Claim(k) = Roles[k].cores /\ Claim(l) = Roles[l].cores
    BY <2>1, <2>2, <2>4 DEF IInv, ClaimsInOrder, Pending
  <2> QED
    BY <2>3, <2>4, <2>5 DEF Clash
<1> QED
  BY <1>1, PlannerInvariant, PTL

-----------------------------------------------------------------------------
(* Every role of a finished plan has a core: the other half of what        *)
(* Affinity assumes of a plan.  The pickers never return nothing when      *)
(* something was asked for.                                                *)

LEMMA LowestCore ==
    ASSUME NEW S, S \subseteq Nat, S # {}
    PROVE  \E c \in S : Below(S, c) = {}
<1>1. IsWellFoundedOn(OpToRel(<, Nat), Nat)
  BY NatLessThanWellFounded
<1>2. PICK c \in S : \A d \in S : ~(<<d, c>> \in OpToRel(<, Nat))
  BY <1>1, WFMin
<1>3. \A d \in S : ~(d < c)
  BY <1>2 DEF OpToRel
<1> QED
  BY <1>3 DEF Below

LEMMA FirstNNonEmpty ==
    ASSUME NEW S, S \subseteq Nat, S # {}, NEW n \in Nat, n > 0
    PROVE  FirstN(S, n) # {}
<1>1. PICK c \in S : Below(S, c) = {}
  BY LowestCore
<1>2. Cardinality(Below(S, c)) < n
  BY <1>1, FS_EmptySet
<1> QED
  BY <1>2 DEF FirstN

LEMMA EnoughIsSome ==
    ASSUME NEW S, NEW n \in Nat, n > 0, Cardinality(S) >= n
    PROVE  S # {}
BY FS_EmptySet

LEMMA PickExclusiveNonEmpty ==
    ASSUME NEW pool, pool \subseteq Nat, pool # {}, NEW n \in Nat, n > 0,
           NEW siblings, NEW avoid, NEW set \in PickExclusive(pool, n, siblings, avoid)
    PROVE  set # {}
<1>1. PICK G \in SUBSET pool : set = G \cup FirstN(pool \ G, n - Cardinality(G))
  BY DEF PickExclusive
<1>2. CASE G = {}
  <2>1. pool \ G = pool /\ n - Cardinality(G) = n
    BY <1>2, FS_EmptySet
  <2> QED
    BY <1>1, <2>1, FirstNNonEmpty
<1> QED
  BY <1>1, <1>2

-----------------------------------------------------------------------------
LEMMA InitServed == Init => ServedInv
<1> SUFFICES ASSUME Init PROVE ServedInv
  OBVIOUS
<1>1. Seen = 0 /\ phase = "validate"
  BY DEF Init, Seen
<1> QED
  BY <1>1 DEF ServedInv, RolesSound, ClaimsAvailable, Served, HousekeeperServed, ServedInTurn

(* Steps that change no claim: the loops may move on past roles that need  *)
(* nothing.                                                                *)
LEMMA ServedMoves ==
    ASSUME IInv, ServedInv, UNCHANGED <<input, alloc, housekeeping>>, Seen' = Seen,
           \A k \in 1 .. Seen :
              /\ AutoExclusive(Roles[k]) /\ PastExclusive(k)' => PastExclusive(k)
              /\ AutoShared(Roles[k]) /\ PastShared(k)' => PastShared(k)
              /\ PastExclusive(k) => PastExclusive(k)'
              /\ PastShared(k) => PastShared(k)',
           phase \in {"disjoint", "smt", "done"} => phase' \in {"disjoint", "smt", "done"},
           phase' \in {"disjoint", "smt", "done"} =>
              phase \in {"disjoint", "smt", "done"} \/ ~WantsLeftovers
    PROVE  ServedInv'
<1>1. Roles' = Roles /\ Available' = Available
  BY DEF Roles, Available
<1>2. \A k \in 1 .. Seen : Claim(k)' = Claim(k)
  BY <1>1 DEF Claim
<1>3. RolesSound' /\ ClaimsAvailable'
  BY <1>1, <1>2 DEF ServedInv, RolesSound, ClaimsAvailable, Automatic, Explicit
<1>4. Served'
  BY <1>1, <1>2 DEF ServedInv, Served
<1>5. HousekeeperServed'
  BY DEF ServedInv, HousekeeperServed, WantsLeftovers
<1>6. ServedInTurn'
  BY <1>1, <1>2 DEF ServedInv, ServedInTurn, Automatic, Explicit
<1> QED
  BY <1>3, <1>4, <1>5, <1>6 DEF ServedInv

LEMMA RefuseServed == ASSUME IInv, ServedInv, UNCHANGED input, NEW why, Refuse(why)
                      PROVE  ServedInv'
<1>1. UNCHANGED <<input, phase, i, alloc, housekeeping>>
  BY DEF Refuse, locals
<1>2. Seen' = Seen
  BY <1>1 DEF Seen, Roles
<1>3. \A k : (PastExclusive(k)' <=> PastExclusive(k)) /\ (PastShared(k)' <=> PastShared(k))
  BY <1>1 DEF PastExclusive, PastShared
<1> QED
  BY <1>1, <1>2, <1>3, ServedMoves

LEMMA ValidateServed == ASSUME IInv, ServedInv, ValidateRole PROVE ServedInv'
<1> DEFINE r == Roles[i]
<1>1. CASE Refuse("malformed")
  BY <1>1, RefuseServed DEF ValidateRole, AtRole, In
<1>2. CASE ~Refuse("malformed")
  <2>1. /\ phase = "validate" /\ phase' = "validate" /\ i <= Len(Roles) /\ i' = i + 1
        /\ input' = input /\ ~Malformed(r)
        /\ alloc' = [n \in DOMAIN alloc \cup {r.name} |->
                         IF n = r.name THEN {} ELSE alloc[n]]
        /\ housekeeping' = IF r.housekeeping THEN r.name ELSE housekeeping
    BY <1>2 DEF ValidateRole, AtRole, In, NextRole
  <2>2. Roles' = Roles /\ Available' = Available
    BY <2>1 DEF Roles, Available
  <2>3. i \in 1 .. Len(Roles) /\ Len(Roles) \in Nat
    BY <2>1, ArgumentTypes DEF IInv, TypeOK
  <2>4. Seen = i - 1 /\ Seen' = i /\ \A k \in 1 .. i : k \in 1 .. (i - 1) \/ k = i
    BY <2>1, <2>3 DEF Seen
  <2>5. r.threads \in Int /\ r.threads >= 0
    BY <2>1, <2>3, ArgumentTypes DEF Malformed, IInv, TypeOK, Role
  <2>6. \A k \in 1 .. (i - 1) : Roles[k].name \in DOMAIN alloc /\ Roles[k].name # NoName
    BY <2>4, NameAssumption DEF IInv, IndexExact, TypeOK
  <2>7. RolesSound'
    <3> SUFFICES ASSUME NEW k \in 1 .. i
                 PROVE  /\ Roles[k].threads >= 0
                        /\ Automatic(k) /\ Roles[k].threads = 0 => Roles[k].housekeeping
                        /\ Roles[k].housekeeping => housekeeping' = Roles[k].name
      BY <2>2, <2>4 DEF RolesSound, Automatic, Explicit
    <3>1. CASE k = i
      BY <2>1, <2>5, <3>1 DEF Malformed, Automatic, Explicit
    <3>2. CASE k # i
      <4>1. k \in 1 .. Seen /\ k \in 1 .. (i - 1)
        BY <2>4, <3>2
      <4>2. /\ Roles[k].threads >= 0
            /\ Automatic(k) /\ Roles[k].threads = 0 => Roles[k].housekeeping
            /\ Roles[k].housekeeping => housekeeping = Roles[k].name
        BY <4>1 DEF ServedInv, RolesSound
      <4>3. Roles[k].housekeeping => ~r.housekeeping
        BY <2>1, <2>6, <4>1, <4>2 DEF Malformed
      <4> QED
        BY <2>1, <4>2, <4>3
    <3> QED
      BY <3>1, <3>2
  <2>8. ClaimsAvailable'
    <3> SUFFICES ASSUME NEW k \in 1 .. i PROVE Claim(k)' \subseteq Available
      BY <2>2, <2>4 DEF ClaimsAvailable
    <3>1. Roles[k].name = r.name => Claim(k)' = {}
      BY <2>1, <2>2 DEF Claim
    <3>2. Roles[k].name # r.name =>
             k \in 1 .. Seen /\ Roles[k].name \in DOMAIN alloc /\ Claim(k)' = Claim(k)
      BY <2>1, <2>2, <2>4, <2>6 DEF Claim
    <3> QED
      BY <3>1, <3>2 DEF ServedInv, ClaimsAvailable
  <2>9. Served' /\ HousekeeperServed'
    BY <2>1 DEF Served, HousekeeperServed, PastExclusive, PastShared, AfterShared
  <2>10. ServedInTurn'
    <3> SUFFICES ASSUME NEW k \in 1 .. i PROVE Claim(k)' = {} \/ ~Automatic(k)
      BY <2>2, <2>4 DEF ServedInTurn, Automatic, Explicit
    <3>1. Roles[k].name = r.name => Claim(k)' = {}
      BY <2>1, <2>2 DEF Claim
    <3>2. Roles[k].name # r.name =>
             k \in 1 .. Seen /\ Roles[k].name \in DOMAIN alloc /\ Claim(k)' = Claim(k)
      BY <2>1, <2>2, <2>4, <2>6 DEF Claim
    <3> QED
      BY <2>1, <3>1, <3>2 DEF IInv, ClaimsInOrder
  <2> QED
    BY <2>7, <2>8, <2>9, <2>10 DEF ServedInv
<1> QED
  BY <1>1, <1>2

(* A loop gives role i some of the available cores.                        *)
LEMMA ServedGives ==
    ASSUME IInv, ServedInv, UNCHANGED <<input, housekeeping, phase>>,
           phase \in {"explicit", "exclusive", "shared"}, i <= Len(Roles), i' = i + 1,
           NEW set, Assign(Roles[i].name, set), set # {}, set \subseteq Available,
           \/ Explicit(i)
           \/ phase = "exclusive" /\ AutoExclusive(Roles[i])
           \/ phase = "shared" /\ AutoShared(Roles[i])
    PROVE  ServedInv'
<1>1. i \in 1 .. Len(Roles) /\ Len(Roles) \in Nat
  BY ArgumentTypes DEF IInv, TypeOK
<1>2. /\ Roles' = Roles /\ Available' = Available
      /\ Seen = Len(Roles) /\ Seen' = Len(Roles)
      /\ \A l \in 1 .. Seen : Claim(l)' = IF l = i THEN set ELSE Claim(l)
  BY <1>1, AssignStep
<1>3. RolesSound' /\ ClaimsAvailable'
  BY <1>2 DEF ServedInv, RolesSound, ClaimsAvailable, Automatic, Explicit
<1>4. Served'
  <2> SUFFICES ASSUME NEW k \in 1 .. Seen, k # i
               PROVE  /\ AutoExclusive(Roles[k]) /\ PastExclusive(k)' => Claim(k) # {}
                      /\ AutoShared(Roles[k]) /\ PastShared(k)' => Claim(k) # {}
    BY <1>2 DEF Served
  <2>1. k < i + 1 => k < i
    BY <1>1, <1>2
  <2>2. /\ PastExclusive(k)' => PastExclusive(k)
        /\ PastShared(k)' => PastShared(k)
    BY <2>1 DEF PastExclusive, PastShared, AfterShared
  <2> QED
    BY <2>2 DEF ServedInv, Served
<1>5. HousekeeperServed'
  BY DEF HousekeeperServed
<1>6. ServedInTurn'
  <2> SUFFICES ASSUME NEW k \in 1 .. Seen, Automatic(k), Claim(k)' # {}
               PROVE  \/ AutoExclusive(Roles[k]) /\ PastExclusive(k)'
                      \/ AutoShared(Roles[k]) /\ PastShared(k)'
    BY <1>2 DEF ServedInTurn, Automatic, Explicit
  <2>1. CASE k = i
    <3>1. i < i + 1 /\ ~Explicit(i)
      BY <1>1, <2>1 DEF Automatic
    <3> QED
      BY <2>1, <3>1 DEF PastExclusive, PastShared, AfterShared
  <2>2. CASE k # i
    <3>1. Claim(k) # {} /\ (k < i => k < i + 1)
      BY <1>1, <1>2, <2>2
    <3>2. \/ AutoExclusive(Roles[k]) /\ PastExclusive(k)
          \/ AutoShared(Roles[k]) /\ PastShared(k)
      BY <3>1 DEF ServedInv, ServedInTurn
    <3> QED
      BY <3>1, <3>2 DEF PastExclusive, PastShared, AfterShared
  <2> QED
    BY <2>1, <2>2
<1> QED
  BY <1>3, <1>4, <1>5, <1>6 DEF ServedInv

LEMMA SkipServed ==
    ASSUME IInv, ServedInv, UNCHANGED input, Skip,
           phase \in {"explicit", "exclusive", "shared"}, i <= Len(Roles),
           phase = "exclusive" => ~AutoExclusive(Roles[i]),
           phase = "shared" => ~AutoShared(Roles[i])
    PROVE  ServedInv'
<1>1. UNCHANGED <<phase, alloc, housekeeping>> /\ i' = i + 1
  BY DEF Skip, NextRole, locals
<1>2. Seen = Len(Roles) /\ Seen' = Seen /\ Len(Roles) \in Nat /\ i \in Nat
  BY <1>1, ArgumentTypes DEF Seen, Roles, IInv, TypeOK
<1>3. ASSUME NEW k \in 1 .. Seen
      PROVE  /\ AutoExclusive(Roles[k]) /\ PastExclusive(k)' => PastExclusive(k)
             /\ AutoShared(Roles[k]) /\ PastShared(k)' => PastShared(k)
             /\ PastExclusive(k) => PastExclusive(k)'
             /\ PastShared(k) => PastShared(k)'
  <2>1. (k < i + 1 => k < i \/ k = i) /\ (k < i => k < i + 1)
    BY <1>2
  <2> QED
    BY <1>1, <2>1 DEF PastExclusive, PastShared, AfterShared
<1> QED
  BY <1>1, <1>2, <1>3, ServedMoves

LEMMA ClaimExplicitServed == ASSUME IInv, ServedInv, ClaimExplicit PROVE ServedInv'
<1>1. phase = "explicit" /\ i <= Len(Roles) /\ UNCHANGED input
  BY DEF ClaimExplicit, AtRole, In
<1>2. CASE Skip
  BY <1>1, <1>2, SkipServed
<1>3. CASE Refuse("outside")
  BY <1>1, <1>3, RefuseServed
<1>4. CASE ~Skip /\ ~Refuse("outside")
  <2>1. /\ Roles[i].cores # {} /\ Roles[i].cores \subseteq Available
        /\ Assign(Roles[i].name, Roles[i].cores)
        /\ i' = i + 1 /\ UNCHANGED <<phase, housekeeping>>
    BY <1>4 DEF ClaimExplicit, NextRole
  <2> QED
    BY <1>1, <2>1, ServedGives DEF Explicit
<1> QED
  BY <1>2, <1>3, <1>4

LEMMA RemainingNumbers == IInv => remaining \subseteq Nat /\ remaining \subseteq Available
BY CoreAssumption, ArgumentTypes DEF IInv, TypeOK

LEMMA ThreadsPositive ==
    ASSUME IInv, ServedInv, phase # "validate", i <= Len(Roles), Roles[i].threads # 0
    PROVE  Roles[i].threads \in Nat /\ Roles[i].threads > 0
<1>1. i \in 1 .. Len(Roles) /\ Seen = Len(Roles)
  BY ArgumentTypes DEF IInv, TypeOK, Seen
<1>2. Roles[i].threads \in Int
  BY <1>1, ArgumentTypes DEF IInv, TypeOK, Role
<1> QED
  BY <1>1, <1>2 DEF ServedInv, RolesSound

LEMMA AllocExclusiveServed == ASSUME IInv, ServedInv, AllocExclusive PROVE ServedInv'
<1>1. phase = "exclusive" /\ i <= Len(Roles) /\ UNCHANGED input
  BY DEF AllocExclusive, AtRole, In
<1>2. CASE ~AutoExclusive(Roles[i]) /\ Skip
  BY <1>1, <1>2, SkipServed
<1>3. CASE Refuse("noExclusive")
  BY <1>1, <1>3, RefuseServed
<1>4. CASE ~(~AutoExclusive(Roles[i]) /\ Skip) /\ ~Refuse("noExclusive")
  <2>1. PICK set \in PickExclusive(remaining, Roles[i].threads, Siblings, exclusiveTaken) :
            Assign(Roles[i].name, set)
    BY <1>4 DEF AllocExclusive
  <2>2. /\ AutoExclusive(Roles[i]) /\ Cardinality(remaining) >= Roles[i].threads
        /\ i' = i + 1 /\ UNCHANGED <<phase, housekeeping>>
    BY <1>4 DEF AllocExclusive, NextRole
  <2>3. Roles[i].threads \in Nat /\ Roles[i].threads > 0
    BY <1>1, <2>2, ThreadsPositive DEF AutoExclusive
  <2>4. set # {}
    BY <2>1, <2>2, <2>3, EnoughIsSome, PickExclusiveNonEmpty, RemainingNumbers
  <2>5. set \subseteq Available
    BY <2>1, PickExclusiveSubset, RemainingNumbers
  <2> QED
    BY <1>1, <2>1, <2>2, <2>4, <2>5, ServedGives
<1> QED
  BY <1>2, <1>3, <1>4

LEMMA AllocSharedServed == ASSUME IInv, ServedInv, AllocShared PROVE ServedInv'
<1> DEFINE r    == Roles[i]
           wrap == TakeShared(remaining, nonexPool, r.threads)
<1>1. phase = "shared" /\ i <= Len(Roles) /\ UNCHANGED input
  BY DEF AllocShared, AtRole, In
<1>2. CASE ~AutoShared(r) /\ Skip
  BY <1>1, <1>2, SkipServed
<1>3. CASE Refuse("noShared")
  BY <1>1, <1>3, RefuseServed
<1>4. ASSUME NEW set, AutoShared(r), GiveShared(r, set), set # {}, set \subseteq Available PROVE ServedInv'
  BY <1>1, <1>4, ServedGives DEF GiveShared, NextRole
<1>5. CASE AutoShared(r) /\ ~Short(r) /\ GiveShared(r, FirstN(remaining, r.threads))
  <2>1. r.threads \in Nat /\ r.threads > 0
    BY <1>1, <1>5, ThreadsPositive DEF AutoShared
  <2>2. remaining # {}
    <3>1. ASSUME remaining = {} PROVE FALSE
      <4>1. Cardinality(remaining) = 0
        BY <3>1, FS_EmptySet
      <4> QED
        BY <1>5, <2>1, <4>1 DEF Short
    <3> QED
      BY <3>1
  <2>3. FirstN(remaining, r.threads) # {} /\ FirstN(remaining, r.threads) \subseteq Available
    BY <2>1, <2>2, FirstNNonEmpty, FirstNSubset, RemainingNumbers
  <2> QED
    BY <1>4, <1>5, <2>3
<1>6. CASE AutoShared(r) /\ wrap # {} /\ GiveShared(r, wrap)
  <2>1. wrap \subseteq Available
    BY TakeSharedSubset DEF IInv, TypeOK
  <2> QED
    BY <1>4, <1>6, <2>1
<1> QED
  BY <1>2, <1>3, <1>5, <1>6 DEF AllocShared

LEMMA LoopEndServed ==
    ASSUME IInv, ServedInv,
           Validated \/ ExplicitClaimed \/ ExclusiveAllocated \/ SharedAllocated
    PROVE  ServedInv'
<1>1. /\ UNCHANGED <<input, alloc, housekeeping>> /\ i > Len(Roles) /\ i' = 1
      /\ \/ phase = "validate" /\ phase' = "explicit"
         \/ phase = "explicit" /\ phase' = "exclusive"
         \/ phase = "exclusive" /\ phase' = "shared"
         \/ phase = "shared" /\ phase' = "leftovers"
  BY DEF Validated, ExplicitClaimed, ExclusiveAllocated, SharedAllocated,
         AtEnd, In, Enter, locals
<1>2. Roles' = Roles /\ Len(Roles) \in Nat /\ i \in Nat
  BY <1>1, ArgumentTypes DEF Roles, IInv, TypeOK
<1>3. Seen = Len(Roles) /\ Seen' = Seen
  BY <1>1, <1>2 DEF Seen, IInv, IndexExact
<1>4. ASSUME NEW k \in 1 .. Seen
      PROVE  (PastExclusive(k)' <=> PastExclusive(k)) /\ (PastShared(k)' <=> PastShared(k))
  <2>1. k < i /\ ~(k < 1)
    BY <1>1, <1>2, <1>3
  <2> QED
    BY <1>1, <2>1 DEF PastExclusive, PastShared, AfterShared
<1> QED
  BY <1>1, <1>3, <1>4, ServedMoves

LEMMA LeftoversServed == ASSUME IInv, ServedInv, AllocHousekeeping PROVE ServedInv'
<1>1. phase = "leftovers" /\ UNCHANGED input
  BY DEF AllocHousekeeping, In
<1>2. CASE Refuse("noLeftovers")
  BY <1>1, <1>2, RefuseServed
<1>3. CASE ~WantsLeftovers /\ Enter("disjoint") /\ UNCHANGED locals
  <2>1. phase' = "disjoint" /\ Seen' = Seen /\ UNCHANGED <<alloc, housekeeping>>
    BY <1>1, <1>3 DEF Enter, locals, Seen, Roles
  <2>2. \A k : /\ PastExclusive(k) /\ PastShared(k)
               /\ PastExclusive(k)' /\ PastShared(k)'
    BY <1>1, <2>1 DEF PastExclusive, PastShared, AfterShared
  <2> QED
    BY <1>1, <1>3, <2>1, <2>2, ServedMoves
<1>4. CASE /\ WantsLeftovers /\ remaining # {} /\ Assign(housekeeping, remaining)
           /\ Enter("disjoint") /\ UNCHANGED housekeeping
  <2>1. phase' = "disjoint" /\ Seen = Len(Roles)
    BY <1>1, <1>4 DEF Enter, Seen
  <2>2. PICK k \in 1 .. Len(Roles) : Roles[k].name = housekeeping
    BY <1>4, <2>1 DEF IInv, IndexExact, WantsLeftovers
  <2>3. /\ Roles' = Roles /\ Available' = Available /\ Seen' = Seen
        /\ \A l \in 1 .. Seen : Claim(l)' = IF l = k THEN remaining ELSE Claim(l)
    BY <1>1, <1>4, <2>1, <2>2, AssignStep
  <2>4. RolesSound' /\ ClaimsAvailable'
    BY <1>4, <2>3, RemainingNumbers
       DEF ServedInv, RolesSound, ClaimsAvailable, Automatic, Explicit
  <2>5. Served'
    BY <1>1, <1>4, <2>3 DEF ServedInv, Served, PastExclusive, PastShared, AfterShared
  <2>6. HousekeeperServed'
    <3>1. housekeeping \in DOMAIN alloc
      BY <2>1, <2>2 DEF IInv, IndexExact
    <3> QED
      BY <1>4, <3>1 DEF HousekeeperServed, Assign
  <2>7. ServedInTurn'
    BY <2>1 DEF ServedInTurn
  <2> QED
    BY <2>4, <2>5, <2>6, <2>7 DEF ServedInv
<1> QED
  BY <1>2, <1>3, <1>4 DEF AllocHousekeeping

LEMMA ReturnServed ==
    ASSUME IInv, ServedInv, CheckExclusivity \/ WarnSMT \/ UNCHANGED vars
    PROVE  ServedInv'
<1>1. CASE Refuse("overlap") /\ UNCHANGED input
  BY <1>1, RefuseServed
<1>2. CASE /\ UNCHANGED <<input, alloc, housekeeping>>
           /\ phase \in {"disjoint", "smt"} /\ phase' \in {"smt", "done"}
  <2>1. Seen' = Seen
    BY <1>2 DEF Seen, Roles
  <2>2. \A k : /\ PastExclusive(k) /\ PastShared(k)
               /\ PastExclusive(k)' /\ PastShared(k)'
    BY <1>2 DEF PastExclusive, PastShared, AfterShared
  <2> QED
    BY <1>2, <2>1, <2>2, ServedMoves
<1>3. CASE UNCHANGED vars
  <2>1. UNCHANGED input /\ Refuse(err)
    BY <1>3 DEF vars, Refuse
  <2> QED
    BY <2>1, RefuseServed
<1> QED
  BY <1>1, <1>2, <1>3 DEF CheckExclusivity, WarnSMT, In, Enter, locals

LEMMA NextServed == ASSUME IInv, ServedInv, [Next]_vars PROVE ServedInv'
<1>1. CASE RefuseEmpty
  BY <1>1, RefuseServed DEF RefuseEmpty, In
<1>2. CASE CheckExclusivity \/ WarnSMT \/ Terminated \/ UNCHANGED vars
  BY <1>2, ReturnServed DEF Terminated
<1> QED
  BY <1>1, <1>2, ValidateServed, ClaimExplicitServed, AllocExclusiveServed,
     AllocSharedServed, LoopEndServed, LeftoversServed DEF Next

-----------------------------------------------------------------------------
(* A finished plan has passed every loop.                                  *)
LEMMA ServedPins == IInv /\ ServedInv => PinTargetsExist
<1> SUFFICES ASSUME IInv, ServedInv, Planned, NEW k \in RoleIds
             PROVE  Claim(k) # {} /\ Claim(k) \subseteq Available
  BY DEF PinTargetsExist
<1>1. phase = "done" /\ Seen = Len(Roles) /\ k \in 1 .. Seen
  BY ArgumentTypes DEF Planned, Seen, RoleIds, IInv, TypeOK
<1>2. Claim(k) \subseteq Available
  BY <1>1 DEF ServedInv, ClaimsAvailable
<1>3. CASE Explicit(k)
  BY <1>1, <1>2, <1>3 DEF IInv, ClaimsInOrder, Pending, Explicit
<1>4. CASE AutoExclusive(Roles[k]) \/ AutoShared(Roles[k])
  BY <1>1, <1>2, <1>4 DEF ServedInv, Served, PastExclusive, PastShared, AfterShared
<1>5. CASE Roles[k].housekeeping
  <2>1. housekeeping = Roles[k].name
    BY <1>1, <1>5 DEF ServedInv, RolesSound
  <2>2. Roles[k].name # NoName
    BY <1>1, NameAssumption DEF IInv, TypeOK, IndexExact
  <2> QED
    BY <1>1, <1>2, <2>1, <2>2 DEF ServedInv, HousekeeperServed, Claim
<1>6. CASE Automatic(k) /\ Roles[k].threads = 0
  BY <1>1, <1>5, <1>6 DEF ServedInv, RolesSound
<1> QED
  BY <1>2, <1>3, <1>4, <1>5, <1>6 DEF Automatic, Explicit, AutoExclusive, AutoShared

(* Each loop of buildPlan serves the roles it passes, and only those.      *)
THEOREM ServedInvariant == Spec => [](IInv /\ ServedInv)
<1>1. Init => IInv /\ ServedInv
  BY InitIInv, InitServed
<1>2. IInv /\ ServedInv /\ [Next]_vars => (IInv /\ ServedInv)'
  BY NextIInv, NextServed
<1> QED
  BY <1>1, <1>2, PTL DEF Spec

(* Whatever a finished plan is asked to pin has an available core to go to *)
(* (plan.go:264-274): idx % len(cores) is defined for every role.          *)
THEOREM PlannerServes == Spec => []PinTargetsExist
BY ServedInvariant, ServedPins, PTL

-----------------------------------------------------------------------------
(* No phase takes a core set back or changes it (plan.go:79-161): a role   *)
(* that is given cores had none.                                           *)

Kept == \A n \in DOMAIN alloc : alloc[n] # {} => alloc'[n] = alloc[n]

LEMMA NextKeeps == ASSUME IInv, ServedInv, Next PROVE Kept
<1>1. CASE UNCHANGED alloc
  BY <1>1 DEF Kept
<1>2. CASE ValidateRole
  BY <1>2 DEF ValidateRole, Malformed, Refuse, locals, Kept
<1>3. ASSUME AtRole("explicit") \/ AtRole("exclusive") \/ AtRole("shared")
      PROVE  i \in 1 .. Seen /\ Seen = Len(Roles) /\ i \in Nat
  BY <1>3, ArgumentTypes DEF AtRole, In, Seen, IInv, TypeOK
<1>4. CASE ClaimExplicit /\ alloc' # alloc
  <2>1. AtRole("explicit") /\ Assign(Roles[i].name, Roles[i].cores) /\ Roles[i].cores # {}
    BY <1>4 DEF ClaimExplicit, Skip, Refuse, locals
  <2>2. Claim(i) = {}
    BY <1>3, <2>1 DEF IInv, ClaimsInOrder, Explicit, Pending, AtRole, In
  <2> QED
    BY <2>1, <2>2 DEF Claim, Assign, Kept
<1>5. CASE AllocExclusive /\ alloc' # alloc
  <2>1. PICK set : AtRole("exclusive") /\ AutoExclusive(Roles[i]) /\ Assign(Roles[i].name, set)
    BY <1>5 DEF AllocExclusive, Skip, Refuse, locals
  <2>2. ~PastExclusive(i) /\ Automatic(i) /\ ~AutoShared(Roles[i]) /\ phase = "exclusive"
    BY <1>3, <2>1 DEF AtRole, In, PastExclusive, AfterShared, Automatic, Explicit,
                      AutoExclusive, AutoShared
  <2>3. Claim(i) = {}
    BY <1>3, <2>1, <2>2 DEF ServedInv, ServedInTurn
  <2> QED
    BY <2>1, <2>3 DEF Claim, Assign, Kept
<1>6. CASE AllocShared /\ alloc' # alloc
  <2>1. PICK set : AtRole("shared") /\ AutoShared(Roles[i]) /\ Assign(Roles[i].name, set)
    BY <1>6 DEF AllocShared, GiveShared, Skip, Refuse, locals
  <2>2. ~PastShared(i) /\ Automatic(i) /\ ~AutoExclusive(Roles[i]) /\ phase = "shared"
    BY <1>3, <2>1 DEF AtRole, In, PastShared, AfterShared, Automatic, Explicit,
                      AutoExclusive, AutoShared
  <2>3. Claim(i) = {}
    BY <1>3, <2>1, <2>2 DEF ServedInv, ServedInTurn
  <2> QED
    BY <2>1, <2>3 DEF Claim, Assign, Kept
<1>7. CASE AllocHousekeeping /\ alloc' # alloc
  BY <1>7 DEF AllocHousekeeping, WantsLeftovers, Refuse, locals, Assign, Kept
<1>8. CASE \/ RefuseEmpty \/ Validated \/ ExplicitClaimed \/ ExclusiveAllocated
           \/ SharedAllocated \/ CheckExclusivity \/ WarnSMT \/ Terminated
  <2>1. UNCHANGED alloc
    BY <1>8 DEF RefuseEmpty, Validated, ExplicitClaimed, ExclusiveAllocated, SharedAllocated,
                CheckExclusivity, WarnSMT, Terminated, Refuse, locals, vars
  <2> QED
    BY <1>1, <2>1
<1> QED
  BY <1>1, <1>2, <1>4, <1>5, <1>6, <1>7, <1>8 DEF Next

(* A core set once given is final, through every later phase.              *)
THEOREM PlannerIsFinal == Spec => AllocationsAreFinal
<1>1. IInv /\ ServedInv /\ [Next]_vars
         => [\A n \in DOMAIN alloc : alloc[n] # {} => alloc'[n] = alloc[n]]_vars
  BY NextKeeps DEF Kept
<1> QED
  BY <1>1, ServedInvariant, PTL DEF Spec, AllocationsAreFinal

-----------------------------------------------------------------------------
(* How many cores the pickers return                                       *)

LEMMA DisjointUnion ==
    ASSUME NEW S, NEW T, IsFiniteSet(S), IsFiniteSet(T), S \cap T = {}
    PROVE  /\ IsFiniteSet(S \cup T)
           /\ Cardinality(S \cup T) = Cardinality(S) + Cardinality(T)
<1>1. Cardinality(S \cap T) = 0
  BY FS_EmptySet
<1>2. Cardinality(S) \in Nat /\ Cardinality(T) \in Nat
  BY FS_CardinalityType
<1>3. /\ IsFiniteSet(S \cup T)
      /\ Cardinality(S \cup T) = Cardinality(S) + Cardinality(T) - Cardinality(S \cap T)
  BY FS_Union
<1> QED
  BY <1>1, <1>2, <1>3

LEMMA TakenAway ==
    ASSUME NEW S, IsFiniteSet(S), NEW T \in SUBSET S
    PROVE  Cardinality(S \ T) = Cardinality(S) - Cardinality(T)
<1>1. S \cap T = T
  OBVIOUS
<1> QED
  BY <1>1, FS_Difference

LEMMA FirstNGrows ==
    ASSUME NEW S, S \subseteq Nat, IsFiniteSet(S), NEW m \in Nat, m < Cardinality(S),
           Cardinality(FirstN(S, m)) = m
    PROVE  Cardinality(FirstN(S, m + 1)) = m + 1
<1>1. PICK F : F = FirstN(S, m)
  OBVIOUS
<1>2. F \subseteq S /\ IsFiniteSet(F) /\ Cardinality(F) = m
  BY <1>1, FirstNSubset, FS_Subset
<1>3. \A x \in S : x \in F <=> Cardinality(Below(S, x)) < m
  BY <1>1 DEF FirstN
<1>4. \A x \in S : IsFiniteSet(Below(S, x)) /\ Cardinality(Below(S, x)) \in Nat
  BY FS_Subset, FS_CardinalityType DEF Below
<1>5. PICK c \in S \ F : Below(S \ F, c) = {}
  <2>1. S \ F # {}
    <3>1. F # S
      BY <1>2
    <3> QED
      BY <1>2, <3>1
  <2>2. S \ F \subseteq Nat
    OBVIOUS
  <2> QED
    BY <2>1, <2>2, LowestCore
<1>6. Below(S, c) = F
  <2>1. Below(S, c) \subseteq F
    BY <1>5 DEF Below
  <2>2. ASSUME NEW x \in F PROVE x < c
    <3>1. x \in S /\ c \in S /\ x # c
      BY <1>2, <1>5
    <3>2. x \in Nat /\ c \in Nat
      BY <3>1
    <3>3. SUFFICES ASSUME c < x PROVE FALSE
      BY <3>1, <3>2
    <3>4. Below(S, c) \subseteq Below(S, x)
      <4> SUFFICES ASSUME NEW d \in S, d < c PROVE d < x
        BY DEF Below
      <4>1. d \in Nat
        OBVIOUS
      <4> QED
        BY <3>2, <3>3, <4>1
    <3>5. Cardinality(Below(S, c)) <= Cardinality(Below(S, x))
      BY <1>4, <3>1, <3>4, FS_Subset
    <3>6. Cardinality(Below(S, x)) < m
      BY <1>3, <3>1
    <3>7. ~(Cardinality(Below(S, c)) < m)
      BY <1>3, <1>5
    <3>8. Cardinality(Below(S, c)) \in Nat /\ Cardinality(Below(S, x)) \in Nat
      BY <1>4, <3>1
    <3> QED
      BY <3>5, <3>6, <3>7, <3>8
  <2> QED
    BY <1>2, <2>1, <2>2 DEF Below
<1>7. IsFiniteSet(F \cup {c}) /\ Cardinality(F \cup {c}) = m + 1
  BY <1>2, <1>5, FS_AddElement
<1>8. \A x \in S : x \in FirstN(S, m + 1) <=> Cardinality(Below(S, x)) < m + 1
  BY DEF FirstN
<1>9. ASSUME NEW x \in S PROVE x \in FirstN(S, m + 1) <=> x \in F \cup {c}
  <2>1. Cardinality(Below(S, x)) \in Nat
    BY <1>4
  <2>2. CASE x \in F
    <3>1. Cardinality(Below(S, x)) < m
      BY <1>3, <2>2
    <3> QED
      BY <1>8, <2>1, <2>2, <3>1
  <2>3. CASE x = c
    <3>1. Cardinality(Below(S, x)) = m
      BY <1>2, <1>6, <2>3
    <3> QED
      BY <1>8, <2>3, <3>1
  <2>4. CASE x \notin F /\ x # c
    <3>1. F \cup {c} \subseteq Below(S, x)
      <4>1. c \in S /\ c \in Nat /\ x \in Nat
        BY <1>5
      <4>2. ~(x < c)
        BY <1>6, <2>4 DEF Below
      <4>3. c < x
        BY <2>4, <4>1, <4>2
      <4> SUFFICES ASSUME NEW d \in F PROVE d \in S /\ d < x
        BY <4>1, <4>3 DEF Below
      <4>4. d \in S /\ d \in Nat /\ d < c
        BY <1>2, <1>6 DEF Below
      <4> QED
        BY <4>1, <4>3, <4>4
    <3>2. m + 1 <= Cardinality(Below(S, x))
      BY <1>4, <1>7, <3>1, FS_Subset
    <3>3. ~(Cardinality(Below(S, x)) < m + 1)
      BY <2>1, <3>2
    <3> QED
      BY <1>8, <2>4, <3>3
  <2> QED
    BY <2>2, <2>3, <2>4
<1>10. FirstN(S, m + 1) = F \cup {c}
  <2>1. FirstN(S, m + 1) \subseteq S /\ F \cup {c} \subseteq S
    BY <1>2, <1>5, FirstNSubset
  <2> QED
    BY <1>9, <2>1
<1> QED
  BY <1>7, <1>10

LEMMA FirstNExact ==
    ASSUME NEW S, S \subseteq Nat, IsFiniteSet(S), NEW n \in Nat, n <= Cardinality(S)
    PROVE  Cardinality(FirstN(S, n)) = n
<1> DEFINE Bad == {m \in Nat : m <= Cardinality(S) /\ Cardinality(FirstN(S, m)) # m}
<1> SUFFICES ASSUME Bad # {} PROVE FALSE
  OBVIOUS
<1>1. PICK m \in Bad : Below(Bad, m) = {}
  <2>1. Bad \subseteq Nat
    OBVIOUS
  <2> HIDE DEF Bad
  <2> QED
    BY <2>1, LowestCore
<1>2. m \in Nat /\ m <= Cardinality(S) /\ Cardinality(FirstN(S, m)) # m
  OBVIOUS
<1>3. Cardinality(S) \in Nat
  BY FS_CardinalityType
<1>4. m # 0
  <2>1. ASSUME NEW x \in S PROVE ~(Cardinality(Below(S, x)) < 0)
    <3>1. IsFiniteSet(Below(S, x))
      BY FS_Subset DEF Below
    <3> QED
      BY <3>1, FS_CardinalityType
  <2>2. FirstN(S, 0) = {}
    BY <2>1 DEF FirstN
  <2> QED
    BY <1>2, <2>2, FS_EmptySet
<1>5. m - 1 \in Nat /\ m - 1 < m /\ m - 1 < Cardinality(S)
  BY <1>2, <1>3, <1>4
<1>6. m - 1 \notin Bad
  BY <1>1, <1>5 DEF Below
<1>7. Cardinality(FirstN(S, m - 1)) = m - 1
  BY <1>3, <1>5, <1>6
<1>8. Cardinality(FirstN(S, (m - 1) + 1)) = (m - 1) + 1
  BY <1>5, <1>7, FirstNGrows
<1>9. (m - 1) + 1 = m
  BY <1>2
<1> QED
  BY <1>2, <1>8, <1>9

(* The first n of a set that has no more than n is the set.                *)
LEMMA FirstNAll ==
    ASSUME NEW S, S \subseteq Nat, IsFiniteSet(S), NEW n \in Nat, Cardinality(S) <= n
    PROVE  FirstN(S, n) = S
<1> SUFFICES ASSUME NEW c \in S PROVE Cardinality(Below(S, c)) < n
  BY FirstNSubset DEF FirstN
<1>1. Below(S, c) \subseteq S \ {c}
  BY DEF Below
<1>2. IsFiniteSet(S \ {c}) /\ Cardinality(S \ {c}) = Cardinality(S) - 1
  BY FS_RemoveElement
<1>3. Cardinality(Below(S, c)) <= Cardinality(S) - 1 /\ Cardinality(S) \in Nat
  BY <1>1, <1>2, FS_Subset, FS_CardinalityType
<1>4. Cardinality(Below(S, c)) \in Nat
  BY <1>1, <1>2, FS_Subset, FS_CardinalityType
<1> QED
  BY <1>3, <1>4

(* pickExclusive returns as many cores as it is asked for.                 *)
LEMMA PickExclusiveCount ==
    ASSUME NEW pool, pool \subseteq Nat, IsFiniteSet(pool),
           NEW n \in Nat, n <= Cardinality(pool), NEW siblings, NEW avoid,
           NEW set \in PickExclusive(pool, n, siblings, avoid)
    PROVE  set \subseteq pool /\ Cardinality(set) = n
<1>1. PICK G \in SUBSET pool :
          /\ Greedy(G, pool, n, siblings, avoid)
          /\ set = G \cup FirstN(pool \ G, n - Cardinality(G))
  BY DEF PickExclusive
<1>2. G \subseteq Nat /\ IsFiniteSet(G) /\ Cardinality(G) \in Nat
  BY FS_Subset, FS_CardinalityType
<1>3. Cardinality(G) <= n
  <2>1. FirstN(G, n) = G
    BY <1>1, <1>2 DEF Greedy, FirstN
  <2>2. n <= Cardinality(G) => Cardinality(FirstN(G, n)) = n
    BY <1>2, FirstNExact
  <2> QED
    BY <1>2, <2>1, <2>2
<1> DEFINE rest == pool \ G
           m    == n - Cardinality(G)
<1>4. /\ rest \subseteq Nat /\ IsFiniteSet(rest) /\ m \in Nat
      /\ Cardinality(rest) = Cardinality(pool) - Cardinality(G)
      /\ Cardinality(pool) \in Nat
  <2>1. pool \cap G = G
    OBVIOUS
  <2> QED
    BY <1>2, <1>3, <2>1, FS_Difference, FS_CardinalityType
<1>5. m <= Cardinality(rest)
  BY <1>2, <1>4
<1> HIDE DEF rest, m
<1>6. Cardinality(FirstN(rest, m)) = m /\ FirstN(rest, m) \subseteq rest
  BY <1>4, <1>5, FirstNExact, FirstNSubset
<1>7. IsFiniteSet(FirstN(rest, m)) /\ G \cap FirstN(rest, m) = {}
  BY <1>4, <1>6, FS_Subset DEF rest
<1>8. Cardinality(G \cup FirstN(rest, m)) = Cardinality(G) + m
  BY <1>2, <1>4, <1>6, <1>7, DisjointUnion
<1>9. set = G \cup FirstN(rest, m)
  BY <1>1 DEF rest, m
<1>10. Cardinality(G) + m = n
  BY <1>2 DEF m
<1>11. FirstN(rest, m) \subseteq pool
  BY <1>6 DEF rest
<1> QED
  BY <1>8, <1>9, <1>10, <1>11

(* A role that is short takes what remains, and then as much of the pool   *)
(* as it needs or all of it.                                               *)
LEMMA TakeSharedCount ==
    ASSUME NEW pool, pool \subseteq Nat, IsFiniteSet(pool), NEW rest, rest \subseteq pool,
           NEW n \in Nat, Cardinality(rest) < n
    PROVE  /\ rest \subseteq TakeShared(rest, pool, n)
           /\ TakeShared(rest, pool, n) \subseteq pool
           /\ \/ Cardinality(TakeShared(rest, pool, n)) = n
              \/ /\ Cardinality(TakeShared(rest, pool, n)) < n
                 /\ TakeShared(rest, pool, n) = pool
           /\ pool # {} => TakeShared(rest, pool, n) # {}
<1> DEFINE m == n - Cardinality(rest)
           more == FirstN(pool \ rest, m)
           wrap == rest \cup more
<1>1. IsFiniteSet(rest) /\ Cardinality(rest) \in Nat /\ rest \subseteq Nat
  BY FS_Subset, FS_CardinalityType
<1>2. FirstN(rest, n) = rest
  <2>1. Cardinality(rest) <= n
    BY <1>1
  <2> QED
    BY <1>1, <2>1, FirstNAll
<1>3. TakeShared(rest, pool, n) = wrap
  BY <1>2 DEF TakeShared
<1>4. m \in Nat /\ m > 0
  BY <1>1
<1>5. pool \ rest \subseteq Nat /\ IsFiniteSet(pool \ rest)
  BY FS_Subset
<1>6. more \subseteq pool \ rest
  BY FirstNSubset
<1>7. IsFiniteSet(more) /\ Cardinality(more) \in Nat
  BY <1>5, <1>6, FS_Subset, FS_CardinalityType
<1>8. Cardinality(wrap) = Cardinality(rest) + Cardinality(more)
  <2>1. rest \cap more = {}
    BY <1>6
  <2> HIDE DEF more
  <2> QED
    BY <1>1, <1>7, <2>1, DisjointUnion
<1>9. CASE m <= Cardinality(pool \ rest)
  <2>1. Cardinality(more) = m
    BY <1>4, <1>5, <1>9, FirstNExact
  <2>2. Cardinality(wrap) = n
    BY <1>1, <1>8, <2>1
  <2>3. wrap # {}
    <3>1. n # 0
      BY <1>1
    <3> HIDE DEF wrap
    <3> QED
      BY <2>2, <3>1, FS_EmptySet
  <2> QED
    BY <1>3, <1>6, <2>2, <2>3
<1>10. CASE ~(m <= Cardinality(pool \ rest))
  <2>1. Cardinality(pool \ rest) \in Nat /\ Cardinality(pool \ rest) < m
    BY <1>4, <1>5, <1>10, FS_CardinalityType
  <2>2. more = pool \ rest
    <3>1. Cardinality(pool \ rest) <= m
      BY <1>4, <2>1
    <3> QED
      BY <1>4, <1>5, <3>1, FirstNAll
  <2>3. wrap = pool
    BY <2>2
  <2>4. Cardinality(wrap) < n
    <3>1. Cardinality(more) < m
      BY <2>1, <2>2
    <3> HIDE DEF more, wrap
    <3> QED
      BY <1>1, <1>7, <1>8, <3>1
  <2> QED
    BY <1>3, <2>3, <2>4
<1> QED
  BY <1>9, <1>10

-----------------------------------------------------------------------------
(* What a step does to the claims: it leaves them alone, or gives a role   *)
(* that has none a set.                                                    *)

LEMMA SameInput ==
    ASSUME UNCHANGED input
    PROVE  /\ Roles' = Roles /\ Available' = Available /\ Siblings' = Siblings
           /\ RoleIds' = RoleIds /\ Free' = Free
           /\ ExclusiveIds' = ExclusiveIds /\ SharedIds' = SharedIds
           /\ LeftoverIds' = LeftoverIds
           /\ Supply' = Supply
           /\ (ShortInExclusive' <=> ShortInExclusive)
           /\ (ShortInShared' <=> ShortInShared)
           /\ (ShortInLeftovers' <=> ShortInLeftovers)
           /\ (Shortage' <=> Shortage) /\ (Topology' <=> Topology)
<1>1. /\ Roles' = Roles /\ Available' = Available /\ Siblings' = Siblings
  BY DEF Roles, Available, Siblings
<1>2. RoleIds' = RoleIds
  BY <1>1 DEF RoleIds
<1>3. Free' = Free /\ ExclusiveIds' = ExclusiveIds /\ SharedIds' = SharedIds
  BY <1>1, <1>2 DEF Free, ExclusiveIds, SharedIds
<1>4. LeftoverIds' = LeftoverIds
  BY <1>1, <1>2, <1>3 DEF LeftoverIds, Automatic, Explicit
<1>5. \A S : Slots(S)' = Slots(S)
  BY <1>1 DEF Slots
<1>6. Supply' = Supply
  BY <1>3 DEF Supply
<1>7. /\ ShortInExclusive' <=> ShortInExclusive
      /\ ShortInShared' <=> ShortInShared
      /\ ShortInLeftovers' <=> ShortInLeftovers
  BY <1>3, <1>4, <1>5, <1>6 DEF ShortInExclusive, ShortInShared, ShortInLeftovers
<1>8. Topology' <=> Topology
  BY <1>1 DEF Topology
<1> QED
  BY <1>1, <1>2, <1>3, <1>4, <1>6, <1>7, <1>8 DEF Shortage

LEMMA AllSeen ==
    ASSUME IInv, phase # "validate"
    PROVE  Seen = Len(Roles) /\ RoleIds = 1 .. Seen /\ RoleIds \subseteq Nat /\ Seen \in Nat
BY ArgumentTypes DEF IInv, TypeOK, Seen, RoleIds

Gives(k, set) ==
    /\ UNCHANGED <<input, err, housekeeping, nonexPool>> /\ err = "none"
    /\ k \in RoleIds /\ Claim(k) = {}
    /\ \A l \in RoleIds : Claim(l)' = IF l = k THEN set ELSE Claim(l)

GivesInTurn(set) ==
    /\ Gives(i, set) /\ UNCHANGED phase /\ i' = i + 1
    /\ remaining' = remaining \ set

SkipsRole == Skip /\ UNCHANGED input /\ err = "none" /\ i \in RoleIds

LEMMA ExplicitGives ==
    ASSUME IInv, ClaimExplicit
    PROVE  /\ phase = "explicit"
           /\ \/ SkipsRole /\ Automatic(i)
              \/ Refuse("outside") /\ UNCHANGED input /\ err = "none"
              \/ /\ GivesInTurn(Roles[i].cores) /\ Explicit(i)
                 /\ UNCHANGED <<exclusiveTaken, warnings>>
<1>1. phase = "explicit" /\ err = "none" /\ i <= Len(Roles) /\ UNCHANGED input
  BY DEF ClaimExplicit, AtRole, In
<1>2. i \in RoleIds /\ RoleIds = 1 .. Seen /\ Seen = Len(Roles)
  BY <1>1, AllSeen DEF IInv, TypeOK
<1>3. CASE Roles[i].cores = {} /\ Skip
  BY <1>1, <1>2, <1>3 DEF SkipsRole, Automatic, Explicit
<1>4. CASE Refuse("outside")
  BY <1>1, <1>4
<1>5. CASE ~(Roles[i].cores = {} /\ Skip) /\ ~Refuse("outside")
  <2>1. /\ Roles[i].cores # {}
        /\ Assign(Roles[i].name, Roles[i].cores)
        /\ remaining' = remaining \ Roles[i].cores /\ i' = i + 1
        /\ UNCHANGED <<phase, err, housekeeping, exclusiveTaken, nonexPool, warnings>>
    BY <1>5 DEF ClaimExplicit, NextRole
  <2>2. Explicit(i)
    BY <2>1 DEF Explicit
  <2>3. Claim(i) = {}
    BY <1>1, <1>2, <2>2 DEF IInv, TypeOK, ClaimsInOrder, Pending
  <2>4. \A l \in RoleIds : Claim(l)' = IF l = i THEN Roles[i].cores ELSE Claim(l)
    BY <1>1, <1>2, <2>1, AssignStep
  <2> QED
    BY <1>1, <1>2, <2>1, <2>2, <2>3, <2>4 DEF GivesInTurn, Gives
<1> QED
  BY <1>1, <1>3, <1>4, <1>5

(* A role has nothing when its loop reaches it.                            *)
LEMMA NothingYet ==
    ASSUME IInv, ServedInv, i \in RoleIds,
           \/ phase = "exclusive" /\ AutoExclusive(Roles[i])
           \/ phase = "shared" /\ AutoShared(Roles[i])
    PROVE  Claim(i) = {} /\ Automatic(i)
<1>1. i \in 1 .. Seen /\ i \in Nat
  BY AllSeen
<1>2. Automatic(i) /\ ~(AutoExclusive(Roles[i]) /\ AutoShared(Roles[i]))
  BY DEF AutoExclusive, AutoShared, Automatic, Explicit
<1>3. phase = "exclusive" => ~PastExclusive(i) /\ ~PastShared(i)
  BY <1>1 DEF PastExclusive, PastShared, AfterShared
<1>4. phase = "shared" => ~PastShared(i)
  BY <1>1 DEF PastShared, AfterShared
<1> QED
  BY <1>1, <1>2, <1>3, <1>4 DEF ServedInv, ServedInTurn

LEMMA ExclusiveGives ==
    ASSUME IInv, ServedInv, IsFiniteSet(Available), AllocExclusive
    PROVE  /\ phase = "exclusive"
           /\ \/ SkipsRole /\ ~AutoExclusive(Roles[i])
              \/ /\ Refuse("noExclusive") /\ UNCHANGED input /\ err = "none"
                 /\ i \in ExclusiveIds /\ Cardinality(remaining) < Roles[i].threads
              \/ \E set \in SUBSET remaining :
                    /\ GivesInTurn(set) /\ i \in ExclusiveIds
                    /\ Cardinality(set) = Roles[i].threads
                    /\ exclusiveTaken' = exclusiveTaken \cup set /\ UNCHANGED warnings
<1>1. phase = "exclusive" /\ err = "none" /\ i <= Len(Roles) /\ UNCHANGED input
  BY DEF AllocExclusive, AtRole, In
<1>2. i \in RoleIds /\ RoleIds = 1 .. Seen /\ Seen = Len(Roles)
  BY <1>1, AllSeen DEF IInv, TypeOK
<1>3. CASE ~AutoExclusive(Roles[i]) /\ Skip
  BY <1>1, <1>2, <1>3 DEF SkipsRole
<1>4. CASE AutoExclusive(Roles[i]) /\ Refuse("noExclusive")
                /\ Cardinality(remaining) < Roles[i].threads
  BY <1>1, <1>2, <1>4 DEF ExclusiveIds
<1>5. ASSUME AutoExclusive(Roles[i]), Cardinality(remaining) >= Roles[i].threads,
             NEW set \in PickExclusive(remaining, Roles[i].threads, Siblings, exclusiveTaken),
             Assign(Roles[i].name, set), exclusiveTaken' = exclusiveTaken \cup set,
             remaining' = remaining \ set, NextRole,
             UNCHANGED <<housekeeping, nonexPool, warnings>>
      PROVE  /\ set \subseteq remaining /\ GivesInTurn(set) /\ i \in ExclusiveIds
             /\ Cardinality(set) = Roles[i].threads
  <2>1. i' = i + 1 /\ UNCHANGED <<phase, err>>
    BY <1>5 DEF NextRole
  <2>2. Roles[i].threads \in Nat
    BY <1>1, <1>5, ThreadsPositive DEF AutoExclusive
  <2>3. remaining \subseteq Nat /\ IsFiniteSet(remaining)
    BY RemainingNumbers, FS_Subset
  <2>4. Cardinality(remaining) \in Nat
    BY <2>3, FS_CardinalityType
  <2>5. Roles[i].threads <= Cardinality(remaining)
    BY <1>5, <2>2, <2>4
  <2>6. set \subseteq remaining /\ Cardinality(set) = Roles[i].threads
    BY <2>2, <2>3, <2>5, PickExclusiveCount
  <2>7. Claim(i) = {}
    BY <1>1, <1>2, <1>5, NothingYet
  <2>8. \A l \in RoleIds : Claim(l)' = IF l = i THEN set ELSE Claim(l)
    BY <1>1, <1>2, <1>5, <2>1, AssignStep
  <2> QED
    BY <1>1, <1>2, <1>5, <2>1, <2>6, <2>7, <2>8 DEF GivesInTurn, Gives, ExclusiveIds
<1>6. CASE /\ AutoExclusive(Roles[i]) /\ Cardinality(remaining) >= Roles[i].threads
           /\ \E set \in PickExclusive(remaining, Roles[i].threads, Siblings, exclusiveTaken) :
                 /\ Assign(Roles[i].name, set)
                 /\ exclusiveTaken' = exclusiveTaken \cup set
                 /\ remaining' = remaining \ set
           /\ NextRole /\ UNCHANGED <<housekeeping, nonexPool, warnings>>
  BY <1>1, <1>5, <1>6
<1> QED
  BY <1>1, <1>3, <1>4, <1>6 DEF AllocExclusive

LEMMA SharedGives ==
    ASSUME IInv, ServedInv, IsFiniteSet(Available), AllocShared,
           remaining \subseteq nonexPool
    PROVE  /\ phase = "shared"
           /\ \/ SkipsRole /\ ~AutoShared(Roles[i])
              \/ /\ Refuse("noShared") /\ UNCHANGED input /\ err = "none"
                 /\ i \in SharedIds /\ Cardinality(remaining) < Roles[i].threads
                 /\ ~input.allowOverlap \/ nonexPool = {}
              \/ \E set \in SUBSET nonexPool :
                    /\ GivesInTurn(set) /\ i \in SharedIds /\ set # {}
                    /\ UNCHANGED exclusiveTaken
                    /\ warnings' = warnings \cup ShortWarning(Roles[i], set)
                    /\ \/ set \subseteq remaining /\ Cardinality(set) = Roles[i].threads
                       \/ /\ input.allowOverlap /\ remaining \subseteq set
                          /\ Cardinality(remaining) < Roles[i].threads
                          /\ \/ Cardinality(set) = Roles[i].threads
                             \/ Cardinality(set) < Roles[i].threads /\ set = nonexPool
<1> DEFINE r    == Roles[i]
           wrap == TakeShared(remaining, nonexPool, r.threads)
<1>1. phase = "shared" /\ err = "none" /\ i <= Len(Roles) /\ UNCHANGED input
  BY DEF AllocShared, AtRole, In
<1>2. i \in RoleIds /\ RoleIds = 1 .. Seen /\ Seen = Len(Roles)
  BY <1>1, AllSeen DEF IInv, TypeOK
<1>3. CASE ~AutoShared(r)
  BY <1>1, <1>2, <1>3 DEF SkipsRole, AllocShared
<1>4. CASE AutoShared(r)
  <2>1. i \in SharedIds /\ Claim(i) = {}
    BY <1>1, <1>2, <1>4, NothingYet DEF SharedIds
  <2>2. r.threads \in Nat /\ r.threads > 0
    BY <1>1, <1>4, ThreadsPositive DEF AutoShared
  <2>3. remaining \subseteq Nat /\ nonexPool \subseteq Nat
    BY RemainingNumbers, CoreAssumption, ArgumentTypes DEF IInv, TypeOK
  <2>4. IsFiniteSet(remaining) /\ IsFiniteSet(nonexPool)
    BY RemainingNumbers, FS_Subset DEF IInv, TypeOK
  <2>5. Cardinality(remaining) \in Nat
    BY <2>4, FS_CardinalityType
  <2>6. ASSUME NEW set, GiveShared(r, set)
        PROVE  /\ GivesInTurn(set) /\ UNCHANGED exclusiveTaken
               /\ warnings' = warnings \cup ShortWarning(r, set)
    <3>1. /\ Assign(r.name, set) /\ i' = i + 1 /\ remaining' = remaining \ set
          /\ UNCHANGED <<phase, err, housekeeping, exclusiveTaken, nonexPool>>
          /\ warnings' = warnings \cup ShortWarning(r, set)
      BY <2>6 DEF GiveShared, NextRole
    <3>2. \A l \in RoleIds : Claim(l)' = IF l = i THEN set ELSE Claim(l)
      BY <1>1, <1>2, <3>1, AssignStep
    <3> QED
      BY <1>1, <1>2, <2>1, <3>1, <3>2 DEF GivesInTurn, Gives
  <2>7. CASE ~Short(r)
    <3> DEFINE set == FirstN(remaining, r.threads)
    <3>1. GiveShared(r, set)
      BY <1>4, <2>7 DEF AllocShared
    <3>2. r.threads <= Cardinality(remaining)
      BY <2>2, <2>5, <2>7 DEF Short
    <3>3. Cardinality(set) = r.threads /\ set \subseteq remaining
      BY <2>2, <2>3, <2>4, <3>2, FirstNExact, FirstNSubset
    <3>4. set # {}
      <4>1. Cardinality(set) # 0
        BY <2>2, <3>3
      <4> HIDE DEF set
      <4> QED
        BY <4>1, FS_EmptySet
    <3> HIDE DEF set
    <3> QED
      BY <1>1, <2>1, <2>6, <3>1, <3>3, <3>4
  <2>8. CASE Short(r)
    <3>1. Cardinality(remaining) < r.threads
      BY <2>8 DEF Short
    <3>2. /\ remaining \subseteq wrap /\ wrap \subseteq nonexPool
          /\ \/ Cardinality(wrap) = r.threads
             \/ Cardinality(wrap) < r.threads /\ wrap = nonexPool
          /\ nonexPool # {} => wrap # {}
      <4>1. PICK n \in Nat : n = r.threads
        BY <2>2
      <4>2. Cardinality(remaining) < n
        BY <3>1, <4>1
      <4> HIDE DEF r
      <4>3. /\ remaining \subseteq TakeShared(remaining, nonexPool, n)
            /\ TakeShared(remaining, nonexPool, n) \subseteq nonexPool
        BY <2>3, <2>4, <4>2, TakeSharedCount
      <4>4. \/ Cardinality(TakeShared(remaining, nonexPool, n)) = n
            \/ /\ Cardinality(TakeShared(remaining, nonexPool, n)) < n
               /\ TakeShared(remaining, nonexPool, n) = nonexPool
        BY <2>3, <2>4, <4>2, TakeSharedCount
      <4>5. nonexPool # {} => TakeShared(remaining, nonexPool, n) # {}
        BY <2>3, <2>4, <4>2, TakeSharedCount
      <4> QED
        BY <4>1, <4>3, <4>4, <4>5
    <3>3. \/ (~input.allowOverlap \/ wrap = {}) /\ Refuse("noShared")
          \/ input.allowOverlap /\ wrap # {} /\ GiveShared(r, wrap)
      BY <1>4, <2>8 DEF AllocShared
    <3> HIDE DEF wrap
    <3>4. CASE (~input.allowOverlap \/ wrap = {}) /\ Refuse("noShared")
      BY <1>1, <2>1, <3>1, <3>2, <3>4
    <3>5. CASE input.allowOverlap /\ wrap # {} /\ GiveShared(r, wrap)
      BY <1>1, <2>1, <2>6, <3>1, <3>2, <3>5
    <3> QED
      BY <3>3, <3>4, <3>5
  <2> QED
    BY <2>7, <2>8
<1> QED
  BY <1>3, <1>4

LEMMA LeftoversGives ==
    ASSUME IInv, ServedInv, HousekeeperKnown, AllocHousekeeping
    PROVE  /\ phase = "leftovers" /\ err = "none" /\ UNCHANGED input
           /\ \/ Refuse("noLeftovers") /\ remaining = {} /\ LeftoverIds # {}
              \/ /\ Enter("disjoint") /\ LeftoverIds # {} /\ remaining # {}
                 /\ \E k \in LeftoverIds : Gives(k, remaining)
                 /\ UNCHANGED <<remaining, exclusiveTaken, nonexPool, warnings>>
              \/ Enter("disjoint") /\ UNCHANGED locals /\ LeftoverIds = {}
<1>1. phase = "leftovers" /\ err = "none" /\ UNCHANGED input
  BY DEF AllocHousekeeping, In
<1>2. RoleIds = 1 .. Seen /\ Seen = Len(Roles)
  BY <1>1, AllSeen
<1>3. \A k : PastExclusive(k) /\ PastShared(k)
  BY <1>1 DEF PastExclusive, PastShared, AfterShared
<1>4. ASSUME NEW k \in LeftoverIds PROVE WantsLeftovers
  <2>1. k \in RoleIds /\ Automatic(k) /\ Roles[k].housekeeping /\ ~AutoExclusive(Roles[k])
    BY DEF LeftoverIds, ExclusiveIds
  <2>2. housekeeping = Roles[k].name
    BY <1>2, <2>1 DEF ServedInv, RolesSound
  <2>3. Roles[k].name # NoName
    BY <1>2, <2>1, NameAssumption DEF IInv, TypeOK, IndexExact
  <2>4. ~AutoShared(Roles[k])
    BY <2>1 DEF AutoShared
  <2>5. Claim(k) = {}
    BY <1>1, <1>2, <2>1, <2>4 DEF ServedInv, ServedInTurn
  <2> QED
    BY <2>2, <2>3, <2>5 DEF WantsLeftovers, Claim
<1>5. ASSUME WantsLeftovers
      PROVE  \E k \in LeftoverIds : Claim(k) = {} /\ Roles[k].name = housekeeping
  <2>1. PICK k \in RoleIds : Roles[k].name = housekeeping /\ Roles[k].housekeeping
    BY <1>2, <1>5 DEF HousekeeperKnown, WantsLeftovers
  <2>2. Claim(k) = {}
    BY <1>5, <2>1 DEF WantsLeftovers, Claim
  <2>3. Automatic(k)
    BY <1>1, <1>2, <2>2 DEF IInv, ClaimsInOrder, Explicit, Automatic, Pending
  <2>4. k \notin ExclusiveIds
    BY <1>2, <1>3, <2>2 DEF ServedInv, Served, ExclusiveIds
  <2> QED
    BY <2>1, <2>2, <2>3, <2>4 DEF LeftoverIds
<1>6. CASE WantsLeftovers /\ remaining = {} /\ Refuse("noLeftovers")
  BY <1>1, <1>5, <1>6
<1>7. CASE /\ WantsLeftovers /\ remaining # {}
           /\ Assign(housekeeping, remaining) /\ Enter("disjoint")
           /\ UNCHANGED <<housekeeping, remaining, exclusiveTaken, nonexPool, warnings>>
  <2>1. PICK k \in LeftoverIds : Claim(k) = {} /\ Roles[k].name = housekeeping
    BY <1>5, <1>7
  <2>2. k \in RoleIds
    BY DEF LeftoverIds
  <2>3. phase' = "disjoint" /\ UNCHANGED err
    BY <1>7 DEF Enter
  <2>4. \A l \in RoleIds : Claim(l)' = IF l = k THEN remaining ELSE Claim(l)
    BY <1>1, <1>2, <1>7, <2>1, <2>2, <2>3, AssignStep
  <2>5. Gives(k, remaining)
    BY <1>1, <1>7, <2>1, <2>2, <2>3, <2>4 DEF Gives
  <2> QED
    BY <1>1, <1>7, <2>5
<1>8. CASE ~WantsLeftovers /\ Enter("disjoint") /\ UNCHANGED locals
  BY <1>1, <1>4, <1>8
<1> QED
  BY <1>6, <1>7, <1>8 DEF AllocHousekeeping

-----------------------------------------------------------------------------
(* Where the cores are                                                     *)

LEMMA PoolSame ==
    ASSUME PoolInv, UNCHANGED <<input, phase, i, locals>>
    PROVE  PoolInv'
<1>1. /\ Roles' = Roles /\ Available' = Available /\ RoleIds' = RoleIds /\ Free' = Free
      /\ ExclusiveIds' = ExclusiveIds /\ LeftoverIds' = LeftoverIds
      /\ Siblings' = Siblings /\ (Topology' <=> Topology) /\ Seen' = Seen
  BY SameInput DEF Seen
<1>2. UNCHANGED <<alloc, housekeeping, remaining, exclusiveTaken, nonexPool, warnings>>
  BY DEF locals
<1>3. \A k : Claim(k)' = Claim(k)
  BY <1>1, <1>2 DEF Claim
<1>4. \A S : Claimed(S)' = Claimed(S) /\ ExclusiveCores(S)' = ExclusiveCores(S)
  BY <1>1, <1>3 DEF Claimed, ExclusiveCores
<1>5. \A S : Collide(S)' = Collide(S)
  BY <1>1 DEF Collide
<1>6. Covered' /\ PoolExact' /\ TakenExact' /\ HousekeeperKnown'
  BY <1>1, <1>2, <1>4 DEF PoolInv, Covered, PoolExact, TakenExact, HousekeeperKnown
<1>7. LastResort' /\ LeftoversGiven' /\ OnlyShortBefore'
  BY <1>1, <1>2, <1>3, <1>4
     DEF PoolInv, LastResort, LeftoversGiven, OnlyShortBefore, Automatic, Explicit
<1>8. CollisionsReported'
  BY <1>1, <1>2, <1>4, <1>5 DEF PoolInv, CollisionsReported, Planned
<1> QED
  BY <1>1, <1>6, <1>7, <1>8 DEF PoolInv

LEMMA RefusePool ==
    ASSUME PoolInv, UNCHANGED input, NEW why, Refuse(why)
    PROVE  PoolInv'
BY PoolSame DEF Refuse

LEMMA InitPool == Init => PoolInv
<1> SUFFICES ASSUME Init PROVE PoolInv
  OBVIOUS
<1>1. IsFiniteSet(Available)
  BY FinitenessAssumption DEF Init, Available
<1>2. Covered /\ PoolExact /\ TakenExact /\ HousekeeperKnown
  BY DEF Init, Covered, PoolExact, TakenExact, HousekeeperKnown, AfterExplicit, AfterShared
<1>3. Seen = 0
  BY DEF Init, Seen
<1>4. LastResort /\ LeftoversGiven /\ OnlyShortBefore /\ CollisionsReported
  BY <1>3 DEF Init, LastResort, LeftoversGiven, OnlyShortBefore, CollisionsReported, Planned
<1> QED
  BY <1>1, <1>2, <1>4 DEF PoolInv

(* While roles are validated nothing is claimed.                           *)
LEMMA ValidatePool ==
    ASSUME IInv, PoolInv, IInv', ValidateRole
    PROVE  PoolInv'
<1> DEFINE r == Roles[i]
<1>1. CASE Refuse("malformed")
  BY <1>1, PoolSame DEF Refuse, ValidateRole, AtRole, In
<1>2. CASE ~Refuse("malformed")
  <2>1. /\ phase = "validate" /\ phase' = "validate" /\ i' = i + 1 /\ i <= Len(Roles)
        /\ UNCHANGED <<input, warnings>>
        /\ r.housekeeping => housekeeping = NoName
        /\ housekeeping' = IF r.housekeeping THEN r.name ELSE housekeeping
    BY <1>2 DEF ValidateRole, AtRole, In, NextRole, Malformed
  <2>2. Roles' = Roles /\ Available' = Available
    BY <2>1, SameInput
  <2>3. Seen = i - 1 /\ Seen' = i /\ i \in Nat \ {0}
    BY <2>1 DEF IInv, TypeOK, Seen
  <2>4. HousekeeperKnown'
    <3>1. CASE r.housekeeping
      BY <2>1, <2>2, <2>3, <3>1 DEF HousekeeperKnown
    <3>2. CASE ~r.housekeeping
      <4>1. \A k \in 1 .. Seen : k \in 1 .. i
        BY <2>3
      <4> QED
        BY <2>1, <2>2, <2>3, <3>2, <4>1 DEF PoolInv, HousekeeperKnown
    <3> QED
      BY <3>1, <3>2
  <2>5. LastResort'
    <3>1. \A k \in 1 .. Seen' : Automatic(k)' => Claim(k)' = {}
      BY <2>1 DEF IInv, ClaimsInOrder
    <3> QED
      BY <3>1 DEF LastResort
  <2>6. Covered' /\ PoolExact' /\ TakenExact' /\ LeftoversGiven'
    BY <2>1 DEF Covered, PoolExact, TakenExact, LeftoversGiven, AfterExplicit, AfterShared
  <2>7. OnlyShortBefore' /\ CollisionsReported'
    BY <2>1 DEF PoolInv, OnlyShortBefore, CollisionsReported, Planned
  <2> QED
    BY <2>2, <2>4, <2>5, <2>6, <2>7 DEF PoolInv
<1> QED
  BY <1>1, <1>2

LEMMA ValidatedPool ==
    ASSUME IInv, PoolInv, IInv', Validated
    PROVE  PoolInv'
<1>1. /\ phase = "validate" /\ phase' = "explicit" /\ i > Len(Roles) /\ i' = 1
      /\ UNCHANGED <<input, housekeeping, warnings>> /\ remaining' = Available
  BY DEF Validated, AtEnd, In, Enter
<1>2. Roles' = Roles /\ Available' = Available /\ RoleIds' = RoleIds
  BY <1>1, SameInput
<1>3. Seen = Len(Roles) /\ Seen' = Len(Roles) /\ RoleIds = 1 .. Len(Roles) /\ Len(Roles) \in Nat
  BY <1>1, <1>2, ArgumentTypes DEF IInv, TypeOK, IndexExact, Seen, RoleIds
<1>4. LastResort'
  <2>1. \A k \in 1 .. Seen' : Automatic(k)' => Claim(k)' = {}
    BY <1>1 DEF IInv, ClaimsInOrder
  <2> QED
    BY <2>1 DEF LastResort
<1>5. PoolExact'
  <2>1. {m \in RoleIds : m < 1} = {}
    BY <1>3
  <2> QED
    BY <1>1, <1>2, <2>1 DEF PoolExact, AfterShared
<1>6. Covered' /\ HousekeeperKnown'
  BY <1>1, <1>2, <1>3 DEF PoolInv, Covered, HousekeeperKnown
<1>7. TakenExact' /\ LeftoversGiven' /\ OnlyShortBefore' /\ CollisionsReported'
  BY <1>1 DEF PoolInv, TakenExact, LeftoversGiven, OnlyShortBefore, CollisionsReported,
              Planned, AfterExplicit, AfterShared
<1> QED
  BY <1>2, <1>4, <1>5, <1>6, <1>7 DEF PoolInv

(* A step that changes no claim keeps what is said of the claims alone.    *)
LEMMA QuietPool ==
    ASSUME IInv, PoolInv, UNCHANGED <<input, alloc, housekeeping, remaining>>,
           phase # "validate", phase' # "validate"
    PROVE  /\ \A k : Claim(k)' = Claim(k)
           /\ \A S : Claimed(S)' = Claimed(S) /\ ExclusiveCores(S)' = ExclusiveCores(S)
           /\ IsFiniteSet(Available)' /\ Covered' /\ LastResort' /\ HousekeeperKnown'
<1>1. Roles' = Roles /\ Available' = Available /\ RoleIds' = RoleIds /\ Seen' = Seen
  BY SameInput DEF Seen
<1>2. \A k : Claim(k)' = Claim(k)
  BY <1>1 DEF Claim
<1>3. \A S : Claimed(S)' = Claimed(S) /\ ExclusiveCores(S)' = ExclusiveCores(S)
  BY <1>1, <1>2 DEF Claimed, ExclusiveCores
<1>4. Covered' /\ LastResort' /\ HousekeeperKnown'
  BY <1>1, <1>2, <1>3
     DEF PoolInv, Covered, LastResort, HousekeeperKnown, Automatic, Explicit
<1> QED
  BY <1>1, <1>2, <1>3, <1>4 DEF PoolInv

LEMMA SkipPool ==
    ASSUME IInv, PoolInv, SkipsRole, phase \in {"explicit", "exclusive", "shared"},
           phase = "explicit" => Automatic(i)
    PROVE  PoolInv'
<1>1. i' = i + 1 /\ UNCHANGED <<input, phase, alloc, housekeeping, remaining,
                                exclusiveTaken, nonexPool, warnings>>
  BY DEF SkipsRole, Skip, NextRole, locals
<1>2. /\ Roles' = Roles /\ Available' = Available /\ RoleIds' = RoleIds /\ Free' = Free
      /\ ExclusiveIds' = ExclusiveIds /\ LeftoverIds' = LeftoverIds
  BY <1>1, SameInput
<1>3. /\ \A S : Claimed(S)' = Claimed(S) /\ ExclusiveCores(S)' = ExclusiveCores(S)
      /\ IsFiniteSet(Available)' /\ Covered' /\ LastResort' /\ HousekeeperKnown'
  BY <1>1, QuietPool
<1>4. PoolExact'
  <2>1. CASE phase = "explicit"
    <3>1. {m \in RoleIds : m < i + 1} = {m \in RoleIds : m < i} \cup {i}
      <4>1. \A m \in RoleIds : m < i + 1 <=> m < i \/ m = i
        BY <2>1, AllSeen DEF SkipsRole
      <4> QED
        BY <4>1 DEF SkipsRole
    <3>2. Roles[i].cores = {}
      BY <2>1 DEF Automatic, Explicit
    <3>3. UNION {Roles[k].cores : k \in {m \in RoleIds : m < i + 1}}
             = UNION {Roles[k].cores : k \in {m \in RoleIds : m < i}}
      BY <3>1, <3>2
    <3> QED
      BY <1>1, <1>2, <2>1, <3>3 DEF PoolInv, PoolExact, AfterShared
  <2>2. CASE phase # "explicit"
    BY <1>1, <1>2, <1>3, <2>2 DEF PoolInv, PoolExact
  <2> QED
    BY <2>1, <2>2
<1>5. TakenExact' /\ LeftoversGiven' /\ OnlyShortBefore' /\ CollisionsReported'
  BY <1>1, <1>2, <1>3
     DEF PoolInv, TakenExact, LeftoversGiven, OnlyShortBefore, CollisionsReported, Planned
<1> QED
  BY <1>3, <1>4, <1>5 DEF PoolInv

LEMMA ExplicitClaimedPool ==
    ASSUME IInv, PoolInv, ExplicitClaimed
    PROVE  PoolInv'
<1>1. /\ phase = "explicit" /\ phase' = "exclusive" /\ i > Len(Roles)
      /\ UNCHANGED <<input, alloc, housekeeping, remaining, nonexPool, warnings>>
      /\ exclusiveTaken' = UNION {Roles[k].cores : k \in ExplicitExclusive}
  BY DEF ExplicitClaimed, AtEnd, In, Enter
<1>2. /\ Roles' = Roles /\ Available' = Available /\ RoleIds' = RoleIds /\ Free' = Free
      /\ ExclusiveIds' = ExclusiveIds /\ LeftoverIds' = LeftoverIds
  BY <1>1, SameInput
<1>3. /\ \A S : Claimed(S)' = Claimed(S) /\ ExclusiveCores(S)' = ExclusiveCores(S)
      /\ IsFiniteSet(Available)' /\ Covered' /\ LastResort' /\ HousekeeperKnown'
  BY <1>1, QuietPool
<1>4. RoleIds = 1 .. Seen /\ Seen = Len(Roles) /\ Len(Roles) \in Nat /\ i \in Nat
  BY <1>1, AllSeen DEF IInv, TypeOK
<1>5. ASSUME NEW k \in RoleIds
      PROVE  Claim(k) = Roles[k].cores /\ k < i
  <2>1. k < i /\ ~(k >= i)
    BY <1>1, <1>4
  <2> QED
    BY <1>1, <1>4, <2>1 DEF IInv, ClaimsInOrder, Pending, Explicit, Automatic
<1>6. PoolExact'
  <2>1. \A k \in ExclusiveIds : k \in RoleIds /\ Roles[k].cores = {}
    BY DEF ExclusiveIds, AutoExclusive
  <2>2. Claimed(ExclusiveIds) = {}
    BY <1>5, <2>1 DEF Claimed
  <2>3. {m \in RoleIds : m < i} = RoleIds
    BY <1>5
  <2>4. remaining = Free
    BY <1>1, <2>3 DEF PoolInv, PoolExact, Free
  <2> QED
    BY <1>1, <1>2, <1>3, <2>2, <2>4 DEF PoolExact, AfterShared
<1>7. TakenExact'
  <2>1. \A k \in RoleIds \ LeftoverIds : k \in RoleIds
    OBVIOUS
  <2>2. \A k \in ExplicitExclusive : k \in RoleIds /\ Roles[k].exclusive /\ k \notin LeftoverIds
    BY DEF ExplicitExclusive, RoleIds, LeftoverIds, Automatic, Explicit
  <2>3. exclusiveTaken' \subseteq ExclusiveCores(RoleIds \ LeftoverIds)
    BY <1>1, <1>5, <2>2 DEF ExclusiveCores
  <2>4. ASSUME NEW k \in RoleIds \ LeftoverIds, Roles[k].exclusive
        PROVE  Claim(k) \subseteq exclusiveTaken'
    <3>1. Claim(k) = Roles[k].cores
      BY <1>5
    <3>2. CASE Roles[k].cores = {}
      BY <3>1, <3>2
    <3>3. CASE Roles[k].cores # {}
      <4>1. k \in ExplicitExclusive
        BY <2>4, <3>3 DEF ExplicitExclusive, RoleIds
      <4> QED
        BY <1>1, <3>1, <4>1
    <3> QED
      BY <3>2, <3>3
  <2>5. ExclusiveCores(RoleIds \ LeftoverIds) \subseteq exclusiveTaken'
    BY <2>4 DEF ExclusiveCores
  <2> QED
    BY <1>2, <1>3, <2>3, <2>5 DEF TakenExact
<1>8. LeftoversGiven' /\ OnlyShortBefore' /\ CollisionsReported'
  BY <1>1 DEF PoolInv, LeftoversGiven, OnlyShortBefore, CollisionsReported, Planned
<1> QED
  BY <1>3, <1>6, <1>7, <1>8 DEF PoolInv

LEMMA LoopEndPool ==
    ASSUME IInv, PoolInv, ExclusiveAllocated \/ SharedAllocated
    PROVE  PoolInv'
<1>1. /\ UNCHANGED <<input, alloc, housekeeping, remaining, exclusiveTaken, warnings>>
      /\ \/ phase = "exclusive" /\ phase' = "shared" /\ nonexPool' = remaining
         \/ phase = "shared" /\ phase' = "leftovers" /\ nonexPool' = nonexPool
  BY DEF ExclusiveAllocated, SharedAllocated, ShareablePool, AtEnd, In, Enter, locals
<1>2. /\ Available' = Available /\ RoleIds' = RoleIds /\ Free' = Free
      /\ ExclusiveIds' = ExclusiveIds /\ LeftoverIds' = LeftoverIds
  BY <1>1, SameInput
<1>3. /\ \A S : Claimed(S)' = Claimed(S) /\ ExclusiveCores(S)' = ExclusiveCores(S)
      /\ IsFiniteSet(Available)' /\ Covered' /\ LastResort' /\ HousekeeperKnown'
  BY <1>1, QuietPool
<1>4. PoolExact'
  BY <1>1, <1>2, <1>3 DEF PoolInv, PoolExact, AfterShared
<1>5. TakenExact'
  BY <1>1, <1>2, <1>3 DEF PoolInv, TakenExact, AfterExplicit, AfterShared
<1>6. LeftoversGiven' /\ OnlyShortBefore' /\ CollisionsReported'
  BY <1>1 DEF PoolInv, LeftoversGiven, OnlyShortBefore, CollisionsReported, Planned
<1> QED
  BY <1>3, <1>4, <1>5, <1>6 DEF PoolInv

(* A role is given cores that were free, or one that may share takes all   *)
(* that are left.                                                          *)
LEMMA GivesCovered ==
    ASSUME IInv, PoolInv, phase # "validate", phase' # "validate",
           NEW k \in RoleIds, NEW set, Gives(k, set),
           remaining' \in {remaining, remaining \ set},
           \/ phase = "explicit" /\ Explicit(k)
           \/ phase # "explicit" /\ set \subseteq remaining
              /\ \A l \in RoleIds : Claim(l) \cap remaining = {}
           \/ input.allowOverlap /\ remaining \subseteq set /\ remaining' = remaining \ set
    PROVE  /\ Claimed(RoleIds)' = Claimed(RoleIds) \cup set
           /\ IsFiniteSet(Available)' /\ Covered' /\ LastResort' /\ HousekeeperKnown'
<1>1. /\ Roles' = Roles /\ Available' = Available /\ RoleIds' = RoleIds /\ Seen' = Seen
      /\ UNCHANGED <<input, housekeeping>>
  BY SameInput DEF Seen, Gives
<1>2. RoleIds = 1 .. Seen
  BY AllSeen
<1>3. Claim(k) = {} /\ \A l \in RoleIds : Claim(l)' = IF l = k THEN set ELSE Claim(l)
  BY DEF Gives
<1>4. Claimed(RoleIds)' = Claimed(RoleIds) \cup set
  BY <1>1, <1>3 DEF Claimed
<1>5. Covered'
  BY <1>1, <1>4 DEF PoolInv, Covered
<1>6. HousekeeperKnown'
  BY <1>1 DEF PoolInv, HousekeeperKnown
<1>7. LastResort'
  <2> SUFFICES ASSUME NEW x \in RoleIds, NEW y \in RoleIds, x # y,
                      Automatic(x), Automatic(y), Claim(x)' \cap Claim(y)' # {}
               PROVE  input.allowOverlap /\ Available \subseteq Claimed(RoleIds)'
    BY <1>1, <1>2 DEF LastResort, Automatic, Explicit
  <2>1. CASE Claim(x) \cap Claim(y) # {}
    BY <1>2, <1>4, <2>1 DEF PoolInv, LastResort
  <2>2. CASE Claim(x) \cap Claim(y) = {}
    <3>1. x = k \/ y = k
      BY <1>3, <2>2
    <3>2. phase # "explicit" \/ ~Explicit(k)
      BY <3>1 DEF Automatic
    <3>3. ~(/\ set \subseteq remaining
            /\ \A l \in RoleIds : Claim(l) \cap remaining = {})
      BY <1>3, <3>1
    <3>4. input.allowOverlap /\ remaining' = {}
      BY <3>2, <3>3
    <3> QED
      BY <1>1, <1>5, <3>4 DEF Covered
  <2> QED
    BY <2>1, <2>2
<1> QED
  BY <1>1, <1>4, <1>5, <1>6, <1>7 DEF PoolInv

LEMMA GivesExplicitPool ==
    ASSUME IInv, PoolInv, phase = "explicit", GivesInTurn(Roles[i].cores), Explicit(i),
           UNCHANGED <<exclusiveTaken, warnings>>
    PROVE  PoolInv'
<1>1. /\ UNCHANGED <<input, phase>> /\ i' = i + 1 /\ i \in RoleIds
      /\ remaining' = remaining \ Roles[i].cores /\ Gives(i, Roles[i].cores)
  BY DEF GivesInTurn, Gives
<1>2. Roles' = Roles /\ Available' = Available /\ RoleIds' = RoleIds
  BY <1>1, SameInput
<1>3. IsFiniteSet(Available)' /\ Covered' /\ LastResort' /\ HousekeeperKnown'
  BY <1>1, GivesCovered
<1>4. PoolExact'
  <2>1. \A m \in RoleIds : m < i + 1 <=> m < i \/ m = i
    BY <1>1, AllSeen
  <2>2. \A c \in Available :
            c \in remaining <=> \A k \in RoleIds : k < i => c \notin Roles[k].cores
    BY DEF PoolInv, PoolExact
  <2>3. \A c \in Available :
            c \in remaining' <=> \A k \in RoleIds : k < i + 1 => c \notin Roles[k].cores
    BY <1>1, <2>1, <2>2
  <2>4. remaining' \subseteq Available
    BY <1>1 DEF IInv, TypeOK
  <2>5. remaining' = Available \ UNION {Roles[k].cores : k \in {m \in RoleIds : m < i + 1}}
    BY <2>3, <2>4
  <2> QED
    BY <1>1, <1>2, <2>5 DEF PoolExact, AfterShared
<1>5. TakenExact' /\ LeftoversGiven' /\ OnlyShortBefore' /\ CollisionsReported'
  BY <1>1 DEF PoolInv, TakenExact, LeftoversGiven, OnlyShortBefore, CollisionsReported,
              Planned, AfterExplicit, AfterShared
<1> QED
  BY <1>3, <1>4, <1>5 DEF PoolInv

LEMMA GivesExclusivePool ==
    ASSUME IInv, PoolInv, phase = "exclusive", NEW set \in SUBSET remaining,
           GivesInTurn(set), i \in ExclusiveIds,
           exclusiveTaken' = exclusiveTaken \cup set, UNCHANGED warnings
    PROVE  PoolInv'
<1>1. /\ UNCHANGED <<input, phase>> /\ i \in RoleIds
      /\ remaining' = remaining \ set /\ Gives(i, set)
      /\ Claim(i) = {} /\ \A l \in RoleIds : Claim(l)' = IF l = i THEN set ELSE Claim(l)
  BY DEF GivesInTurn, Gives
<1>2. /\ Roles' = Roles /\ Available' = Available /\ RoleIds' = RoleIds /\ Free' = Free
      /\ ExclusiveIds' = ExclusiveIds /\ LeftoverIds' = LeftoverIds
  BY <1>1, SameInput
<1>3. \A l \in RoleIds : Claim(l) \cap remaining = {}
  BY AllSeen DEF IInv, RemainingIsFree
<1>4. IsFiniteSet(Available)' /\ Covered' /\ LastResort' /\ HousekeeperKnown'
  BY <1>1, <1>3, GivesCovered
<1>5. PoolExact'
  <2>1. ExclusiveIds \subseteq RoleIds
    BY DEF ExclusiveIds
  <2>2. Claimed(ExclusiveIds)' = Claimed(ExclusiveIds) \cup set
    BY <1>1, <1>2, <2>1 DEF Claimed
  <2> QED
    BY <1>1, <1>2, <2>2 DEF PoolInv, PoolExact, AfterShared
<1>6. TakenExact'
  <2>1. i \in RoleIds \ LeftoverIds /\ Roles[i].exclusive
    BY <1>1 DEF LeftoverIds, ExclusiveIds, AutoExclusive
  <2>2. \A l \in RoleIds \ LeftoverIds : l \in RoleIds
    OBVIOUS
  <2>3. ExclusiveCores(RoleIds \ LeftoverIds)' = ExclusiveCores(RoleIds \ LeftoverIds) \cup set
    BY <1>1, <1>2, <2>1, <2>2 DEF ExclusiveCores
  <2> QED
    BY <1>1, <2>3 DEF PoolInv, TakenExact, AfterExplicit
<1>7. LeftoversGiven' /\ OnlyShortBefore' /\ CollisionsReported'
  BY <1>1 DEF PoolInv, LeftoversGiven, OnlyShortBefore, CollisionsReported, Planned
<1> QED
  BY <1>4, <1>5, <1>6, <1>7 DEF PoolInv

LEMMA GivesSharedPool ==
    ASSUME IInv, PoolInv, phase = "shared", NEW set \in SUBSET nonexPool,
           GivesInTurn(set), i \in SharedIds, UNCHANGED exclusiveTaken,
           warnings' = warnings \cup ShortWarning(Roles[i], set),
           set \subseteq remaining \/ (input.allowOverlap /\ remaining \subseteq set)
    PROVE  PoolInv'
<1>1. /\ UNCHANGED <<input, phase, nonexPool>> /\ i \in RoleIds
      /\ remaining' = remaining \ set /\ Gives(i, set)
      /\ \A l \in RoleIds : Claim(l)' = IF l = i THEN set ELSE Claim(l)
  BY DEF GivesInTurn, Gives
<1>2. /\ Roles' = Roles /\ Available' = Available /\ RoleIds' = RoleIds /\ Free' = Free
      /\ ExclusiveIds' = ExclusiveIds /\ LeftoverIds' = LeftoverIds
  BY <1>1, SameInput
<1>3. \A l \in RoleIds : Claim(l) \cap remaining = {}
  BY AllSeen DEF IInv, RemainingIsFree
<1>4. IsFiniteSet(Available)' /\ Covered' /\ LastResort' /\ HousekeeperKnown'
  BY <1>1, <1>3, GivesCovered
<1>5. ~Roles[i].exclusive
  BY DEF SharedIds, AutoShared
<1>6. PoolExact'
  <2>1. \A l \in ExclusiveIds : l \in RoleIds /\ l # i
    BY <1>5 DEF ExclusiveIds, AutoExclusive
  <2>2. Claimed(ExclusiveIds)' = Claimed(ExclusiveIds)
    BY <1>1, <1>2, <2>1 DEF Claimed
  <2> QED
    BY <1>1, <1>2, <2>2 DEF PoolInv, PoolExact
<1>7. TakenExact'
  <2>1. \A l \in RoleIds \ LeftoverIds : Roles[l].exclusive => l \in RoleIds /\ l # i
    BY <1>5
  <2>2. ExclusiveCores(RoleIds \ LeftoverIds)' = ExclusiveCores(RoleIds \ LeftoverIds)
    BY <1>1, <1>2, <2>1 DEF ExclusiveCores
  <2> QED
    BY <1>1, <2>2 DEF PoolInv, TakenExact
<1>8. OnlyShortBefore'
  <2>1. \A w \in ShortWarning(Roles[i], set) : w.kind = "short"
    BY DEF ShortWarning
  <2> QED
    BY <1>1, <2>1 DEF PoolInv, OnlyShortBefore
<1>9. LeftoversGiven' /\ CollisionsReported'
  BY <1>1 DEF PoolInv, LeftoversGiven, CollisionsReported, Planned
<1> QED
  BY <1>4, <1>6, <1>7, <1>8, <1>9 DEF PoolInv

(* The leftovers go to a role whose cores exclusiveTaken never holds.      *)
LEMMA LeftoversPool ==
    ASSUME IInv, ServedInv, PoolInv, AllocHousekeeping
    PROVE  PoolInv'
<1>1. /\ phase = "leftovers" /\ UNCHANGED input
      /\ \/ Refuse("noLeftovers")
         \/ /\ Enter("disjoint") /\ \E k \in LeftoverIds : Gives(k, remaining)
            /\ UNCHANGED <<remaining, exclusiveTaken, nonexPool, warnings>>
         \/ Enter("disjoint") /\ UNCHANGED locals /\ LeftoverIds = {}
  BY LeftoversGives DEF PoolInv
<1>2. /\ Roles' = Roles /\ Available' = Available /\ RoleIds' = RoleIds /\ Free' = Free
      /\ ExclusiveIds' = ExclusiveIds /\ LeftoverIds' = LeftoverIds
  BY <1>1, SameInput
<1>3. CASE Refuse("noLeftovers")
  BY <1>1, <1>3, PoolSame DEF Refuse
<1>4. CASE Enter("disjoint") /\ UNCHANGED locals /\ LeftoverIds = {}
  <2>1. phase' = "disjoint" /\ UNCHANGED <<alloc, housekeeping, remaining, exclusiveTaken,
                                           nonexPool, warnings>>
    BY <1>4 DEF Enter, locals
  <2>2. /\ \A S : Claimed(S)' = Claimed(S) /\ ExclusiveCores(S)' = ExclusiveCores(S)
        /\ IsFiniteSet(Available)' /\ Covered' /\ LastResort' /\ HousekeeperKnown'
    BY <1>1, <2>1, QuietPool
  <2>3. PoolExact' /\ TakenExact'
    BY <1>1, <1>2, <2>1, <2>2
       DEF PoolInv, PoolExact, TakenExact, AfterExplicit, AfterShared
  <2>4. LeftoversGiven' /\ OnlyShortBefore' /\ CollisionsReported'
    BY <1>1, <1>2, <1>4, <2>1
       DEF PoolInv, LeftoversGiven, OnlyShortBefore, CollisionsReported, Planned
  <2> QED
    BY <2>2, <2>3, <2>4 DEF PoolInv
<1>5. ASSUME Enter("disjoint"), NEW k \in LeftoverIds, Gives(k, remaining),
             UNCHANGED <<remaining, exclusiveTaken, nonexPool, warnings>>
      PROVE  PoolInv'
  <2>1. /\ phase' = "disjoint" /\ k \in RoleIds
        /\ \A l \in RoleIds : Claim(l)' = IF l = k THEN remaining ELSE Claim(l)
    BY <1>5 DEF Enter, Gives
  <2>2. \A l \in RoleIds : Claim(l) \cap remaining = {}
    BY <1>1, AllSeen DEF IInv, RemainingIsFree
  <2>3. /\ Claimed(RoleIds)' = Claimed(RoleIds) \cup remaining
        /\ IsFiniteSet(Available)' /\ Covered' /\ LastResort' /\ HousekeeperKnown'
    BY <1>1, <1>5, <2>1, <2>2, GivesCovered
  <2>4. PoolExact'
    <3>1. \A l \in ExclusiveIds : l \in RoleIds /\ l # k
      BY DEF ExclusiveIds, LeftoverIds
    <3>2. Claimed(ExclusiveIds)' = Claimed(ExclusiveIds)
      BY <1>2, <2>1, <3>1 DEF Claimed
    <3> QED
      BY <1>1, <1>2, <1>5, <2>1, <3>2 DEF PoolInv, PoolExact, AfterShared
  <2>5. TakenExact'
    <3>1. \A l \in RoleIds \ LeftoverIds : l \in RoleIds /\ l # k
      OBVIOUS
    <3>2. ExclusiveCores(RoleIds \ LeftoverIds)' = ExclusiveCores(RoleIds \ LeftoverIds)
      BY <1>2, <2>1, <3>1 DEF ExclusiveCores
    <3> QED
      BY <1>1, <1>5, <3>2 DEF PoolInv, TakenExact, AfterExplicit, AfterShared
  <2>6. LeftoversGiven' /\ OnlyShortBefore' /\ CollisionsReported'
    BY <1>1, <1>2, <1>5, <2>1, <2>3
       DEF PoolInv, LeftoversGiven, OnlyShortBefore, CollisionsReported, Planned
  <2> QED
    BY <2>3, <2>4, <2>5, <2>6 DEF PoolInv
<1> QED
  BY <1>1, <1>3, <1>4, <1>5

(* The pairs warned of are the siblings that are both in exclusiveTaken:   *)
(* the walk looks at each pair from its lower core only.                   *)
LEMMA CollisionsFound ==
    ASSUME IInv, OnlyShortBefore, phase = "smt", WarnSMT, Topology
    PROVE  {w \in warnings' : w.kind = "smt"} =
               {SMTWarning(pair[1], pair[2]) : pair \in Collide(exclusiveTaken)}
<1> DEFINE found == {SMTWarning(pair[1], pair[2]) : pair \in Collisions}
<1>1. warnings' = warnings \cup found
  BY DEF WarnSMT
<1>2. \A w \in warnings : w.kind # "smt"
  BY DEF OnlyShortBefore
<1>3. \A w \in found : w.kind = "smt"
  BY DEF SMTWarning
<1>4. {w \in warnings' : w.kind = "smt"} = found
  <2> HIDE DEF found
  <2> QED
    BY <1>1, <1>2, <1>3
<1>5. exclusiveTaken \subseteq Core /\ exclusiveTaken \subseteq Nat
  BY CoreAssumption DEF IInv, TypeOK
<1>6. Collisions \subseteq Collide(exclusiveTaken)
  BY DEF Collisions, Collide
<1>7. ASSUME NEW c \in exclusiveTaken, NEW d \in exclusiveTaken, d \in Siblings[c]
      PROVE  SMTWarning(c, d) \in found
  <2>1. c # d /\ c \in Siblings[d]
    BY <1>5, <1>7 DEF Topology
  <2>2. c < d \/ d < c
    BY <1>5, <2>1
  <2>3. CASE c < d
    <3>1. <<c, d>> \in Collisions
      BY <1>7, <2>3 DEF Collisions
    <3> QED
      BY <3>1
  <2>4. CASE d < c
    <3>1. <<d, c>> \in Collisions
      BY <2>1, <2>4 DEF Collisions
    <3>2. SMTWarning(c, d) = SMTWarning(d, c)
      BY DEF SMTWarning
    <3> QED
      BY <3>1, <3>2
  <2> QED
    BY <2>2, <2>3, <2>4
<1>8. found = {SMTWarning(pair[1], pair[2]) : pair \in Collide(exclusiveTaken)}
  BY <1>6, <1>7 DEF Collide
<1> QED
  BY <1>4, <1>8

LEMMA ReturnPool ==
    ASSUME IInv, PoolInv, CheckExclusivity \/ WarnSMT
    PROVE  PoolInv'
<1>1. CASE CheckExclusivity /\ Refuse("overlap")
  BY <1>1, PoolSame DEF Refuse, CheckExclusivity, In
<1>2. CASE ~(CheckExclusivity /\ Refuse("overlap"))
  <2>1. /\ phase' \in {"smt", "done"} /\ phase \in {"disjoint", "smt"}
        /\ UNCHANGED <<input, alloc, housekeeping, remaining, exclusiveTaken, nonexPool>>
        /\ phase' = "smt" => UNCHANGED warnings
        /\ phase' = "done" => phase = "smt" /\ WarnSMT
    BY <1>2 DEF CheckExclusivity, WarnSMT, In, Enter, locals
  <2>2. /\ Roles' = Roles /\ Available' = Available /\ RoleIds' = RoleIds /\ Free' = Free
        /\ ExclusiveIds' = ExclusiveIds /\ LeftoverIds' = LeftoverIds
        /\ Siblings' = Siblings /\ (Topology' <=> Topology)
    BY <2>1, SameInput
  <2>3. /\ \A S : Claimed(S)' = Claimed(S) /\ ExclusiveCores(S)' = ExclusiveCores(S)
        /\ IsFiniteSet(Available)' /\ Covered' /\ LastResort' /\ HousekeeperKnown'
    BY <2>1, QuietPool
  <2>4. PoolExact' /\ TakenExact'
    BY <2>1, <2>2, <2>3 DEF PoolInv, PoolExact, TakenExact, AfterExplicit, AfterShared
  <2>5. LeftoversGiven' /\ OnlyShortBefore'
    BY <2>1, <2>2, <2>3 DEF PoolInv, LeftoversGiven, OnlyShortBefore
  <2>6. CollisionsReported'
    <3> SUFFICES ASSUME Planned', Topology
                 PROVE  {w \in warnings' : w.kind = "smt"} =
                            {SMTWarning(pair[1], pair[2]) :
                                pair \in Collide(ExclusiveCores(RoleIds \ LeftoverIds))'}
      BY <2>2 DEF CollisionsReported
    <3>1. phase = "smt" /\ WarnSMT
      BY <2>1 DEF Planned
    <3>2. ExclusiveCores(RoleIds \ LeftoverIds)' = exclusiveTaken
      BY <2>2, <2>3, <3>1 DEF PoolInv, TakenExact, AfterExplicit, AfterShared
    <3>3. Collide(ExclusiveCores(RoleIds \ LeftoverIds))' = Collide(exclusiveTaken)
      BY <2>2, <3>2 DEF Collide
    <3> QED
      BY <3>1, <3>3, CollisionsFound DEF PoolInv
  <2> QED
    BY <2>3, <2>4, <2>5, <2>6 DEF PoolInv
<1> QED
  BY <1>1, <1>2

LEMMA NextPool ==
    ASSUME IInv, ServedInv, PoolInv, IInv', [Next]_vars
    PROVE  PoolInv'
<1>1. CASE RefuseEmpty \/ Terminated \/ UNCHANGED vars
  BY <1>1, PoolSame DEF RefuseEmpty, Terminated, In, Refuse, vars
<1>2. CASE ClaimExplicit
  <2>1. CASE SkipsRole /\ Automatic(i)
    BY <1>2, <2>1, ExplicitGives, SkipPool
  <2>2. CASE Refuse("outside") /\ UNCHANGED input
    BY <2>2, RefusePool
  <2> QED
    BY <1>2, <2>1, <2>2, ExplicitGives, GivesExplicitPool
<1>3. CASE AllocExclusive
  <2>1. CASE SkipsRole
    BY <1>3, <2>1, ExclusiveGives, SkipPool DEF PoolInv
  <2>2. CASE Refuse("noExclusive") /\ UNCHANGED input
    BY <2>2, RefusePool
  <2> QED
    BY <1>3, <2>1, <2>2, ExclusiveGives, GivesExclusivePool DEF PoolInv
<1>4. CASE AllocShared
  <2>0. remaining \subseteq nonexPool
    BY <1>4 DEF AllocShared, AtRole, In, PoolInv, PoolExact
  <2>1. CASE SkipsRole
    BY <1>4, <2>0, <2>1, SharedGives, SkipPool DEF PoolInv
  <2>2. CASE Refuse("noShared") /\ UNCHANGED input
    BY <2>2, RefusePool
  <2> QED
    BY <1>4, <2>0, <2>1, <2>2, SharedGives, GivesSharedPool DEF PoolInv
<1> QED
  BY <1>1, <1>2, <1>3, <1>4, ValidatePool, ValidatedPool, ExplicitClaimedPool, LoopEndPool,
     LeftoversPool, ReturnPool DEF Next

(* Every available core is accounted for, through every phase.             *)
THEOREM PoolInvariant == Spec => [](IInv /\ ServedInv /\ PoolInv)
<1>1. Init => IInv /\ ServedInv /\ PoolInv
  BY InitIInv, InitServed, InitPool
<1>2. IInv /\ ServedInv /\ PoolInv /\ [Next]_vars => (IInv /\ ServedInv /\ PoolInv)'
  BY NextIInv, NextServed, NextPool
<1> QED
  BY <1>1, <1>2, PTL DEF Spec

LEMMA PlannedContext ==
    ASSUME IInv, Planned
    PROVE  phase = "done" /\ RoleIds = 1 .. Seen
BY AllSeen DEF Planned

(* A plan with a housekeeping role that was left the leftovers loses no    *)
(* available core (plan.go:152-161).                                       *)
THEOREM PlannerLosesNoCore == Spec => []LeftoversComplete
<1>1. IInv /\ ServedInv /\ PoolInv => LeftoversComplete
  <2> SUFFICES ASSUME IInv, ServedInv, PoolInv, Planned, LeftoverIds # {}
               PROVE  Available = Claimed(RoleIds)
    BY DEF LeftoversComplete, Claimed
  <2>1. phase = "done" /\ RoleIds = 1 .. Seen
    BY PlannedContext
  <2>2. Available \subseteq Claimed(RoleIds)
    BY <2>1 DEF PoolInv, Covered, LeftoversGiven
  <2>3. Claimed(RoleIds) \subseteq Available
    BY <2>1 DEF ServedInv, ClaimsAvailable, Claimed
  <2> QED
    BY <2>2, <2>3
<1> QED
  BY <1>1, PoolInvariant, PTL

(* Automatic roles share cores only under AllowOverlap, and then every     *)
(* available core is in use (plan.go:122-150).                             *)
THEOREM PlannerSharesLast == Spec => []SharingIsLastResort
<1>1. IInv /\ ServedInv /\ PoolInv => SharingIsLastResort
  BY PlannedContext DEF PoolInv, LastResort, SharingIsLastResort, Claimed
<1> QED
  BY <1>1, PoolInvariant, PTL

(* A plan warns of exactly the SMT siblings that its exclusive roles hold, *)
(* leftovers apart (plan.go:183-191).                                      *)
THEOREM PlannerReportsCollisions == Spec => []CollisionsReported
<1>1. PoolInv => CollisionsReported
  BY DEF PoolInv
<1> QED
  BY <1>1, PoolInvariant, PTL

-----------------------------------------------------------------------------
(* Threads asked for, counted                                              *)

LEMMA RoleSlots ==
    ASSUME input \in Input, NEW k \in RoleIds
    PROVE  /\ IsFiniteSet({k} \X (1 .. Roles[k].threads))
           /\ Roles[k].threads \in Nat =>
                 Cardinality({k} \X (1 .. Roles[k].threads)) = Roles[k].threads
<1>1. Roles[k].threads \in Int
  BY ArgumentTypes DEF RoleIds, Role
<1>2. PICK t \in Int : t = Roles[k].threads
  BY <1>1
<1>3. /\ IsFiniteSet(1 .. t)
      /\ Cardinality(1 .. t) = IF 1 > t THEN 0 ELSE t - 1 + 1
  BY FS_Interval
<1>4. IsFiniteSet({k}) /\ Cardinality({k}) = 1
  BY FS_Singleton
<1>5. /\ IsFiniteSet({k} \X (1 .. t))
      /\ Cardinality({k} \X (1 .. t)) = Cardinality({k}) * Cardinality(1 .. t)
  BY <1>3, <1>4, FS_Product
<1>6. t \in Nat => Cardinality(1 .. t) = t
  BY <1>3
<1>7. t \in Nat => Cardinality({k} \X (1 .. t)) = t
  BY <1>4, <1>5, <1>6
<1> QED
  BY <1>2, <1>5, <1>7

LEMMA SlotsOfUnion ==
    ASSUME NEW S, NEW T
    PROVE  /\ Slots(S \cup T) = Slots(S) \cup Slots(T)
           /\ S \cap T = {} => Slots(S) \cap Slots(T) = {}
           /\ S \subseteq T => Slots(S) \subseteq Slots(T)
<1>1. \A s, U : s \in Slots(U) <=> \E k \in U : s \in {k} \X (1 .. Roles[k].threads)
  BY DEF Slots
<1>2. \A s, k : s \in {k} \X (1 .. Roles[k].threads) => s[1] = k
  OBVIOUS
<1>3. Slots(S \cup T) = Slots(S) \cup Slots(T)
  BY <1>1
<1>4. S \cap T = {} => Slots(S) \cap Slots(T) = {}
  BY <1>1, <1>2
<1>5. S \subseteq T => Slots(S) \subseteq Slots(T)
  BY <1>1
<1> QED
  BY <1>3, <1>4, <1>5

LEMMA SlotsOfOne ==
    ASSUME NEW k
    PROVE  Slots({k}) = {k} \X (1 .. Roles[k].threads)
BY DEF Slots

LEMMA SlotsFinite ==
    ASSUME input \in Input, NEW S \in SUBSET RoleIds
    PROVE  IsFiniteSet(Slots(S))
<1> DEFINE Up(n) == {k \in S : k <= n}
           Bad   == {n \in Nat : ~IsFiniteSet(Slots(Up(n)))}
<1>1. PICK last \in Nat : \A k \in S : k \in Nat /\ k >= 1 /\ k <= last
  <2>1. Len(Roles) \in Nat /\ RoleIds = 1 .. Len(Roles)
    BY ArgumentTypes DEF RoleIds
  <2>2. \A k \in S : k \in Nat /\ k >= 1 /\ k <= Len(Roles)
    BY <2>1
  <2> QED
    BY <2>1, <2>2
<1>2. Up(last) = S
  <2>1. \A k \in S : k <= last
    BY <1>1
  <2> QED
    BY <2>1
<1>3. SUFFICES ASSUME Bad # {} PROVE FALSE
  BY <1>1, <1>2
<1>4. PICK n \in Bad : Below(Bad, n) = {}
  <2>1. Bad \subseteq Nat
    OBVIOUS
  <2> HIDE DEF Bad
  <2> QED
    BY <1>3, <2>1, LowestCore
<1>5. n \in Nat /\ ~IsFiniteSet(Slots(Up(n)))
  OBVIOUS
<1>6. n # 0
  <2>1. \A k \in S : ~(k <= 0)
    BY <1>1
  <2>2. Up(0) = {}
    BY <2>1
  <2>3. Slots({}) = {}
    BY DEF Slots
  <2>4. IsFiniteSet(Slots(Up(0)))
    BY <2>2, <2>3, FS_EmptySet
  <2> QED
    BY <1>5, <2>4
<1>7. n - 1 \in Nat /\ n - 1 < n
  BY <1>5, <1>6
<1>8. IsFiniteSet(Slots(Up(n - 1)))
  BY <1>4, <1>7 DEF Below
<1>9. \A k \in S : k <= n <=> k <= n - 1 \/ k = n
  BY <1>1, <1>5
<1>10. CASE n \notin S
  <2>1. \A k \in S : k <= n <=> k <= n - 1
    BY <1>9, <1>10
  <2>2. Up(n) = Up(n - 1)
    BY <2>1
  <2> QED
    BY <1>5, <1>8, <2>2
<1>11. CASE n \in S
  <2>1. Up(n) = Up(n - 1) \cup {n}
    BY <1>9, <1>11
  <2>2. Slots(Up(n)) = Slots(Up(n - 1)) \cup Slots({n})
    <3> HIDE DEF Up
    <3> QED
      BY <2>1, SlotsOfUnion
  <2>3. IsFiniteSet(Slots({n}))
    BY <1>11, RoleSlots, SlotsOfOne
  <2> HIDE DEF Up
  <2> QED
    BY <1>5, <1>8, <2>2, <2>3, FS_Union
<1> QED
  BY <1>10, <1>11

LEMMA SlotsAdd ==
    ASSUME input \in Input, NEW S \in SUBSET RoleIds, NEW k \in RoleIds, k \notin S,
           Roles[k].threads \in Nat
    PROVE  Cardinality(Slots(S \cup {k})) = Cardinality(Slots(S)) + Roles[k].threads
<1>1. IsFiniteSet(Slots(S)) /\ IsFiniteSet(Slots({k}))
  BY SlotsFinite
<1>2. Cardinality(Slots({k})) = Roles[k].threads
  BY RoleSlots, SlotsOfOne
<1>3. Slots(S \cup {k}) = Slots(S) \cup Slots({k}) /\ Slots(S) \cap Slots({k}) = {}
  <2>1. S \cap {k} = {}
    OBVIOUS
  <2> QED
    BY <2>1, SlotsOfUnion
<1> QED
  BY <1>1, <1>2, <1>3, DisjointUnion

LEMMA SlotsNat ==
    ASSUME input \in Input, NEW S \in SUBSET RoleIds
    PROVE  Cardinality(Slots(S)) \in Nat
BY SlotsFinite, FS_CardinalityType

LEMMA SlotsMonotone ==
    ASSUME input \in Input, NEW T \in SUBSET RoleIds, NEW S \in SUBSET T
    PROVE  Cardinality(Slots(S)) <= Cardinality(Slots(T))
<1>1. IsFiniteSet(Slots(T)) /\ Slots(S) \subseteq Slots(T)
  BY SlotsFinite, SlotsOfUnion
<1> QED
  BY <1>1, FS_Subset

LEMMA SlotsDisjoint ==
    ASSUME input \in Input, NEW S \in SUBSET RoleIds, NEW T \in SUBSET RoleIds, S \cap T = {}
    PROVE  Cardinality(Slots(S \cup T)) = Cardinality(Slots(S)) + Cardinality(Slots(T))
<1>1. IsFiniteSet(Slots(S)) /\ IsFiniteSet(Slots(T))
  BY SlotsFinite
<1>2. Slots(S \cup T) = Slots(S) \cup Slots(T) /\ Slots(S) \cap Slots(T) = {}
  BY SlotsOfUnion
<1> QED
  BY <1>1, <1>2, DisjointUnion

-----------------------------------------------------------------------------
(* How many cores there are                                                *)

LEMMA InitCount == Init => CountInv
<1> SUFFICES ASSUME Init PROVE CountInv
  OBVIOUS
<1>1. GivenExclusive = {} /\ GivenShared = {}
  BY DEF Init, GivenExclusive, GivenShared, PastExclusive, PastShared, AfterShared
<1>2. ThreadsServed /\ SupplyCounted
  BY <1>1 DEF Init, ThreadsServed, SupplyCounted, AfterExplicit, AfterShared
<1>3. RefusedExactlyWhenShort
  BY DEF Init, RefusedExactlyWhenShort, Justified
<1> QED
  BY <1>2, <1>3 DEF CountInv

(* Before phase 2 nothing is counted.                                      *)
LEMMA CountEarly ==
    ASSUME UNCHANGED input, err = "none", phase' \in {"validate", "explicit"},
           err' \in {err, "empty", "malformed", "outside"}
    PROVE  CountInv'
<1>1. GivenExclusive' = {} /\ GivenShared' = {}
  BY DEF GivenExclusive, GivenShared, PastExclusive, PastShared, AfterShared
<1>2. ThreadsServed' /\ SupplyCounted'
  BY <1>1 DEF ThreadsServed, SupplyCounted, AfterExplicit, AfterShared
<1>3. RefusedExactlyWhenShort'
  BY DEF RefusedExactlyWhenShort, Justified
<1> QED
  BY <1>2, <1>3 DEF CountInv

LEMMA SameCounts ==
    ASSUME UNCHANGED input
    PROVE  /\ Supply' = Supply
           /\ Cardinality(Slots(ExclusiveIds))' = Cardinality(Slots(ExclusiveIds))
           /\ \A S : Slots(S)' = Slots(S)
           /\ (GivenExclusive \cup GivenShared)' = GivenExclusive \cup GivenShared
                 => Asked' = Asked
<1>1. Roles' = Roles /\ Free' = Free /\ ExclusiveIds' = ExclusiveIds
  BY SameInput
<1>2. \A S : Slots(S)' = Slots(S)
  BY <1>1 DEF Slots
<1> QED
  BY <1>1, <1>2 DEF Supply, Asked

(* A step that gives nothing and passes no role that was to be given any.  *)
LEMMA CountMoves ==
    ASSUME CountInv, UNCHANGED <<input, alloc, remaining, nonexPool>>,
           warnings \subseteq warnings',
           GivenExclusive' = GivenExclusive, GivenShared' = GivenShared,
           phase \in AfterExplicit,
           phase' = "exclusive" => phase = "exclusive",
           phase' \in AfterShared \cup {"shared"} => phase \in AfterShared \cup {"shared"}
    PROVE  ThreadsServed' /\ SupplyCounted'
<1>1. /\ Roles' = Roles /\ ExclusiveIds' = ExclusiveIds
      /\ Supply' = Supply /\ Asked' = Asked
      /\ Cardinality(Slots(ExclusiveIds))' = Cardinality(Slots(ExclusiveIds))
  BY SameInput, SameCounts
<1>2. \A k : Claim(k)' = Claim(k)
  BY <1>1 DEF Claim
<1>3. ThreadsServed'
  BY <1>1, <1>2 DEF CountInv, ThreadsServed
<1>4. SupplyCounted'
  BY <1>1 DEF CountInv, SupplyCounted, AfterExplicit, AfterShared
<1> QED
  BY <1>3, <1>4

(* An error return keeps the state it was decided in.                      *)
LEMMA CountSame ==
    ASSUME CountInv, UNCHANGED <<input, phase, i, locals>>, Justified(err')
    PROVE  CountInv'
<1>1. Roles' = Roles /\ ExclusiveIds' = ExclusiveIds /\ SharedIds' = SharedIds
      /\ UNCHANGED <<alloc, remaining, nonexPool, warnings>>
  BY SameInput DEF locals
<1>2. GivenExclusive' = GivenExclusive /\ GivenShared' = GivenShared
  BY <1>1 DEF GivenExclusive, GivenShared, PastExclusive, PastShared
<1>3. ThreadsServed' /\ SupplyCounted'
  <2>1. CASE phase \in AfterExplicit
    BY <1>1, <1>2, <2>1, CountMoves
  <2>2. CASE phase \notin AfterExplicit
    <3>1. \A k : Claim(k)' = Claim(k)
      BY <1>1 DEF Claim
    <3> QED
      BY <1>1, <1>2, <2>2, <3>1
         DEF CountInv, ThreadsServed, SupplyCounted, AfterExplicit, AfterShared
  <2> QED
    BY <2>1, <2>2
<1>4. Supply' = Supply /\ Asked' = Asked /\ i' = i
  BY <1>2, SameInput, SameCounts
<1>5. \A S : FirstOver(S)' <=> FirstOver(S)
  BY <1>1, <1>4 DEF FirstOver
<1>6. Justified(err)'
  BY <1>1, <1>4, <1>5, SameInput DEF Justified, FirstOver
<1>7. RefusedExactlyWhenShort'
  BY <1>6, SameInput DEF CountInv, RefusedExactlyWhenShort
<1> QED
  BY <1>3, <1>7 DEF CountInv

LEMMA NoNewRefusal ==
    ASSUME CountInv, UNCHANGED <<input, err>>, err = "none",
           phase' \in {"disjoint", "smt", "done"} =>
               phase \in {"disjoint", "smt", "done"} \/ ~Shortage
    PROVE  RefusedExactlyWhenShort'
BY SameInput DEF CountInv, RefusedExactlyWhenShort, Justified

LEMMA SkipCount ==
    ASSUME IInv, CountInv, SkipsRole,
           \/ phase = "exclusive" /\ ~AutoExclusive(Roles[i])
           \/ phase = "shared" /\ ~AutoShared(Roles[i])
    PROVE  CountInv'
<1>1. /\ i' = i + 1 /\ i \in RoleIds
      /\ UNCHANGED <<input, phase, err, alloc, remaining, nonexPool, warnings>>
      /\ err = "none"
  BY DEF SkipsRole, Skip, NextRole, locals
<1>2. /\ Roles' = Roles /\ ExclusiveIds' = ExclusiveIds /\ SharedIds' = SharedIds
      /\ \A k \in RoleIds : k < i + 1 <=> k < i \/ k = i
  BY <1>1, SameInput, AllSeen
<1>3. i \in ExclusiveIds => phase = "shared"
  BY DEF ExclusiveIds
<1>4. i \in SharedIds => phase = "exclusive"
  BY DEF SharedIds
<1>5. GivenExclusive' = GivenExclusive
  <2>1. \A k \in ExclusiveIds : PastExclusive(k)' <=> PastExclusive(k)
    BY <1>1, <1>2, <1>3 DEF PastExclusive, AfterShared, ExclusiveIds
  <2> QED
    BY <1>2, <2>1 DEF GivenExclusive
<1>6. GivenShared' = GivenShared
  <2>1. \A k \in SharedIds : PastShared(k)' <=> PastShared(k)
    BY <1>1, <1>2, <1>4 DEF PastShared, AfterShared, SharedIds
  <2> QED
    BY <1>2, <2>1 DEF GivenShared
<1>7. ThreadsServed' /\ SupplyCounted'
  BY <1>1, <1>5, <1>6, CountMoves DEF AfterExplicit, AfterShared
<1>8. RefusedExactlyWhenShort'
  BY <1>1, NoNewRefusal
<1> QED
  BY <1>7, <1>8 DEF CountInv

(* Phase 2 starts from all the free cores.                                 *)
LEMMA ExplicitClaimedCount ==
    ASSUME IInv, PoolInv, CountInv, ExplicitClaimed
    PROVE  CountInv'
<1>1. /\ phase = "explicit" /\ phase' = "exclusive" /\ i > Len(Roles) /\ i' = 1
      /\ UNCHANGED <<input, err, remaining>> /\ err = "none"
  BY DEF ExplicitClaimed, AtEnd, In, Enter
<1>2. /\ RoleIds' = RoleIds /\ Free' = Free
      /\ ExclusiveIds' = ExclusiveIds /\ SharedIds' = SharedIds
  BY <1>1, SameInput
<1>3. \A k \in RoleIds : k < i /\ ~(k < 1)
  <2>1. RoleIds = 1 .. Len(Roles) /\ Len(Roles) \in Nat /\ i \in Nat
    BY <1>1, AllSeen DEF IInv, TypeOK
  <2> QED
    BY <1>1, <2>1
<1>4. remaining = Free
  <2>1. {m \in RoleIds : m < i} = RoleIds
    BY <1>3
  <2> QED
    BY <1>1, <2>1 DEF PoolInv, PoolExact, Free
<1>5. GivenExclusive' = {} /\ GivenShared' = {}
  BY <1>1, <1>2, <1>3 DEF GivenExclusive, GivenShared, PastExclusive, PastShared, AfterShared,
                          ExclusiveIds
<1>6. Asked' = 0
  <2>1. Slots({}) = {}
    BY DEF Slots
  <2>2. (GivenExclusive \cup GivenShared)' = {}
    BY <1>5
  <2> QED
    BY <1>1, <2>1, <2>2, SameCounts, FS_EmptySet DEF Asked
<1>7. Supply \in Nat /\ Supply' = Supply
  <2>1. Free \subseteq Available
    BY DEF Free
  <2> QED
    BY <1>1, <2>1, SameCounts, FS_Subset, FS_CardinalityType DEF Supply, PoolInv
<1>8. Cardinality(remaining') = Supply'
  BY <1>1, <1>4, <1>7 DEF Supply
<1>9. SupplyCounted'
  BY <1>1, <1>6, <1>7, <1>8 DEF SupplyCounted, AfterShared
<1>10. ThreadsServed'
  BY <1>5 DEF ThreadsServed
<1>11. RefusedExactlyWhenShort'
  BY <1>1, NoNewRefusal
<1> QED
  BY <1>9, <1>10, <1>11 DEF CountInv

(* The numbers the loops of phases 2 and 3 compare.                        *)
LEMMA CountTypes ==
    ASSUME IInv, PoolInv
    PROVE  /\ IsFiniteSet(remaining) /\ Cardinality(remaining) \in Nat
           /\ IsFiniteSet(nonexPool) /\ Cardinality(nonexPool) \in Nat
           /\ Supply \in Nat /\ Asked \in Nat
           /\ ExclusiveIds \in SUBSET RoleIds /\ SharedIds \in SUBSET RoleIds
           /\ ExclusiveIds \cap SharedIds = {}
           /\ GivenExclusive \subseteq ExclusiveIds /\ GivenShared \subseteq SharedIds
           /\ Cardinality(Slots(ExclusiveIds)) \in Nat
           /\ Cardinality(Slots(SharedIds)) \in Nat
           /\ Cardinality(Slots(ExclusiveIds \cup SharedIds))
                 = Cardinality(Slots(ExclusiveIds)) + Cardinality(Slots(SharedIds))
<1>1. input \in Input /\ IsFiniteSet(Available)
  BY DEF IInv, TypeOK, PoolInv
<1>2. remaining \subseteq Available /\ nonexPool \subseteq Available /\ Free \subseteq Available
  BY DEF IInv, TypeOK, Free
<1>3. /\ ExclusiveIds \in SUBSET RoleIds /\ SharedIds \in SUBSET RoleIds
      /\ ExclusiveIds \cap SharedIds = {}
      /\ GivenExclusive \subseteq ExclusiveIds /\ GivenShared \subseteq SharedIds
  BY DEF ExclusiveIds, SharedIds, AutoExclusive, AutoShared, GivenExclusive, GivenShared
<1>4. /\ IsFiniteSet(remaining) /\ Cardinality(remaining) \in Nat
      /\ IsFiniteSet(nonexPool) /\ Cardinality(nonexPool) \in Nat
      /\ Supply \in Nat
  BY <1>1, <1>2, FS_Subset, FS_CardinalityType DEF Supply
<1>5. GivenExclusive \cup GivenShared \in SUBSET RoleIds
  BY <1>3
<1>6. Asked \in Nat
  BY <1>1, <1>5, SlotsNat DEF Asked
<1> QED
  BY <1>1, <1>3, <1>4, <1>6, SlotsNat, SlotsDisjoint

LEMMA AskedMore ==
    ASSUME IInv, ServedInv, PoolInv, i \in RoleIds,
           \/ phase = "exclusive" /\ i \in ExclusiveIds
           \/ phase = "shared" /\ i \in SharedIds
    PROVE  /\ Roles[i].threads \in Nat /\ Roles[i].threads > 0
           /\ i \notin GivenExclusive \cup GivenShared
           /\ Cardinality(Slots(GivenExclusive \cup GivenShared \cup {i}))
                 = Asked + Roles[i].threads
           /\ phase = "exclusive" =>
                 Asked + Roles[i].threads <= Cardinality(Slots(ExclusiveIds))
           /\ Asked + Roles[i].threads
                 <= Cardinality(Slots(ExclusiveIds)) + Cardinality(Slots(SharedIds))
<1>1. input \in Input
  BY DEF IInv, TypeOK
<1>2. Roles[i].threads # 0 /\ phase # "validate" /\ i <= Len(Roles) /\ i \in Nat
  <2>1. RoleIds = 1 .. Len(Roles) /\ Len(Roles) \in Nat
    BY <1>1, ArgumentTypes DEF RoleIds
  <2> QED
    BY <2>1 DEF ExclusiveIds, SharedIds, AutoExclusive, AutoShared
<1>3. Roles[i].threads \in Nat /\ Roles[i].threads > 0
  BY <1>2, ThreadsPositive
<1>4. PICK G : G = GivenExclusive \cup GivenShared
  OBVIOUS
<1>5. i \notin G
  BY <1>2, <1>4, CountTypes
     DEF GivenExclusive, GivenShared, PastExclusive, PastShared, AfterShared
<1>6. G \in SUBSET RoleIds
  BY <1>4, CountTypes
<1>7. Cardinality(Slots(G \cup {i})) = Asked + Roles[i].threads
  BY <1>1, <1>3, <1>4, <1>5, <1>6, SlotsAdd DEF Asked
<1>8. phase = "exclusive" => Asked + Roles[i].threads <= Cardinality(Slots(ExclusiveIds))
  <2> SUFFICES ASSUME phase = "exclusive"
               PROVE  Asked + Roles[i].threads <= Cardinality(Slots(ExclusiveIds))
    OBVIOUS
  <2>1. GivenShared = {}
    BY DEF GivenShared, PastShared, AfterShared
  <2>2. G \cup {i} \in SUBSET ExclusiveIds /\ ExclusiveIds \in SUBSET RoleIds
    BY <1>4, <2>1, CountTypes
  <2> QED
    BY <1>1, <1>7, <2>2, SlotsMonotone
<1>9. Asked + Roles[i].threads
         <= Cardinality(Slots(ExclusiveIds)) + Cardinality(Slots(SharedIds))
  <2>1. /\ G \cup {i} \in SUBSET (ExclusiveIds \cup SharedIds)
        /\ ExclusiveIds \cup SharedIds \in SUBSET RoleIds
    BY <1>4, CountTypes
  <2>2. Cardinality(Slots(G \cup {i})) <= Cardinality(Slots(ExclusiveIds \cup SharedIds))
    BY <1>1, <2>1, SlotsMonotone
  <2> QED
    BY <1>7, <2>2, CountTypes
<1> QED
  BY <1>3, <1>4, <1>5, <1>7, <1>8, <1>9

(* The refusals of phases 2 and 3 come only when the threads asked for     *)
(* exceed the free cores, at the first role for which they do.             *)
LEMMA RefusedShort ==
    ASSUME IInv, ServedInv, PoolInv, CountInv, i \in RoleIds,
           Cardinality(remaining) < Roles[i].threads,
           \/ phase = "exclusive" /\ i \in ExclusiveIds
           \/ /\ phase = "shared" /\ i \in SharedIds
              /\ ~input.allowOverlap \/ nonexPool = {}
    PROVE  /\ phase = "exclusive" => Justified("noExclusive")
           /\ phase = "shared" => Justified("noShared")
<1>1. /\ Roles[i].threads \in Nat
      /\ phase = "exclusive" =>
             Asked + Roles[i].threads <= Cardinality(Slots(ExclusiveIds))
      /\ Asked + Roles[i].threads
             <= Cardinality(Slots(ExclusiveIds)) + Cardinality(Slots(SharedIds))
  BY AskedMore
<1>2. /\ Supply \in Nat /\ Asked \in Nat
      /\ Cardinality(Slots(ExclusiveIds)) \in Nat /\ Cardinality(Slots(SharedIds)) \in Nat
  BY CountTypes
<1>3. /\ Cardinality(remaining) = IF Asked <= Supply THEN Supply - Asked ELSE 0
      /\ phase = "exclusive" => ~(Asked > Supply)
  BY DEF CountInv, SupplyCounted, AfterExplicit
<1>4. Asked + Roles[i].threads > Supply
  BY <1>1, <1>2, <1>3
<1>5. CASE phase = "exclusive"
  <2>1. Cardinality(Slots(ExclusiveIds)) > Supply /\ Asked <= Supply
    BY <1>1, <1>2, <1>3, <1>4, <1>5
  <2> QED
    BY <1>4, <1>5, <2>1 DEF Justified, FirstOver, ShortInExclusive
<1>6. CASE phase = "shared" /\ i \in SharedIds
  <2>1. /\ Cardinality(nonexPool) + Cardinality(Slots(ExclusiveIds)) = Supply
        /\ GivenShared # {} => nonexPool # {}
        /\ Asked > Supply => input.allowOverlap
    BY <1>6 DEF CountInv, SupplyCounted, AfterExplicit
  <2>2. ~ShortInExclusive
    BY <1>2, <2>1, CountTypes DEF ShortInExclusive
  <2>3. CASE ~input.allowOverlap
    <3>1. /\ Cardinality(Slots(ExclusiveIds)) + Cardinality(Slots(SharedIds)) > Supply
          /\ Asked <= Supply
      BY <1>1, <1>2, <1>4, <2>1, <2>3
    <3> QED
      BY <1>4, <1>6, <2>2, <2>3, <3>1 DEF Justified, FirstOver, ShortInShared
  <2>4. CASE nonexPool = {}
    <3>1. Cardinality(nonexPool) = 0
      BY <2>4, FS_EmptySet
    <3>2. Cardinality(Slots(ExclusiveIds)) = Supply
      BY <1>2, <2>1, <3>1
    <3>3. GivenShared = {} /\ GivenExclusive = ExclusiveIds
      BY <1>6, <2>1, <2>4 DEF GivenExclusive, PastExclusive
    <3>4. GivenExclusive \cup GivenShared = ExclusiveIds
      BY <3>3
    <3>5. Asked <= Supply
      BY <1>2, <3>2, <3>4 DEF Asked
    <3> QED
      BY <1>4, <1>6, <2>2, <3>2, <3>5 DEF Justified, FirstOver, ShortInShared
  <2> QED
    BY <1>5, <1>6, <2>3, <2>4
<1> QED
  BY <1>5, <1>6

(* Serving role i makes it the one more that was given its threads.        *)
LEMMA GivenGrows ==
    ASSUME IInv, ServedInv, PoolInv, NEW set, GivesInTurn(set),
           \/ phase = "exclusive" /\ i \in ExclusiveIds
           \/ phase = "shared" /\ i \in SharedIds
    PROVE  /\ phase = "exclusive" =>
                 GivenExclusive' = GivenExclusive \cup {i} /\ GivenShared' = GivenShared
           /\ phase = "shared" =>
                 GivenExclusive' = GivenExclusive /\ GivenShared' = GivenShared \cup {i}
           /\ Supply' = Supply /\ Asked' = Asked + Roles[i].threads
           /\ Cardinality(Slots(ExclusiveIds))' = Cardinality(Slots(ExclusiveIds))
<1>1. i \in RoleIds /\ i' = i + 1 /\ UNCHANGED <<input, phase>>
  BY DEF GivesInTurn, Gives
<1>2. /\ ExclusiveIds' = ExclusiveIds /\ SharedIds' = SharedIds
      /\ \A k \in RoleIds : k < i + 1 <=> k < i \/ k = i
      /\ ExclusiveIds \subseteq RoleIds /\ SharedIds \subseteq RoleIds
  BY <1>1, SameInput, AllSeen, CountTypes
<1>3. \A k \in RoleIds : /\ phase = "exclusive" =>
                               /\ PastExclusive(k)' <=> PastExclusive(k) \/ k = i
                               /\ PastShared(k)' <=> PastShared(k)
                         /\ phase = "shared" =>
                               /\ PastExclusive(k)' <=> PastExclusive(k)
                               /\ PastShared(k)' <=> PastShared(k) \/ k = i
  BY <1>1, <1>2 DEF PastExclusive, PastShared, AfterShared
<1>4. phase = "exclusive" =>
         GivenExclusive' = GivenExclusive \cup {i} /\ GivenShared' = GivenShared
  BY <1>2, <1>3 DEF GivenExclusive, GivenShared
<1>5. phase = "shared" =>
         GivenExclusive' = GivenExclusive /\ GivenShared' = GivenShared \cup {i}
  BY <1>2, <1>3 DEF GivenExclusive, GivenShared
<1>6. (GivenExclusive \cup GivenShared)' = GivenExclusive \cup GivenShared \cup {i}
  BY <1>4, <1>5
<1>7. Asked' = Asked + Roles[i].threads
  <2>1. Asked' = Cardinality(Slots(GivenExclusive \cup GivenShared \cup {i}))
    BY <1>1, <1>6, SameCounts DEF Asked
  <2> QED
    BY <1>1, <2>1, AskedMore
<1> QED
  BY <1>1, <1>4, <1>5, <1>7, SameCounts

LEMMA GivesExclusiveCount ==
    ASSUME IInv, ServedInv, PoolInv, CountInv, phase = "exclusive",
           NEW set \in SUBSET remaining, GivesInTurn(set), i \in ExclusiveIds,
           Cardinality(set) = Roles[i].threads, UNCHANGED warnings
    PROVE  CountInv'
<1>1. /\ UNCHANGED <<input, phase, err>> /\ err = "none" /\ i \in RoleIds
      /\ remaining' = remaining \ set
      /\ \A l \in RoleIds : Claim(l)' = IF l = i THEN set ELSE Claim(l)
  BY DEF GivesInTurn, Gives
<1>2. /\ Roles' = Roles /\ GivenExclusive' = GivenExclusive \cup {i}
      /\ GivenShared' = GivenShared /\ GivenShared = {}
  BY <1>1, SameInput, GivenGrows DEF GivenShared, PastShared, AfterShared
<1>3. /\ Supply' = Supply /\ Asked' = Asked + Roles[i].threads
      /\ Roles[i].threads \in Nat
      /\ Supply \in Nat /\ Asked \in Nat
      /\ IsFiniteSet(remaining) /\ Cardinality(remaining) \in Nat
  BY <1>1, GivenGrows, AskedMore, CountTypes
<1>4. ThreadsServed'
  <2>1. \A k \in GivenExclusive' : k \in RoleIds /\ (k = i \/ k \in GivenExclusive)
    BY <1>1, <1>2, CountTypes
  <2> QED
    BY <1>1, <1>2, <2>1 DEF CountInv, ThreadsServed
<1>5. Cardinality(remaining') = Cardinality(remaining) - Roles[i].threads
  <2>1. Cardinality(remaining \ set) = Cardinality(remaining) - Cardinality(set)
    BY <1>3, TakenAway
  <2> QED
    BY <1>1, <2>1
<1>6. /\ Cardinality(remaining) = Supply - Asked /\ Asked <= Supply
  <2>1. ~(Asked > Supply)
    BY DEF CountInv, SupplyCounted, AfterExplicit
  <2>2. Asked <= Supply
    BY <1>3, <2>1
  <2> QED
    BY <2>2 DEF CountInv, SupplyCounted, AfterExplicit
<1>7. Cardinality(remaining') \in Nat
  BY <1>1, <1>3, FS_Subset, FS_CardinalityType
<1>8. /\ Cardinality(remaining') = Supply' - Asked' /\ Asked' <= Supply'
  BY <1>3, <1>5, <1>6, <1>7
<1>9. SupplyCounted'
  <2>1. ~(Asked' > Supply')
    BY <1>3, <1>8
  <2> QED
    BY <1>1, <1>8, <2>1 DEF SupplyCounted, AfterShared
<1>10. RefusedExactlyWhenShort'
  BY <1>1, NoNewRefusal
<1> QED
  BY <1>4, <1>9, <1>10 DEF CountInv

LEMMA GivesSharedCount ==
    ASSUME IInv, ServedInv, PoolInv, CountInv, phase = "shared",
           NEW set \in SUBSET nonexPool, GivesInTurn(set), i \in SharedIds, set # {},
           warnings' = warnings \cup ShortWarning(Roles[i], set),
           \/ set \subseteq remaining /\ Cardinality(set) = Roles[i].threads
           \/ /\ input.allowOverlap /\ remaining \subseteq set
              /\ Cardinality(remaining) < Roles[i].threads
              /\ \/ Cardinality(set) = Roles[i].threads
                 \/ Cardinality(set) < Roles[i].threads /\ set = nonexPool
    PROVE  CountInv'
<1>1. /\ UNCHANGED <<input, phase, err, nonexPool>> /\ err = "none" /\ i \in RoleIds
      /\ remaining' = remaining \ set
      /\ Claim(i) = {} /\ \A l \in RoleIds : Claim(l)' = IF l = i THEN set ELSE Claim(l)
  BY DEF GivesInTurn, Gives
<1>2. /\ Roles' = Roles /\ GivenExclusive' = GivenExclusive
      /\ GivenShared' = GivenShared \cup {i}
      /\ i \notin GivenExclusive
      /\ GivenExclusive \subseteq RoleIds /\ GivenShared \subseteq RoleIds
  BY <1>1, SameInput, GivenGrows, AskedMore, CountTypes
<1>3. /\ Supply' = Supply /\ Asked' = Asked + Roles[i].threads
      /\ Cardinality(Slots(ExclusiveIds))' = Cardinality(Slots(ExclusiveIds))
      /\ Roles[i].threads \in Nat /\ Roles[i].threads > 0
      /\ Supply \in Nat /\ Asked \in Nat
      /\ IsFiniteSet(remaining) /\ Cardinality(remaining) \in Nat
  BY <1>1, GivenGrows, AskedMore, CountTypes
<1>4. ThreadsServed'
  <2>1. ASSUME NEW k \in GivenExclusive
        PROVE  Cardinality(Claim(k)') = Roles[k].threads
    <3>1. k \in RoleIds /\ k # i
      BY <1>2
    <3> QED
      BY <1>1, <3>1 DEF CountInv, ThreadsServed
  <2>2. ASSUME NEW k \in GivenShared, k # i
        PROVE  \/ Cardinality(Claim(k)') = Roles[k].threads
               \/ /\ Cardinality(Claim(k)') < Roles[k].threads /\ Claim(k)' = nonexPool
                  /\ [kind |-> "short", role |-> Roles[k].name] \in warnings'
    <3>1. k \in RoleIds
      BY <1>2
    <3> QED
      BY <1>1, <2>2, <3>1 DEF CountInv, ThreadsServed
  <2>3. ASSUME NEW k, k = i
        PROVE  \/ Cardinality(Claim(k)') = Roles[k].threads
               \/ /\ Cardinality(Claim(k)') < Roles[k].threads /\ Claim(k)' = nonexPool
                  /\ [kind |-> "short", role |-> Roles[k].name] \in warnings'
    <3>1. Claim(k)' = set
      BY <1>1, <2>3
    <3>2. CASE Cardinality(set) = Roles[i].threads
      BY <2>3, <3>1, <3>2
    <3>3. CASE Cardinality(set) < Roles[i].threads /\ set = nonexPool
      BY <2>3, <3>1, <3>3 DEF ShortWarning
    <3> QED
      BY <3>2, <3>3
  <2>4. \A k \in GivenShared' : k = i \/ (k \in GivenShared /\ k # i)
    BY <1>2
  <2> QED
    BY <1>1, <1>2, <2>1, <2>2, <2>3, <2>4 DEF ThreadsServed
<1>5. Cardinality(remaining) = IF Asked <= Supply THEN Supply - Asked ELSE 0
  BY DEF CountInv, SupplyCounted, AfterExplicit
<1>6. /\ Cardinality(remaining') = IF Asked' <= Supply' THEN Supply' - Asked' ELSE 0
      /\ Asked' > Supply' => input.allowOverlap
  <2>1. CASE set \subseteq remaining /\ Cardinality(set) = Roles[i].threads
    <3>1. Cardinality(remaining \ set) = Cardinality(remaining) - Cardinality(set)
      BY <1>3, <2>1, TakenAway
    <3>2. Cardinality(remaining') = Cardinality(remaining) - Roles[i].threads
      BY <1>1, <2>1, <3>1
    <3>3. Cardinality(remaining') \in Nat
      BY <1>1, <1>3, FS_Subset, FS_CardinalityType
    <3> QED
      BY <1>3, <1>5, <3>2, <3>3
  <2>2. CASE /\ input.allowOverlap /\ remaining \subseteq set
             /\ Cardinality(remaining) < Roles[i].threads
    <3>1. remaining' = {}
      BY <1>1, <2>2
    <3>2. Cardinality(remaining') = 0
      BY <3>1, FS_EmptySet
    <3>3. Asked' > Supply'
      BY <1>3, <1>5, <2>2
    <3> QED
      BY <1>3, <2>2, <3>2, <3>3
  <2> QED
    BY <2>1, <2>2
<1>7. Cardinality(nonexPool) + Cardinality(Slots(ExclusiveIds)) = Supply
  BY DEF CountInv, SupplyCounted
<1>8. SupplyCounted'
  <2>1. nonexPool # {}
    OBVIOUS
  <2> QED
    BY <1>1, <1>3, <1>6, <1>7, <2>1 DEF SupplyCounted, AfterShared
<1>9. RefusedExactlyWhenShort'
  BY <1>1, NoNewRefusal
<1> QED
  BY <1>4, <1>8, <1>9 DEF CountInv

LEMMA LoopEndCount ==
    ASSUME IInv, PoolInv, CountInv, ExclusiveAllocated \/ SharedAllocated
    PROVE  CountInv'
<1>1. /\ UNCHANGED <<input, err, alloc, remaining, warnings>> /\ err = "none"
      /\ i > Len(Roles) /\ i' = 1
      /\ \/ phase = "exclusive" /\ phase' = "shared" /\ nonexPool' = remaining
         \/ phase = "shared" /\ phase' = "leftovers" /\ nonexPool' = nonexPool
  BY DEF ExclusiveAllocated, SharedAllocated, ShareablePool, AtEnd, In, Enter, locals
<1>2. /\ Roles' = Roles /\ ExclusiveIds' = ExclusiveIds /\ SharedIds' = SharedIds
      /\ ExclusiveIds \subseteq RoleIds /\ SharedIds \subseteq RoleIds
  BY <1>1, SameInput, CountTypes
<1>3. \A k \in RoleIds : k < i /\ ~(k < 1)
  <2>1. RoleIds = 1 .. Len(Roles) /\ Len(Roles) \in Nat /\ i \in Nat
    BY <1>1, AllSeen DEF IInv, TypeOK
  <2> QED
    BY <1>1, <2>1
<1>4. /\ GivenExclusive' = GivenExclusive /\ GivenShared' = GivenShared
      /\ GivenExclusive = ExclusiveIds /\ (phase = "exclusive" => GivenShared = {})
  BY <1>1, <1>2, <1>3 DEF GivenExclusive, GivenShared, PastExclusive, PastShared, AfterShared
<1>5. RefusedExactlyWhenShort'
  BY <1>1, NoNewRefusal
<1>6. CASE phase = "shared"
  <2>1. ThreadsServed' /\ SupplyCounted'
    BY <1>1, <1>4, <1>6, CountMoves DEF AfterExplicit, AfterShared
  <2> QED
    BY <1>5, <2>1 DEF CountInv
<1>7. CASE phase = "exclusive"
  <2>1. \A k : Claim(k)' = Claim(k)
    BY <1>1, <1>2 DEF Claim
  <2>2. ThreadsServed'
    BY <1>2, <1>4, <1>7, <2>1 DEF CountInv, ThreadsServed
  <2>3. /\ Supply \in Nat /\ Asked \in Nat /\ Supply' = Supply /\ Asked' = Asked
        /\ Cardinality(Slots(ExclusiveIds))' = Cardinality(Slots(ExclusiveIds))
    BY <1>1, <1>4, SameCounts, CountTypes
  <2>4. Asked <= Supply /\ Cardinality(remaining) = Supply - Asked
    <3>1. ~(Asked > Supply)
      BY <1>7 DEF CountInv, SupplyCounted, AfterExplicit
    <3>2. Asked <= Supply
      BY <2>3, <3>1
    <3> QED
      BY <1>7, <3>2 DEF CountInv, SupplyCounted, AfterExplicit
  <2>5. Asked = Cardinality(Slots(ExclusiveIds))
    <3>1. GivenExclusive \cup GivenShared = ExclusiveIds
      BY <1>4, <1>7
    <3> QED
      BY <3>1 DEF Asked
  <2>6. Cardinality(nonexPool') + Cardinality(Slots(ExclusiveIds))' = Supply'
    BY <1>1, <1>7, <2>3, <2>4, <2>5
  <2>7. SupplyCounted'
    <3>1. Asked' <= Supply' /\ ~(Asked' > Supply')
      BY <2>3, <2>4
    <3>2. Cardinality(remaining') = Supply' - Asked' /\ GivenShared' = {}
      BY <1>1, <1>4, <1>7, <2>3, <2>4
    <3> QED
      BY <2>6, <3>1, <3>2 DEF SupplyCounted
  <2> QED
    BY <1>5, <2>2, <2>7 DEF CountInv
<1> QED
  BY <1>1, <1>6, <1>7

(* What phase 4 finds when every loop has served its roles.                *)
LEMMA LoopsDone ==
    ASSUME IInv, PoolInv, CountInv, phase = "leftovers"
    PROVE  /\ GivenExclusive = ExclusiveIds /\ GivenShared = SharedIds
           /\ Asked = Cardinality(Slots(ExclusiveIds)) + Cardinality(Slots(SharedIds))
           /\ remaining = {} <=> Asked >= Supply
           /\ ~ShortInExclusive /\ ~ShortInShared
           /\ ShortInLeftovers <=> remaining = {} /\ LeftoverIds # {}
<1>1. GivenExclusive = ExclusiveIds /\ GivenShared = SharedIds
  BY DEF GivenExclusive, GivenShared, PastExclusive, PastShared, AfterShared
<1>2. Asked = Cardinality(Slots(ExclusiveIds)) + Cardinality(Slots(SharedIds))
  BY <1>1, CountTypes DEF Asked
<1>3. /\ Supply \in Nat /\ Asked \in Nat /\ IsFiniteSet(remaining)
      /\ Cardinality(Slots(ExclusiveIds)) \in Nat /\ Cardinality(Slots(SharedIds)) \in Nat
      /\ Cardinality(nonexPool) \in Nat /\ IsFiniteSet(nonexPool)
  BY CountTypes
<1>4. /\ Cardinality(remaining) = IF Asked <= Supply THEN Supply - Asked ELSE 0
      /\ Asked > Supply => input.allowOverlap
      /\ Cardinality(nonexPool) + Cardinality(Slots(ExclusiveIds)) = Supply
      /\ SharedIds # {} => nonexPool # {}
  BY <1>1 DEF CountInv, SupplyCounted, AfterExplicit, AfterShared
<1>5. remaining = {} <=> Asked >= Supply
  <2>1. remaining = {} <=> Cardinality(remaining) = 0
    BY <1>3, FS_EmptySet
  <2> QED
    BY <1>3, <1>4, <2>1
<1>6. ~(Cardinality(Slots(ExclusiveIds)) > Supply)
  BY <1>3, <1>4
<1>7. ~(~input.allowOverlap
          /\ Cardinality(Slots(ExclusiveIds)) + Cardinality(Slots(SharedIds)) > Supply)
  BY <1>2, <1>4
<1>8. ~(SharedIds # {} /\ Cardinality(Slots(ExclusiveIds)) = Supply)
  <2>1. nonexPool # {} => Cardinality(nonexPool) # 0
    BY <1>3, FS_EmptySet
  <2> QED
    BY <1>3, <1>4, <2>1
<1>9. ShortInLeftovers <=> remaining = {} /\ LeftoverIds # {}
  BY <1>2, <1>5 DEF ShortInLeftovers
<1> QED
  BY <1>1, <1>2, <1>5, <1>6, <1>7, <1>8, <1>9 DEF ShortInExclusive, ShortInShared

(* A role whose loop had served it keeps what it was given.                *)
LEMMA LateGiven ==
    ASSUME phase \in AfterShared, phase' \in AfterShared, UNCHANGED input
    PROVE  GivenExclusive' = GivenExclusive /\ GivenShared' = GivenShared
BY SameInput DEF GivenExclusive, GivenShared, PastExclusive, PastShared

LEMMA LeftoversCount ==
    ASSUME IInv, ServedInv, PoolInv, CountInv, AllocHousekeeping
    PROVE  CountInv'
<1>1. /\ phase = "leftovers" /\ UNCHANGED input /\ err = "none"
      /\ \/ Refuse("noLeftovers") /\ remaining = {} /\ LeftoverIds # {}
         \/ /\ Enter("disjoint") /\ LeftoverIds # {} /\ remaining # {}
            /\ \E k \in LeftoverIds : Gives(k, remaining)
            /\ UNCHANGED <<remaining, exclusiveTaken, nonexPool, warnings>>
         \/ Enter("disjoint") /\ UNCHANGED locals /\ LeftoverIds = {}
  BY LeftoversGives DEF PoolInv
<1>2. /\ Shortage <=> remaining = {} /\ LeftoverIds # {}
      /\ remaining = {} /\ LeftoverIds # {} => Justified("noLeftovers")
  BY <1>1, LoopsDone DEF Shortage, Justified
<1>3. CASE Refuse("noLeftovers") /\ remaining = {} /\ LeftoverIds # {}
  BY <1>1, <1>2, <1>3, CountSame DEF Refuse
<1>4. CASE Enter("disjoint") /\ UNCHANGED locals /\ LeftoverIds = {}
  <2>1. phase' = "disjoint" /\ UNCHANGED <<err, alloc, remaining, nonexPool, warnings>>
    BY <1>4 DEF Enter, locals
  <2>2. GivenExclusive' = GivenExclusive /\ GivenShared' = GivenShared
    BY <1>1, <2>1, LateGiven DEF AfterShared
  <2>3. ThreadsServed' /\ SupplyCounted'
    BY <1>1, <2>1, <2>2, CountMoves DEF AfterExplicit, AfterShared
  <2>4. RefusedExactlyWhenShort'
    BY <1>1, <1>2, <1>4, <2>1, NoNewRefusal
  <2> QED
    BY <2>3, <2>4 DEF CountInv
<1>5. ASSUME Enter("disjoint"), remaining # {}, NEW k \in LeftoverIds, Gives(k, remaining),
             UNCHANGED <<remaining, exclusiveTaken, nonexPool, warnings>>
      PROVE  CountInv'
  <2>1. phase' = "disjoint" /\ UNCHANGED err
    BY <1>5 DEF Enter
  <2>2. /\ Roles' = Roles
        /\ GivenExclusive' = GivenExclusive /\ GivenShared' = GivenShared
        /\ GivenExclusive = ExclusiveIds /\ GivenShared = SharedIds
    BY <1>1, <2>1, SameInput, LateGiven, LoopsDone DEF AfterShared
  <2>3. \A l \in ExclusiveIds \cup SharedIds : Claim(l)' = Claim(l)
    <3>1. \A l \in ExclusiveIds \cup SharedIds : l \in RoleIds /\ l # k
      BY DEF LeftoverIds, ExclusiveIds, SharedIds, AutoShared
    <3> QED
      BY <1>5, <3>1 DEF Gives
  <2>4. ThreadsServed'
    BY <1>5, <2>2, <2>3 DEF CountInv, ThreadsServed
  <2>5. /\ Supply' = Supply /\ Asked' = Asked
        /\ Cardinality(Slots(ExclusiveIds))' = Cardinality(Slots(ExclusiveIds))
    BY <1>1, <2>2, SameCounts
  <2>6. SupplyCounted'
    BY <1>1, <1>5, <2>1, <2>2, <2>5 DEF CountInv, SupplyCounted, AfterExplicit, AfterShared
  <2>7. RefusedExactlyWhenShort'
    BY <1>1, <1>2, <1>5, <2>1, NoNewRefusal
  <2> QED
    BY <2>4, <2>6, <2>7 DEF CountInv
<1> QED
  BY <1>1, <1>3, <1>4, <1>5

LEMMA ReturnCount ==
    ASSUME IInv, CountInv, CheckExclusivity \/ WarnSMT
    PROVE  CountInv'
<1>1. CASE CheckExclusivity /\ Refuse("overlap")
  <2>1. Justified("overlap")
    BY DEF Justified
  <2> QED
    BY <1>1, <2>1, CountSame DEF Refuse, CheckExclusivity, In
<1>2. CASE ~(CheckExclusivity /\ Refuse("overlap"))
  <2>1. /\ phase' \in {"smt", "done"} /\ phase \in {"disjoint", "smt"}
        /\ UNCHANGED <<input, err, alloc, remaining, nonexPool>> /\ err = "none"
        /\ warnings \subseteq warnings'
    BY <1>2 DEF CheckExclusivity, WarnSMT, In, Enter, locals
  <2>2. GivenExclusive' = GivenExclusive /\ GivenShared' = GivenShared
    BY <2>1, LateGiven DEF AfterShared
  <2>3. ThreadsServed' /\ SupplyCounted'
    BY <2>1, <2>2, CountMoves DEF AfterExplicit, AfterShared
  <2>4. RefusedExactlyWhenShort'
    BY <2>1, NoNewRefusal
  <2> QED
    BY <2>3, <2>4 DEF CountInv
<1> QED
  BY <1>1, <1>2

LEMMA NextCount ==
    ASSUME IInv, ServedInv, PoolInv, CountInv, [Next]_vars
    PROVE  CountInv'
<1>1. CASE Terminated \/ UNCHANGED vars
  BY <1>1, CountSame DEF Terminated, vars, CountInv, RefusedExactlyWhenShort
<1>2. CASE RefuseEmpty \/ ValidateRole \/ Validated
  <2>1. /\ UNCHANGED input /\ phase' \in {"validate", "explicit"} /\ err = "none"
        /\ err' \in {err, "empty", "malformed", "outside"}
    BY <1>2 DEF RefuseEmpty, ValidateRole, Validated, AtRole, AtEnd, In, NextRole, Enter, Refuse
  <2> QED
    BY <2>1, CountEarly
<1>3. CASE ClaimExplicit
  <2>1. /\ UNCHANGED input /\ phase' \in {"validate", "explicit"} /\ err = "none"
        /\ err' \in {err, "empty", "malformed", "outside"}
    BY <1>3 DEF ClaimExplicit, AtRole, In, NextRole, Skip, Refuse
  <2> QED
    BY <2>1, CountEarly
<1>4. CASE AllocExclusive
  <2>1. CASE SkipsRole /\ ~AutoExclusive(Roles[i])
    BY <1>4, <2>1, ExclusiveGives, SkipCount DEF PoolInv
  <2>2. CASE /\ Refuse("noExclusive") /\ UNCHANGED input /\ i \in ExclusiveIds
             /\ Cardinality(remaining) < Roles[i].threads
    <3>1. Justified("noExclusive")
      BY <1>4, <2>2, RefusedShort DEF AllocExclusive, AtRole, In, ExclusiveIds
    <3> QED
      BY <2>2, <3>1, CountSame DEF Refuse
  <2> QED
    BY <1>4, <2>1, <2>2, ExclusiveGives, GivesExclusiveCount DEF PoolInv
<1>5. CASE AllocShared
  <2>0. remaining \subseteq nonexPool /\ phase = "shared"
    BY <1>5 DEF AllocShared, AtRole, In, PoolInv, PoolExact
  <2>1. CASE SkipsRole /\ ~AutoShared(Roles[i])
    BY <2>0, <2>1, SkipCount
  <2>2. CASE /\ Refuse("noShared") /\ UNCHANGED input /\ i \in SharedIds
             /\ Cardinality(remaining) < Roles[i].threads
             /\ ~input.allowOverlap \/ nonexPool = {}
    <3>1. Justified("noShared")
      BY <2>0, <2>2, RefusedShort DEF SharedIds
    <3> QED
      BY <2>2, <3>1, CountSame DEF Refuse
  <2> QED
    BY <1>5, <2>0, <2>1, <2>2, SharedGives, GivesSharedCount DEF PoolInv
<1> QED
  BY <1>1, <1>2, <1>3, <1>4, <1>5, ExplicitClaimedCount, LoopEndCount, LeftoversCount,
     ReturnCount DEF Next

(* The allocator's arithmetic, for every machine and every Spec.           *)
THEOREM CountInvariant == Spec => [](IInv /\ ServedInv /\ PoolInv /\ CountInv)
<1>1. Init => IInv /\ ServedInv /\ PoolInv /\ CountInv
  BY InitIInv, InitServed, InitPool, InitCount
<1>2. IInv /\ ServedInv /\ PoolInv /\ CountInv /\ [Next]_vars
         => (IInv /\ ServedInv /\ PoolInv /\ CountInv)'
  BY NextIInv, NextServed, NextPool, NextCount
<1> QED
  BY <1>1, <1>2, PTL DEF Spec

(* buildPlan refuses for lack of cores exactly the Specs whose threads     *)
(* exceed the free cores, whatever the order of their roles, in the first  *)
(* phase that the Spec cannot pass and there at the first role with which  *)
(* the threads asked for exceed the supply (plan.go:106-161).              *)
THEOREM PlannerRefusesExactly == Spec => []RefusedExactlyWhenShort
<1>1. CountInv => RefusedExactlyWhenShort
  BY DEF CountInv
<1> QED
  BY <1>1, CountInvariant, PTL

(* A threaded role has as many cores as threads, or all the cores that may *)
(* be shared and a warning that says so (plan.go:122-150).                 *)
THEOREM PlannerGivesOrWarns == Spec => []ShortOnlyWhenPoolExhausted
<1>1. IInv /\ PoolInv /\ CountInv => ShortOnlyWhenPoolExhausted
  <2> SUFFICES ASSUME IInv, PoolInv, CountInv, Planned, NEW k \in ExclusiveIds \cup SharedIds,
                      Cardinality(Claim(k)) # Roles[k].threads
               PROVE  /\ Cardinality(Claim(k)) < Roles[k].threads
                      /\ Claim(k) = Free \ Claimed(ExclusiveIds)
                      /\ [kind |-> "short", role |-> Roles[k].name] \in warnings
    BY DEF ShortOnlyWhenPoolExhausted, Claimed
  <2>1. /\ GivenExclusive = ExclusiveIds /\ GivenShared = SharedIds
        /\ nonexPool = Free \ Claimed(ExclusiveIds)
    BY DEF Planned, GivenExclusive, GivenShared, PastExclusive, PastShared, AfterShared,
           PoolInv, PoolExact
  <2> QED
    BY <2>1 DEF CountInv, ThreadsServed
<1> QED
  BY <1>1, CountInvariant, PTL

-----------------------------------------------------------------------------
(* The greedy walk of pickExclusive collides only when it must             *)
(* (plan.go:195-220): a choice S that collides nowhere has at most one     *)
(* core of each physical core, and for each of them the walk took that     *)
(* core or the sibling that stood in its way.                              *)

Symmetric(siblings) ==
    /\ \A c \in Core : c \notin siblings[c]
    /\ \A c, d \in Core : d \in siblings[c] =>
            siblings[c] \cup {c} = siblings[d] \cup {d}

Apart(S, siblings, avoid) == \A c \in S : ~SiblingIn(c, siblings, avoid \cup S)

(* The walk itself never collides.                                         *)
LEMMA GreedyApart ==
    ASSUME NEW pool, pool \subseteq Core, NEW n, NEW siblings, Symmetric(siblings),
           NEW avoid, NEW G \in SUBSET pool, Greedy(G, pool, n, siblings, avoid)
    PROVE  Apart(G, siblings, avoid)
<1> SUFFICES ASSUME NEW c \in G, NEW d \in G, d \in siblings[c] PROVE FALSE
  <2>1. \A c \in G : ~SiblingIn(c, siblings, avoid)
    BY DEF Greedy, SiblingIn
  <2> QED
    BY <2>1 DEF Apart, SiblingIn
<1>1. c \in Core /\ d \in Core /\ c \in Nat /\ d \in Nat
  BY CoreAssumption
<1>2. c # d /\ c \in siblings[d]
  BY <1>1 DEF Symmetric
<1>3. d \notin Below(G, c) /\ c \notin Below(G, d)
  BY <1>2 DEF Greedy, SiblingIn
<1> QED
  BY <1>1, <1>2, <1>3 DEF Below

(* No choice of cores that keep apart is larger than the walk's, while the *)
(* walk has not got its number.                                            *)
LEMMA GreedyIsLargest ==
    ASSUME NEW pool, pool \subseteq Core, IsFiniteSet(pool), NEW n \in Nat,
           NEW siblings, Symmetric(siblings), NEW avoid,
           NEW G \in SUBSET pool, Greedy(G, pool, n, siblings, avoid), Cardinality(G) < n,
           NEW S \in SUBSET pool, Apart(S, siblings, avoid)
    PROVE  Cardinality(S) <= Cardinality(G)
<1>1. /\ IsFiniteSet(G) /\ Cardinality(G) \in Nat
      /\ IsFiniteSet(S) /\ Cardinality(S) \in Nat
  BY FS_Subset, FS_CardinalityType
<1>2. ASSUME NEW c \in S, c \notin G PROVE \E d \in G : d \in siblings[c]
  <2>1. /\ Below(G, c) \in SUBSET G
        /\ Cardinality(Below(G, c)) <= Cardinality(G) /\ Cardinality(Below(G, c)) \in Nat
    BY <1>1, FS_Subset, FS_CardinalityType DEF Below
  <2>2. Cardinality(Below(G, c)) < n
    BY <1>1, <2>1
  <2>3. SiblingIn(c, siblings, avoid \cup Below(G, c))
    BY <1>2, <2>2 DEF Greedy
  <2>4. ~SiblingIn(c, siblings, avoid)
    BY <1>2 DEF Apart, SiblingIn
  <2> QED
    BY <2>1, <2>3, <2>4 DEF SiblingIn
<1> DEFINE f == [c \in S |-> IF c \in G THEN c ELSE CHOOSE d \in G : d \in siblings[c]]
<1>3. /\ \A c \in S : f[c] \in G
      /\ \A c \in S : IF c \in G THEN f[c] = c ELSE f[c] \in siblings[c]
  BY <1>2
<1>4. f \in [S -> G]
  BY <1>3
<1> HIDE DEF f
<1> SUFFICES ASSUME Cardinality(G) < Cardinality(S) PROVE FALSE
  BY <1>1
<1>5. PICK x, y \in S : x # y /\ f[x] = f[y]
  BY <1>1, <1>4, FS_PigeonHole
<1>6. x \notin siblings[y] /\ y \notin siblings[x]
  BY DEF Apart, SiblingIn
<1>7. x \in Core /\ y \in Core /\ f[x] \in Core
  BY <1>3
<1>8. CASE x \in G \/ y \in G
  BY <1>3, <1>5, <1>6, <1>8
<1>9. CASE x \notin G /\ y \notin G
  <2>1. f[x] \in siblings[x] /\ f[x] \in siblings[y]
    BY <1>3, <1>5, <1>9
  <2>2. siblings[x] \cup {x} = siblings[f[x]] \cup {f[x]}
    BY <1>7, <2>1 DEF Symmetric
  <2>3. siblings[y] \cup {y} = siblings[f[x]] \cup {f[x]}
    BY <1>7, <2>1 DEF Symmetric
  <2> QED
    BY <1>5, <1>6, <2>2, <2>3
<1> QED
  BY <1>8, <1>9

LEMMA PickCollidesOnlyWhenForced ==
    ASSUME NEW pool, pool \subseteq Core, IsFiniteSet(pool), NEW n \in Nat,
           NEW siblings, Symmetric(siblings), NEW avoid,
           NEW set \in PickExclusive(pool, n, siblings, avoid),
           NEW S \in SUBSET pool, Cardinality(S) = n, Apart(S, siblings, avoid)
    PROVE  Apart(set \ avoid, siblings, avoid)
<1>1. PICK G \in SUBSET pool : /\ Greedy(G, pool, n, siblings, avoid)
                               /\ set = G \cup FirstN(pool \ G, n - Cardinality(G))
  BY DEF PickExclusive
<1>2. Cardinality(G) \in Nat
  BY FS_Subset, FS_CardinalityType
<1>3. Cardinality(G) >= n
  BY <1>1, <1>2, GreedyIsLargest
<1>4. FirstN(pool \ G, n - Cardinality(G)) = {}
  <2> SUFFICES ASSUME NEW c \in pool \ G,
                      Cardinality(Below(pool \ G, c)) < n - Cardinality(G)
               PROVE  FALSE
    BY DEF FirstN
  <2>1. Below(pool \ G, c) \in SUBSET pool
    BY DEF Below
  <2>2. Cardinality(Below(pool \ G, c)) \in Nat
    BY <2>1, FS_Subset, FS_CardinalityType
  <2> QED
    BY <1>2, <1>3, <2>2
<1>5. set = G
  BY <1>1, <1>4
<1>6. Apart(G, siblings, avoid)
  BY <1>1, GreedyApart
<1> QED
  BY <1>5, <1>6 DEF Apart, SiblingIn

Forced ==
    (Topology /\ phase = "exclusive" /\ remaining' # remaining) =>
        LET n     == Roles[i].threads
            fresh == exclusiveTaken' \ exclusiveTaken
            Harmless(S) == \A c \in S : ~SiblingIn(c, Siblings, exclusiveTaken \cup S)
        IN  Harmless(fresh) \/ ~\E S \in SUBSET remaining :
                                   Cardinality(S) = n /\ Harmless(S)

LEMMA NextForced == ASSUME IInv, ServedInv, PoolInv, Next PROVE Forced
<1> SUFFICES ASSUME Topology, phase = "exclusive", remaining' # remaining,
                    NEW S \in SUBSET remaining, Cardinality(S) = Roles[i].threads,
                    Apart(S, Siblings, exclusiveTaken)
             PROVE  Apart(exclusiveTaken' \ exclusiveTaken, Siblings, exclusiveTaken)
  BY DEF Forced, Apart
<1>1. AllocExclusive /\ ~Skip /\ ~Refuse("noExclusive")
  BY DEF Next, RefuseEmpty, ValidateRole, Validated, ClaimExplicit, ExplicitClaimed,
         ExclusiveAllocated, AllocShared, SharedAllocated, AllocHousekeeping,
         CheckExclusivity, WarnSMT, Terminated, AtRole, AtEnd, In, Skip, Refuse, locals, vars
<1>2. PICK set \in PickExclusive(remaining, Roles[i].threads, Siblings, exclusiveTaken) :
          exclusiveTaken' = exclusiveTaken \cup set
  BY <1>1 DEF AllocExclusive
<1>3. AutoExclusive(Roles[i]) /\ i <= Len(Roles)
  BY <1>1 DEF AllocExclusive, AtRole
<1>4. Roles[i].threads \in Nat
  BY <1>3, ThreadsPositive DEF AutoExclusive
<1>5. remaining \subseteq Core /\ IsFiniteSet(remaining)
  BY ArgumentTypes, FS_Subset DEF IInv, TypeOK, PoolInv
<1>6. Symmetric(Siblings)
  BY DEF Topology, Symmetric
<1>7. Apart(set \ exclusiveTaken, Siblings, exclusiveTaken)
  BY <1>2, <1>4, <1>5, <1>6, PickCollidesOnlyWhenForced
<1>8. exclusiveTaken' \ exclusiveTaken = set \ exclusiveTaken
  BY <1>2
<1> QED
  BY <1>7, <1>8

(* An exclusive role gets a sibling of an exclusive core only when no      *)
(* choice of that many remaining cores would have avoided it               *)
(* (plan.go:195-220).                                                      *)
THEOREM PlannerCollidesWhenForced == Spec => CollisionOnlyWhenForced
<1>1. ASSUME IInv, ServedInv, PoolInv, [Next]_vars PROVE [Forced]_vars
  BY <1>1, NextForced
<1>2. CollisionOnlyWhenForced <=> [][Forced]_vars
  BY DEF CollisionOnlyWhenForced, Forced
<1> QED
  BY <1>1, <1>2, PoolInvariant, PTL DEF Spec
=============================================================================
