------------------------------ MODULE Planner ------------------------------
(***************************************************************************)
(* The core allocator: buildPlan of plan.go, one action per iteration of   *)
(* its loops and one per straight-line phase.  A CPUSet is the set of its  *)
(* cores (cpuset.go keeps them sorted and unique, so List() is the set in  *)
(* ascending order).  The plan's roles keep the declaration order of the   *)
(* Spec; what buildPlan fills in is each role's core set, kept here in     *)
(* alloc, whose domain is the key set of the code's index map.             *)
(*                                                                         *)
(* phase names the loop buildPlan is in and i its iteration.  A refusal    *)
(* (an error return) sets err and leaves the locals as they were, so that  *)
(* an invariant can speak of the state the refusal was decided in.         *)
(***************************************************************************)
EXTENDS Integers, Sequences, FiniteSets

CONSTANTS
    Core,      \* core numbers, available to the process or not
    Name,      \* role names
    NoName,    \* the empty string: an empty role name, or no housekeeping
    Inputs     \* the arguments of buildPlan to consider

Role == [name: Name \cup {NoName}, threads: Int, cores: SUBSET Core,
         exclusive: BOOLEAN, housekeeping: BOOLEAN]

(* siblings maps a core to its SMT siblings, itself excluded; a core the   *)
(* map does not hold reads as the nil slice, here the empty set.           *)
Input == [roles: Seq(Role), allowOverlap: BOOLEAN, available: SUBSET Core,
          siblings: [Core -> SUBSET Core]]

ASSUME CoreAssumption  == Core \subseteq Nat
ASSUME NameAssumption  == NoName \notin Name
ASSUME InputAssumption == Inputs \subseteq Input

(* A CPUSet is a slice.                                                    *)
ASSUME FinitenessAssumption == \A in \in Inputs : IsFiniteSet(in.available)

VARIABLES
    input,          \* the arguments, never written
    phase, i,       \* the loop and its iteration
    err,            \* "none", or why buildPlan returned an error
    alloc,          \* role name -> cores, for the names in p.index
    housekeeping,   \* p.housekeeping
    remaining, exclusiveTaken, nonexPool,
    warnings

locals == <<alloc, housekeeping, remaining, exclusiveTaken, nonexPool, warnings>>
vars   == <<input, phase, i, err, locals>>

Roles     == input.roles
Available == input.available
Siblings  == input.siblings

Phases == {"validate", "explicit", "exclusive", "shared", "leftovers",
           "disjoint", "smt", "done"}
Errors == {"none", "empty", "malformed", "outside", "noExclusive", "noShared",
           "noLeftovers", "overlap"}

-----------------------------------------------------------------------------
(* CPUSet.List()[:n] and pickExclusive                                     *)

Below(S, c) == {d \in S : d < c}

FirstN(S, n) == {c \in S : Cardinality(Below(S, c)) < n}

SiblingIn(c, siblings, set) == siblings[c] \cap set # {}

(* Mutant: the walk looks at earlier roles only, not at its own picks.     *)
GreedyPerRole(G, pool, n, siblings, avoid) ==
    \A c \in pool :
        c \in G <=> /\ Cardinality(Below(G, c)) < n
                    /\ ~SiblingIn(c, siblings, avoid)

(* G is what the first loop of pickExclusive takes from pool: going up, it *)
(* takes a core while it has fewer than n and none of the core's siblings  *)
(* is in avoid or taken already.                                           *)
Greedy(G, pool, n, siblings, avoid) ==
    \A c \in pool :
        c \in G <=> /\ Cardinality(Below(G, c)) < n
                    /\ ~SiblingIn(c, siblings, avoid \cup Below(G, c))

(* What pickExclusive may return: the greedy choice and, for a shortfall,  *)
(* the lowest of the other cores.                                          *)
PickExclusive(pool, n, siblings, avoid) ==
    {G \cup FirstN(pool \ G, n - Cardinality(G)) :
        G \in {H \in SUBSET pool : Greedy(H, pool, n, siblings, avoid)}}

(* Mutant: the wrap starts at the bottom of the pool, free cores or not.   *)
TakeFromPool(rest, pool, n) == FirstN(pool, n)

(* The cores a non-exclusive role gets: the first of what remains and, for *)
(* an overlapping plan that is short, the first of the others in pool.     *)
TakeShared(rest, pool, n) ==
    LET take == FirstN(rest, n)
    IN  take \cup FirstN(pool \ take, n - Cardinality(take))

-----------------------------------------------------------------------------
(* Control                                                                 *)

Init ==
    /\ input \in Inputs
    /\ phase = "validate" /\ i = 1 /\ err = "none"
    /\ alloc = [n \in {} |-> {}]
    /\ housekeeping = NoName
    /\ remaining = {} /\ exclusiveTaken = {} /\ nonexPool = {}
    /\ warnings = {}

In(p)       == phase = p /\ err = "none" /\ UNCHANGED input
AtRole(p)   == In(p) /\ i <= Len(Roles)
AtEnd(p)    == In(p) /\ i > Len(Roles)
NextRole    == i' = i + 1 /\ UNCHANGED <<phase, err>>
Enter(p)    == phase' = p /\ i' = 1 /\ UNCHANGED err
Refuse(why) == err' = why /\ UNCHANGED <<phase, i, locals>>
Skip        == NextRole /\ UNCHANGED locals

Assign(name, set) == alloc' = [alloc EXCEPT ![name] = set]

-----------------------------------------------------------------------------
(* Validation pass                                                         *)

RefuseEmpty ==
    /\ In("validate") /\ i = 1 /\ Available = {}
    /\ Refuse("empty")

(* Mutant: a repeated name is let through.                                 *)
MalformedButRepeated(r) ==
    \/ r.name = NoName \/ r.threads < 0
    \/ r.housekeeping /\ housekeeping # NoName
    \/ r.threads = 0 /\ r.cores = {} /\ ~r.housekeeping

Malformed(r) ==
    \/ r.name = NoName
    \/ r.name \in DOMAIN alloc
    \/ r.threads < 0
    \/ r.housekeeping /\ housekeeping # NoName
    \/ r.threads = 0 /\ r.cores = {} /\ ~r.housekeeping

ValidateRole ==
    /\ AtRole("validate") /\ Available # {}
    /\ LET r == Roles[i] IN
       \/ Malformed(r) /\ Refuse("malformed")
       \/ /\ ~Malformed(r)
          /\ alloc' = [n \in DOMAIN alloc \cup {r.name} |->
                           IF n = r.name THEN {} ELSE alloc[n]]
          /\ housekeeping' = IF r.housekeeping THEN r.name ELSE housekeeping
          /\ NextRole
          /\ UNCHANGED <<remaining, exclusiveTaken, nonexPool, warnings>>

Validated ==
    /\ AtEnd("validate") /\ Available # {}
    /\ Enter("explicit")
    /\ remaining' = Available
    /\ UNCHANGED <<alloc, housekeeping, exclusiveTaken, nonexPool, warnings>>

-----------------------------------------------------------------------------
(* 1. Explicit overrides                                                   *)

ClaimExplicit ==
    /\ AtRole("explicit")
    /\ LET r == Roles[i] IN
       \/ r.cores = {} /\ Skip
       \/ ~(r.cores \subseteq Available) /\ Refuse("outside")
       \/ /\ r.cores # {} /\ r.cores \subseteq Available
          /\ Assign(r.name, r.cores)
          /\ remaining' = remaining \ r.cores
          /\ NextRole
          /\ UNCHANGED <<housekeeping, exclusiveTaken, nonexPool, warnings>>

(* Mutant: phase 2 starts from no exclusive cores at all.                  *)
NoneExclusive == {}

ExplicitExclusive == {k \in DOMAIN Roles : Roles[k].exclusive /\ Roles[k].cores # {}}

ExplicitClaimed ==
    /\ AtEnd("explicit")
    /\ Enter("exclusive")
    /\ exclusiveTaken' = UNION {Roles[k].cores : k \in ExplicitExclusive}
    /\ UNCHANGED <<alloc, housekeeping, remaining, nonexPool, warnings>>

-----------------------------------------------------------------------------
(* 2. Exclusive threaded roles                                             *)

(* Mutant: an explicit override does not exempt the role.                  *)
AnyExclusive(r) == r.exclusive /\ r.threads # 0

AutoExclusive(r) == r.cores = {} /\ r.exclusive /\ r.threads # 0

AllocExclusive ==
    /\ AtRole("exclusive")
    /\ LET r == Roles[i] IN
       \/ ~AutoExclusive(r) /\ Skip
       \/ /\ AutoExclusive(r) /\ Cardinality(remaining) < r.threads
          /\ Refuse("noExclusive")
       \/ /\ AutoExclusive(r) /\ Cardinality(remaining) >= r.threads
          /\ \E set \in PickExclusive(remaining, r.threads, Siblings, exclusiveTaken) :
                /\ Assign(r.name, set)
                /\ exclusiveTaken' = exclusiveTaken \cup set
                /\ remaining' = remaining \ set
          /\ NextRole
          /\ UNCHANGED <<housekeeping, nonexPool, warnings>>

(* Mutant: the pool to wrap onto is taken before the exclusive roles.      *)
WholeMachine == Available

(* What non-exclusive roles may share under AllowOverlap.                  *)
ShareablePool == remaining

ExclusiveAllocated ==
    /\ AtEnd("exclusive")
    /\ Enter("shared")
    /\ nonexPool' = ShareablePool
    /\ UNCHANGED <<alloc, housekeeping, remaining, exclusiveTaken, warnings>>

-----------------------------------------------------------------------------
(* 3. Non-exclusive threaded roles                                         *)

(* Mutant: a threaded housekeeping role is served like any other.          *)
AutoSharedOrHousekeeping(r) == r.cores = {} /\ ~r.exclusive /\ r.threads # 0

AutoShared(r) ==
    r.cores = {} /\ ~r.exclusive /\ r.threads # 0 /\ ~r.housekeeping

(* Mutants: off by one, in the test for a shortage and in its warning.     *)
ShortOrExact(r) == Cardinality(remaining) <= r.threads

LateWarning(r, set) ==
    IF Cardinality(set) + 1 < r.threads
    THEN {[kind |-> "short", role |-> r.name]} ELSE {}

Short(r) == Cardinality(remaining) < r.threads

ShortWarning(r, set) ==
    IF Cardinality(set) < r.threads
    THEN {[kind |-> "short", role |-> r.name]} ELSE {}

GiveShared(r, set) ==
    /\ Assign(r.name, set)
    /\ warnings' = warnings \cup ShortWarning(r, set)
    /\ remaining' = remaining \ set
    /\ NextRole
    /\ UNCHANGED <<housekeeping, exclusiveTaken, nonexPool>>

AllocShared ==
    /\ AtRole("shared")
    /\ LET r    == Roles[i]
           wrap == TakeShared(remaining, nonexPool, r.threads)
       IN
       \/ ~AutoShared(r) /\ Skip
       \/ /\ AutoShared(r) /\ ~Short(r)
          /\ GiveShared(r, FirstN(remaining, r.threads))
       \/ /\ AutoShared(r) /\ Short(r)
          /\ ~input.allowOverlap \/ wrap = {}
          /\ Refuse("noShared")
       \/ /\ AutoShared(r) /\ Short(r)
          /\ input.allowOverlap /\ wrap # {}
          /\ GiveShared(r, wrap)

SharedAllocated ==
    /\ AtEnd("shared")
    /\ Enter("leftovers")
    /\ UNCHANGED locals

-----------------------------------------------------------------------------
(* 4. Housekeeping, 5. exclusivity validation, 6. SMT warnings             *)

(* Mutant: leftovers are given out only when there are some.               *)
WantsSomeLeftovers ==
    housekeeping # NoName /\ alloc[housekeeping] = {} /\ remaining # {}

WantsLeftovers == housekeeping # NoName /\ alloc[housekeeping] = {}

AllocHousekeeping ==
    /\ In("leftovers")
    /\ \/ WantsLeftovers /\ remaining = {} /\ Refuse("noLeftovers")
       \/ /\ WantsLeftovers /\ remaining # {}
          /\ Assign(housekeeping, remaining)
          /\ Enter("disjoint")
          /\ UNCHANGED <<housekeeping, remaining, exclusiveTaken, nonexPool, warnings>>
       \/ ~WantsLeftovers /\ Enter("disjoint") /\ UNCHANGED locals

Claim(k) == alloc[Roles[k].name]

(* Mutant: only the role declared first is asked whether it is exclusive.  *)
FirstClash(k, l) == Roles[k].exclusive /\ Claim(k) \cap Claim(l) # {}

Clash(k, l) ==
    /\ Roles[k].exclusive \/ Roles[l].exclusive
    /\ Claim(k) \cap Claim(l) # {}

SomeClash == \E k, l \in DOMAIN Roles : k < l /\ Clash(k, l)

CheckExclusivity ==
    /\ In("disjoint")
    /\ \/ SomeClash /\ Refuse("overlap")
       \/ ~SomeClash /\ Enter("smt") /\ UNCHANGED locals

SMTWarning(c, s) == [kind |-> "smt", cores |-> {c, s}]

Collisions ==
    {pair \in exclusiveTaken \X exclusiveTaken :
        pair[2] \in Siblings[pair[1]] /\ pair[2] > pair[1]}

WarnSMT ==
    /\ In("smt")
    /\ warnings' = warnings \cup {SMTWarning(pair[1], pair[2]) : pair \in Collisions}
    /\ Enter("done")
    /\ UNCHANGED <<alloc, housekeeping, remaining, exclusiveTaken, nonexPool>>

(* buildPlan has returned, with a plan or with an error.                   *)
Returned == phase = "done" \/ err # "none"

Terminated == Returned /\ UNCHANGED vars

Next ==
    \/ RefuseEmpty \/ ValidateRole \/ Validated
    \/ ClaimExplicit \/ ExplicitClaimed
    \/ AllocExclusive \/ ExclusiveAllocated
    \/ AllocShared \/ SharedAllocated
    \/ AllocHousekeeping \/ CheckExclusivity \/ WarnSMT
    \/ Terminated

Spec == Init /\ [][Next]_vars
=============================================================================
