------------------------- MODULE PlannerProperties -------------------------
(***************************************************************************)
(* What a plan promises, stated over the allocator of Planner.             *)
(***************************************************************************)
EXTENDS Planner

RoleIds == DOMAIN Roles
Planned == phase = "done"

Explicit(k)  == Roles[k].cores # {}
Automatic(k) == ~Explicit(k)

(* The cores no explicit override claims: the supply of auto-allocation.   *)
Free == Available \ UNION {Roles[k].cores : k \in RoleIds}

(* Every local of buildPlan stays in its type.                             *)
TypeOK ==
    /\ input \in Input
    /\ phase \in Phases /\ err \in Errors
    /\ i \in Nat \ {0}
    /\ DOMAIN alloc \subseteq Name
    /\ alloc \in [DOMAIN alloc -> SUBSET Core]
    /\ housekeeping \in DOMAIN alloc \cup {NoName}
    /\ remaining \subseteq Available
    /\ exclusiveTaken \subseteq Core
    /\ nonexPool \subseteq Available

-----------------------------------------------------------------------------
(* Isolation                                                               *)

(* No core of an exclusive role belongs to another role of a finished      *)
(* plan, whatever mixture of overrides, picks and leftovers built it       *)
(* (plan.go:23, plan.go:163-181).                                          *)
ExclusiveIsolation ==
    Planned => \A k, l \in RoleIds :
        k # l /\ Roles[k].exclusive => Claim(k) \cap Claim(l) = {}

(* The validation of phase 5 only ever refuses what the caller wrote: two  *)
(* explicit core lists that clash.  Phases 1-4 never place an automatic    *)
(* allocation on an exclusive core, nor an exclusive one on a taken core.  *)
ClashOnlyFromExplicit ==
    err = "overlap" => \E k, l \in RoleIds :
        /\ k # l
        /\ Roles[k].exclusive
        /\ Roles[k].cores \cap Roles[l].cores # {}

(* Every role of a finished plan has a core, and only available ones: the  *)
(* remainder idx % len(cores) of Plan.Pin is always defined and PinSelf's  *)
(* availability check cannot refuse a planned core (plan.go:264-274).      *)
PinTargetsExist ==
    Planned => \A k \in RoleIds : Claim(k) # {} /\ Claim(k) \subseteq Available

-----------------------------------------------------------------------------
(* Why it holds: the inductive invariant                                   *)

Seen == IF phase = "validate" THEN i - 1 ELSE Len(Roles)

(* p.index holds exactly the names validated so far, each once.            *)
IndexExact ==
    /\ Seen \in 0 .. Len(Roles)
    /\ DOMAIN alloc = {Roles[k].name : k \in 1 .. Seen}
    /\ \A k, l \in 1 .. Seen : Roles[k].name = Roles[l].name => k = l
    /\ housekeeping # NoName =>
          \E k \in 1 .. Seen : Roles[k].name = housekeeping

(* An override is claimed when phase 1 reaches it and kept from then on;   *)
(* nothing else is claimed before phase 2.                                 *)
Pending(k) == phase = "validate" \/ (phase = "explicit" /\ k >= i)

ClaimsInOrder ==
    \A k \in 1 .. Seen :
        /\ Explicit(k) => Claim(k) = IF Pending(k) THEN {} ELSE Roles[k].cores
        /\ Automatic(k) /\ phase \in {"validate", "explicit"} => Claim(k) = {}

(* remaining is what no role holds, until the leftovers are given out.     *)
RemainingIsFree ==
    phase \in {"explicit", "exclusive", "shared", "leftovers"} =>
        \A k \in 1 .. Seen : Claim(k) \cap remaining = {}

(* What a role may wrap onto in phase 3 belongs to no exclusive role.      *)
PoolIsShareable ==
    phase = "shared" => \A k \in 1 .. Seen :
        Roles[k].exclusive \/ Explicit(k) => Claim(k) \cap nonexPool = {}

(* At every step, only two explicit claims can clash.                      *)
AutoNeverClashes ==
    \A k, l \in 1 .. Seen :
        k # l /\ Clash(k, l) => Explicit(k) /\ Explicit(l)

CheckedAtEnd ==
    phase \in {"smt", "done"} => ~SomeClash

IInv ==
    /\ TypeOK /\ IndexExact /\ ClaimsInOrder /\ RemainingIsFree
    /\ PoolIsShareable /\ AutoNeverClashes /\ CheckedAtEnd
    /\ err = "overlap" => phase = "disjoint" /\ SomeClash

-----------------------------------------------------------------------------
(* Why every thread index has a core: a second inductive invariant         *)

(* The roles that buildPlan lets through, and which of them is             *)
(* p.housekeeping.                                                         *)
RolesSound ==
    \A k \in 1 .. Seen :
        /\ Roles[k].threads >= 0
        /\ Automatic(k) /\ Roles[k].threads = 0 => Roles[k].housekeeping
        /\ Roles[k].housekeeping => housekeeping = Roles[k].name

ClaimsAvailable == \A k \in 1 .. Seen : Claim(k) \subseteq Available

(* A loop serves each role it passes, and phase 4 the one left over.       *)
AfterShared      == {"leftovers", "disjoint", "smt", "done"}
PastExclusive(k) == phase \in AfterShared \cup {"shared"} \/ (phase = "exclusive" /\ k < i)
PastShared(k)    == phase \in AfterShared \/ (phase = "shared" /\ k < i)

Served ==
    \A k \in 1 .. Seen :
        /\ AutoExclusive(Roles[k]) /\ PastExclusive(k) => Claim(k) # {}
        /\ AutoShared(Roles[k]) /\ PastShared(k) => Claim(k) # {}

HousekeeperServed ==
    phase \in {"disjoint", "smt", "done"} /\ housekeeping # NoName =>
        alloc[housekeeping] # {}

(* An automatic role has nothing before its loop reaches it.               *)
ServedInTurn ==
    \A k \in 1 .. Seen : Automatic(k) /\ Claim(k) # {} =>
        \/ AutoExclusive(Roles[k]) /\ PastExclusive(k)
        \/ AutoShared(Roles[k]) /\ PastShared(k)
        \/ phase \in {"disjoint", "smt", "done"}

ServedInv ==
    RolesSound /\ ClaimsAvailable /\ Served /\ HousekeeperServed /\ ServedInTurn

-----------------------------------------------------------------------------
(* Use of the machine                                                      *)

(* One element per thread that the roles of S ask for.                     *)
Slots(S) == UNION {{k} \X (1 .. Roles[k].threads) : k \in S}

ExclusiveIds == {k \in RoleIds : AutoExclusive(Roles[k])}
SharedIds    == {k \in RoleIds : AutoShared(Roles[k])}
LeftoverIds  == {k \in RoleIds : /\ Automatic(k) /\ Roles[k].housekeeping
                                 /\ k \notin ExclusiveIds}

(* The roles that the loops of phases 2 and 3 have passed, and what they   *)
(* asked for, of the cores that no override claims.                        *)
GivenExclusive == {k \in ExclusiveIds : PastExclusive(k)}
GivenShared    == {k \in SharedIds : PastShared(k)}

Supply == Cardinality(Free)
Asked  == Cardinality(Slots(GivenExclusive \cup GivenShared))

(* What each phase runs out of, added up over all roles in any order.      *)
ShortInExclusive == Cardinality(Slots(ExclusiveIds)) > Supply

ShortInShared ==
    LET asked == Cardinality(Slots(ExclusiveIds)) + Cardinality(Slots(SharedIds))
    IN  \/ ~input.allowOverlap /\ asked > Supply
        \/ SharedIds # {} /\ Cardinality(Slots(ExclusiveIds)) = Supply

ShortInLeftovers ==
    /\ LeftoverIds # {}
    /\ Cardinality(Slots(ExclusiveIds)) + Cardinality(Slots(SharedIds)) >= Supply

Shortage == ShortInExclusive \/ ShortInShared \/ ShortInLeftovers

(* The role refused is the first whose threads no longer fit beside those  *)
(* that the earlier roles of its phase and of phase 2 asked for.           *)
FirstOver(S) == i \in S /\ Asked <= Supply /\ Asked + Roles[i].threads > Supply

Justified(why) ==
    /\ why = "noExclusive" => FirstOver(ExclusiveIds) /\ ShortInExclusive
    /\ why = "noShared" => /\ FirstOver(SharedIds)
                           /\ ~ShortInExclusive /\ ShortInShared
    /\ why = "noLeftovers" => ~ShortInExclusive /\ ~ShortInShared /\ ShortInLeftovers

(* The phase-by-phase allocation refuses for lack of cores exactly when    *)
(* the threads asked for, added up in any order, exceed the free cores: no *)
(* order of declaration makes a feasible Spec fail, and none that cannot   *)
(* be served gets past phase 4.  The error names the first phase that the  *)
(* Spec cannot pass, and in phases 2 and 3 the role with which the threads *)
(* asked for so far come to exceed the supply (plan.go:108-111, 133-137,   *)
(* 156-158).                                                               *)
RefusedExactlyWhenShort ==
    /\ Justified(err)
    /\ phase \in {"disjoint", "smt", "done"} => ~Shortage

(* Two automatically allocated roles share a core only under AllowOverlap, *)
(* and only when no available core was left idle (plan.go:13).             *)
SharingIsLastResort ==
    Planned => \A k, l \in RoleIds :
        k # l /\ Automatic(k) /\ Automatic(l) /\ Claim(k) \cap Claim(l) # {}
            => /\ input.allowOverlap
               /\ Available \subseteq UNION {Claim(m) : m \in RoleIds}

(* Each thread of a threaded role gets its own core when possible          *)
(* (plan.go:19): a role with fewer cores than threads holds every core     *)
(* that is not exclusive or explicitly claimed, and the plan says so.      *)
ShortOnlyWhenPoolExhausted ==
    Planned => \A k \in ExclusiveIds \cup SharedIds :
        Cardinality(Claim(k)) # Roles[k].threads
            => /\ Cardinality(Claim(k)) < Roles[k].threads
               /\ Claim(k) = Free \ UNION {Claim(l) : l \in ExclusiveIds}
               /\ [kind |-> "short", role |-> Roles[k].name] \in warnings

(* With a housekeeping role that was left the leftovers, every available   *)
(* core has a role: nothing of the process mask is lost (plan.go:24).      *)
LeftoversComplete ==
    Planned /\ LeftoverIds # {} =>
        Available = UNION {Claim(k) : k \in RoleIds}

(* The doc of Role.Housekeeping: the housekeeping role "receives all       *)
(* leftover cores" (plan.go:24), unless it names its own (plan.go:154).    *)
HousekeepingGetsAllLeftovers ==
    Planned /\ (\E k \in RoleIds : Automatic(k) /\ Roles[k].housekeeping) =>
        Available = UNION {Claim(k) : k \in RoleIds}

(* A core set, once given to a role, is never taken back or changed by a   *)
(* later phase.                                                            *)
AllocationsAreFinal ==
    [][\A n \in DOMAIN alloc : alloc[n] # {} => alloc'[n] = alloc[n]]_vars

-----------------------------------------------------------------------------
(* SMT siblings                                                            *)

Collide(S) == {pair \in S \X S : pair[2] \in Siblings[pair[1]]}

Topology ==
    /\ \A c \in Core : c \notin Siblings[c]
    /\ \A c, d \in Core : d \in Siblings[c] =>
            Siblings[c] \cup {c} = Siblings[d] \cup {d}

ExclusiveCores(S) == UNION {Claim(k) : k \in {m \in S : Roles[m].exclusive}}

(* The plan warns of a pair of siblings exactly when both are held by      *)
(* exclusive roles that named their cores or threads, on a machine whose   *)
(* sibling lists were all read (plan.go:183-191).                          *)
CollisionsReported ==
    Planned /\ Topology =>
        {w \in warnings : w.kind = "smt"} =
            {SMTWarning(pair[1], pair[2]) :
                pair \in Collide(ExclusiveCores(RoleIds \ LeftoverIds))}

(* "SMT collision warnings across all exclusive assignments"               *)
(* (plan.go:183): two exclusive roles never share a physical core unwarned.*)
AllCollisionsReported ==
    Planned /\ Topology => \A k, l \in RoleIds :
        k # l /\ Roles[k].exclusive /\ Roles[l].exclusive =>
            \A x \in Claim(k), y \in Claim(l) :
                y \in Siblings[x] => SMTWarning(x, y) \in warnings

(* pickExclusive puts a role on a sibling of an exclusive core only when   *)
(* no choice of that many remaining cores would have avoided it            *)
(* (plan.go:195-197); the greedy walk is as good as a search.              *)
CollisionOnlyWhenForced ==
    [][(Topology /\ phase = "exclusive" /\ remaining' # remaining) =>
          LET n     == Roles[i].threads
              fresh == exclusiveTaken' \ exclusiveTaken
              Harmless(S) == \A c \in S : ~SiblingIn(c, Siblings, exclusiveTaken \cup S)
          IN  Harmless(fresh) \/ ~\E S \in SUBSET remaining :
                                     Cardinality(S) = n /\ Harmless(S)]_vars

-----------------------------------------------------------------------------
(* Why the machine is used that way: two more inductive invariants, one    *)
(* about which cores are where and one about how many there are.           *)

Claimed(S) == UNION {Claim(k) : k \in S}

AfterExplicit == AfterShared \cup {"exclusive", "shared"}

(* No available core is lost: it is in remaining or some role has it.      *)
Covered == phase # "validate" => Available \subseteq remaining \cup Claimed(RoleIds)

(* What is in remaining, and in the pool that phase 3 may wrap onto.       *)
PoolExact ==
    /\ phase = "explicit" =>
          remaining = Available \ UNION {Roles[k].cores : k \in {m \in RoleIds : m < i}}
    /\ phase = "exclusive" => remaining = Free \ Claimed(ExclusiveIds)
    /\ phase \in AfterShared \cup {"shared"} =>
          remaining \subseteq nonexPool /\ nonexPool = Free \ Claimed(ExclusiveIds)

(* exclusiveTaken misses nothing but an exclusive role's leftovers.        *)
TakenExact ==
    phase \in AfterExplicit => exclusiveTaken = ExclusiveCores(RoleIds \ LeftoverIds)

HousekeeperKnown ==
    housekeeping # NoName =>
        \E k \in 1 .. Seen : Roles[k].name = housekeeping /\ Roles[k].housekeeping

LastResort ==
    \A k, l \in 1 .. Seen :
        k # l /\ Automatic(k) /\ Automatic(l) /\ Claim(k) \cap Claim(l) # {}
            => input.allowOverlap /\ Available \subseteq Claimed(RoleIds)

LeftoversGiven ==
    phase \in {"disjoint", "smt", "done"} /\ LeftoverIds # {} =>
        remaining \subseteq Claimed(RoleIds)

OnlyShortBefore == phase # "done" => \A w \in warnings : w.kind = "short"

PoolInv ==
    /\ IsFiniteSet(Available) /\ Covered /\ PoolExact /\ TakenExact /\ HousekeeperKnown
    /\ LastResort /\ LeftoversGiven /\ OnlyShortBefore /\ CollisionsReported

(* A role has the threads it asked for, or the whole pool and a warning.   *)
ThreadsServed ==
    /\ \A k \in GivenExclusive : Cardinality(Claim(k)) = Roles[k].threads
    /\ \A k \in GivenShared :
          \/ Cardinality(Claim(k)) = Roles[k].threads
          \/ /\ Cardinality(Claim(k)) < Roles[k].threads /\ Claim(k) = nonexPool
             /\ [kind |-> "short", role |-> Roles[k].name] \in warnings

(* remaining shrinks by what was asked for, and once that is too much it   *)
(* is empty and cores are shared.                                          *)
SupplyCounted ==
    /\ phase \in AfterExplicit =>
          /\ Cardinality(remaining) = IF Asked <= Supply THEN Supply - Asked ELSE 0
          /\ Asked > Supply => input.allowOverlap /\ phase # "exclusive"
    /\ phase \in AfterShared \cup {"shared"} =>
          /\ Cardinality(nonexPool) + Cardinality(Slots(ExclusiveIds)) = Supply
          /\ GivenShared # {} => nonexPool # {}

CountInv == ThreadsServed /\ SupplyCounted /\ RefusedExactlyWhenShort
=============================================================================
