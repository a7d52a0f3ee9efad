------------------------- MODULE AffinityProperties -------------------------
(***************************************************************************)
(* What pinning and fencing promise, stated over Affinity.                 *)
(***************************************************************************)
EXTENDS Affinity

Frame == [role: RoleName \cup {NoRole}, idx: Nat, prev: SUBSET Core]

(* Every variable stays in its type; GOMAXPROCS is at least 1              *)
(* (maxprocs.go:6).                                                        *)
TypeOK ==
    /\ cpuset \in SUBSET Core /\ changes \in Nat
    /\ alive \subseteq Tid /\ mask \in [Tid -> SUBSET Core] /\ tainted \subseteq alive
    /\ apply \in {"new", "list", "walk", "gomaxprocs", "ok", "failed"}
    /\ pass \in Nat /\ pending \subseteq Tid /\ done \subseteq alive
    /\ capped \in BOOLEAN /\ gomaxprocs \in Nat \ {0}
    /\ pc \in [Worker -> {"idle", "lock", "set", "readback"}]
    /\ on \in [Worker -> Tid \cup {NoTid}]
    /\ locks \in [Worker -> Nat]
    /\ depth \in [Worker -> 0 .. MaxDepth]
    /\ frames \in [Worker -> [1 .. MaxDepth -> Frame]]

Undisturbed == changes = 0
Fencing     == Housekeeping # NoRole
Applied     == apply = "ok"

Pinned(w)   == pc[w] = "idle" /\ depth[w] > 0

-----------------------------------------------------------------------------
(* The fence                                                               *)

(* Once Apply has returned without an error and as long as the container's *)
(* cpuset stays, every thread that runs unlocked goroutines carries the    *)
(* housekeeping mask: those alive when Apply ran, those started while it   *)
(* walked, those started since, those that workers pinned and gave back,   *)
(* on every path of PinSelf (pin_linux.go:65-68).  The walk must have      *)
(* ended by itself, and the callers kept the ordering rule.  A thread that *)
(* a failed restore left with a pin's mask is lost, and so are the threads *)
(* it starts: PinSelf and Unpin drop that error.                           *)
FenceComplete ==
    Applied /\ ~capped /\ Fencing /\ Ordered /\ Undisturbed =>
        \A t \in Pool \ tainted : mask[t] = Fence

(* "SetProcessMask applies the mask to EVERY existing thread"; it "Repeats *)
(* the walk until a pass finds no unseen tids" (pin_linux.go:65-68).       *)
EveryThreadFenced ==
    Applied /\ Fencing /\ Ordered /\ Undisturbed =>
        \A t \in Pool : mask[t] = Fence

(* The purpose of a plan: a thread that may run on a core of an exclusive  *)
(* role is one that a worker of that role has pinned there, or one that a  *)
(* failed restore left there.                                              *)
ExclusiveCoresIsolated ==
    Applied /\ ~capped /\ Fencing /\ Ordered /\ Undisturbed =>
        \A t \in alive \ tainted, r \in RoleName :
            /\ Plan[r].exclusive /\ r # Housekeeping
            /\ mask[t] \cap Plan[r].cores # {}
            => \E w \in Worker, d \in 1 .. MaxDepth :
                  locks[w] > 0 /\ on[w] = t /\ frames[w][d].role = r

-----------------------------------------------------------------------------
(* Pins                                                                    *)

(* A worker whose Pin returned without an error runs exactly on the cores  *)
(* it asked for, unless somebody else wrote its thread's mask after it     *)
(* took the thread, or a restore failed on it: a set that the kernel       *)
(* narrowed never passes for a pin (pin_linux.go:20-23), and a nested      *)
(* Unpin gives the outer pin back.                                         *)
PinHolds ==
    \A w \in Worker : Pinned(w) /\ on[w] \notin stale =>
        mask[on[w]] = Want(Top(w))

(* Two workers that pinned thread indices of one role that are different   *)
(* modulo its cores never share a core (plan.go:254-256).                  *)
OwnCores ==
    \A v, w \in Worker :
        /\ v # w /\ Pinned(v) /\ Pinned(w) /\ {on[v], on[w]} \cap stale = {}
        /\ Top(v).role = Top(w).role
        /\ Top(v).idx # Top(w).idx
        /\ {Top(v).idx, Top(w).idx} \subseteq 0 .. Cardinality(Plan[Top(v).role].cores) - 1
        /\ Plan[Top(v).role].threads > 0
        => mask[on[v]] \cap mask[on[w]] = {}

(* A thread goes back to the pool with the mask it was taken with, by      *)
(* Unpin and by every error return of PinSelf, unless somebody else wrote  *)
(* it meanwhile or the restore itself failed (pin_linux.go:49-62).         *)
PoolMaskRestored ==
    \A t \in Pool \ stale : mask[t] = home[t]

(* A worker holds one LockOSThread per pin it has not undone, plus one     *)
(* inside PinSelf once it has locked: none of the four error returns after *)
(* LockOSThread leaks a lock (pin_linux.go:39-58), and no thread is held   *)
(* by two workers.                                                         *)
LocksBalanced ==
    /\ \A w \in Worker :
          /\ locks[w] = depth[w] + IF pc[w] \in {"set", "readback"} THEN 1 ELSE 0
          /\ IF locks[w] > 0 THEN on[w] \in alive ELSE on[w] = NoTid
    /\ \A v, w \in Worker : v # w /\ locks[v] > 0 => on[v] # on[w]

-----------------------------------------------------------------------------
(* Why the fence and the pins hold: the inductive invariant                *)

Steady == Ordered /\ Undisturbed

(* Nothing is locked before Apply is over, and a call has room for a frame.*)
PinsAfterApply ==
    \A w \in Worker :
        /\ Ordered /\ apply # "ok" => pc[w] = "idle" /\ depth[w] = 0
        /\ pc[w] # "idle" => depth[w] < MaxDepth

CpusetWide == Undisturbed => BootMask \subseteq cpuset

(* What the walk has done stays done: only done threads are known to have  *)
(* the mask, so only a listing without a new tid proves the fence.         *)
WalkFences ==
    /\ apply = "new" => done = {}
    /\ apply \in {"list", "walk"} =>
          /\ Fencing
          /\ Steady => \A t \in done : mask[t] = Fence

PoolFenced ==
    Steady /\ Fencing /\ ~capped /\ apply \in {"gomaxprocs", "ok"} =>
        /\ \A t \in Pool \ tainted : mask[t] = Fence
        /\ \A w \in Worker :
              locks[w] > 0 /\ on[w] \notin tainted => frames[w][1].prev = Fence

(* A frame in use is a request for a role; one that was granted asks for   *)
(* some core, is what the thread's mask says, and is what the frame above  *)
(* it would restore.                                                       *)
Granted(w) == depth[w] + IF pc[w] = "readback" THEN 1 ELSE 0
InUse(w)   == depth[w] + IF pc[w] = "idle" THEN 0 ELSE 1

PinStack(w) ==
    /\ \A d \in 1 .. InUse(w) : frames[w][d].role \in RoleName
    /\ \A d \in 1 .. Granted(w) : Want(frames[w][d]) # {}
    /\ \A d \in 1 .. locks[w] :
          d > 1 => frames[w][d].prev = Want(frames[w][d - 1])
    /\ Granted(w) > 0 => mask[on[w]] = Want(frames[w][Granted(w)])
    /\ Granted(w) = 0 /\ locks[w] > 0 => mask[on[w]] = frames[w][1].prev

AInv ==
    /\ TypeOK /\ LocksBalanced /\ PinsAfterApply /\ CpusetWide
    /\ WalkFences /\ PoolFenced
    /\ Steady => \A w \in Worker : on[w] \notin tainted => PinStack(w)

-----------------------------------------------------------------------------
(* Why the pins hold and threads come back, also when the cpuset changes   *)
(* and callers keep no order: a second inductive invariant, about threads  *)
(* that nobody but their worker has written.                               *)

Own(w)   == locks[w] > 0 /\ on[w] \notin stale
Legal(m) == m # {} /\ m \subseteq cpuset

(* What a worker's thread carries below its pin d + 1; at the bottom, the  *)
(* mask it was taken with.                                                 *)
Level(w, d) == IF d = 0 THEN home[on[w]] ELSE Want(frames[w][d])

(* Every level is a mask the kernel gives back in full, a frame restores   *)
(* the level below it, and between calls the thread is at the top one.     *)
OwnStack(w) ==
    /\ \A d \in 0 .. depth[w] : Legal(Level(w, d))
    /\ \A d \in 1 .. locks[w] : frames[w][d].prev = Level(w, d - 1)
    /\ pc[w] # "readback" => mask[on[w]] = Level(w, depth[w])

PinInv ==
    /\ home \in [Tid -> SUBSET Core]
    /\ \A t \in alive : Legal(mask[t])
    /\ \A w \in Worker, d \in 1 .. MaxDepth :
          d <= InUse(w) => frames[w][d].role \in RoleName
    /\ PoolMaskRestored
    /\ \A w \in Worker : Own(w) => OwnStack(w)

-----------------------------------------------------------------------------
(* GOMAXPROCS                                                              *)

(* GOMAXPROCS covers the cores of the whole plan and not the housekeeping  *)
(* mask Apply has just set, unless the quota is smaller: every pinned      *)
(* worker finds a P (plan.go:277-280, discover_linux.go:21-24).            *)
GomaxprocsCoversPlan ==
    Applied /\ Undisturbed =>
        \/ gomaxprocs >= Cardinality(UNION {Plan[r].cores : r \in RoleName})
        \/ gomaxprocs >= QuotaCPUs

-----------------------------------------------------------------------------
(* Liveness                                                                *)

(* Apply returns however fast threads come and go (pin_linux.go:87).       *)
ApplyReturns == <>(apply \in {"ok", "failed"})

(* PinSelf returns, with a pin or an error, whatever happens to the cpuset *)
(* in the middle of it.                                                    *)
PinReturns == \A w \in Worker : pc[w] # "idle" ~> pc[w] = "idle"
=============================================================================
