------------------------------ MODULE Affinity ------------------------------
(***************************************************************************)
(* Thread affinity under a plan: Plan.Apply and Plan.Pin of plan.go, the   *)
(* process sweep and PinSelf of pin_linux.go, SetGOMAXPROCS of maxprocs.go *)
(* and Available of discover_linux.go, against the kernel's affinity masks *)
(* and the Go scheduler's threads.                                         *)
(*                                                                         *)
(* The main goroutine calls Apply once; workers call Pin and Unpin.  Every *)
(* system call is a step of its own, so that the sweep, the workers, the   *)
(* runtime's thread creation and a change of the container's cpuset        *)
(* interleave between any two of them.  Two things are merged because no   *)
(* other step can tell: LockOSThread with the sched_getaffinity after it,  *)
(* and a restore with the UnlockOSThread after it (a locked thread clones  *)
(* nothing and runs nobody else).                                          *)
(*                                                                         *)
(* A tid names a slot: when a thread exits its tid leaves done, and Spawn  *)
(* may reuse it once the sweep's current listing does not hold it, which   *)
(* stands for a fresh tid.  The kernel's own reuse of a tid within one     *)
(* sweep takes a wrap of pid_max and is not modelled.                      *)
(***************************************************************************)
EXTENDS Integers, FiniteSets

CONSTANTS
    Core, BootMask,     \* all cores; the affinity mask captured by init()
    Cpusets,            \* values the cgroup's effective cpuset may take
    CgroupReadable,     \* whether Available can read that cpuset
    QuotaCPUs,          \* int(quota), or a large number when unlimited
    RoleName, Plan,     \* the plan: role -> cores, threads, exclusive
    Housekeeping,       \* the housekeeping role, or NoRole
    NoRole,
    Tid, NoTid,         \* thread slots
    InitThreads,        \* threads alive when Apply is called
    Worker,             \* goroutines that pin themselves
    MaxIdx,             \* bound: largest thread index passed to Pin
    MaxDepth,           \* bound: nested pins per worker
    MaxPasses,          \* the 10 of SetProcessMask
    MaxChanges,         \* bound: changes of the cpuset
    MaxLost,            \* bound: tainted threads when a restore may fail
    Ordered,            \* callers keep the rule "Apply before any Pin"
    Faults              \* any sched_* call and readdir may fail for no modelled reason

ASSUME CoreAssumption ==
    /\ Core \subseteq Nat /\ BootMask \subseteq Core /\ IsFiniteSet(BootMask)
    /\ BootMask # {}
    /\ Cpusets \subseteq SUBSET Core /\ QuotaCPUs \in Nat

ASSUME PlanAssumption ==
    /\ Plan \in [RoleName -> [cores: SUBSET Core, threads: Nat, exclusive: BOOLEAN]]
    /\ NoRole \notin RoleName /\ Housekeeping \in RoleName \cup {NoRole}

(* What Planner checks of every plan that buildPlan returns (its           *)
(* PinTargetsExist and ExclusiveIsolation, the latter also proved).        *)
ASSUME PlanIsolation ==
    /\ \A r \in RoleName : Plan[r].cores # {} /\ Plan[r].cores \subseteq BootMask
    /\ \A r, s \in RoleName :
          r # s /\ Plan[r].exclusive => Plan[r].cores \cap Plan[s].cores = {}

ASSUME BoundAssumption ==
    /\ NoTid \notin Tid /\ InitThreads \subseteq Tid /\ InitThreads # {}
    /\ MaxIdx \in Nat /\ MaxDepth \in Nat /\ MaxPasses \in Nat /\ MaxChanges \in Nat
    /\ MaxLost \in Nat
    /\ Ordered \in BOOLEAN /\ CgroupReadable \in BOOLEAN /\ Faults \in BOOLEAN

VARIABLES
    cpuset, changes,            \* the cgroup's cpuset, and how often it changed
    alive, mask,                \* the process's threads and their masks
    apply,                      \* where Apply is
    pass, pending, done,        \* SetProcessMask: pass, unvisited tids, done
    capped,                     \* the walk was ended by the pass limit
    gomaxprocs,
    pc, on, locks,              \* per worker: step, locked thread, lock count
    depth, frames,              \* its pins, and what their closures hold
    home, stale, tainted        \* history: see below

kernel  == <<cpuset, changes>>
threads == <<alive, mask>>
sweep   == <<apply, pass, pending, done, capped, gomaxprocs>>
workers == <<pc, on, locks, depth, frames>>
history == <<home, stale, tainted>>
vars    == <<kernel, threads, sweep, workers, history>>

(* home[t] is the mask t had when a worker last locked it, or as somebody  *)
(* else last wrote it; stale holds the threads that somebody else wrote    *)
(* while a worker had them locked, or that a failed restore left as they   *)
(* were; tainted holds the threads a restore ever failed on and, as they   *)
(* inherit the mask, the threads that those have started.                  *)

-----------------------------------------------------------------------------
(* Kernel and runtime                                                      *)

Held   == {on[w] : w \in {v \in Worker : locks[v] > 0}}
Pool   == alive \ Held              \* threads that run unlocked goroutines
Effective(want) == want \cap cpuset
Refused(want)   == Effective(want) = {}       \* EINVAL

(* Mutant: the mask a worker leaves behind is not put back.                *)
LeftAsIs(t, prev) == mask

(* The mask of t after sched_setaffinity was tried with prev, and a        *)
(* refusal dropped.                                                        *)
Restored(t, prev) ==
    [mask EXCEPT ![t] = IF Refused(prev) THEN @ ELSE Effective(prev)]

(* A best-effort restore: nobody learns when the call fails.               *)
Restore(t, prev) ==
    \/ mask' = Restored(t, prev) /\ UNCHANGED history
    \/ /\ Faults /\ Cardinality(tainted) < MaxLost
       /\ stale' = stale \cup {t} /\ tainted' = tainted \cup {t}
       /\ UNCHANGED <<mask, home>>

(* Mutant: discovery reads the masks the process has now.                  *)
AvailableNow == cpuset \cap UNION {mask[t] : t \in alive}

Available == IF CgroupReadable THEN cpuset \cap BootMask ELSE BootMask

(* A write to the threads of T by somebody other than their workers.       *)
Overwrite(T, new) ==
    /\ mask' = [t \in Tid |-> IF t \in T THEN new[t] ELSE mask[t]]
    /\ home' = [t \in Tid |-> IF t \in T THEN new[t] ELSE home[t]]
    /\ stale' = (stale \ T) \cup (T \cap Held)
    /\ UNCHANGED tainted

(* The runtime starts a thread: from a pool thread, never from a locked    *)
(* one (the template thread stands in), and it inherits the mask.          *)
Spawn(t, u) ==
    /\ t \in Pool /\ u \in Tid \ (alive \cup pending)
    /\ alive' = alive \cup {u}
    /\ mask' = [mask EXCEPT ![u] = mask[t]]
    /\ home' = [home EXCEPT ![u] = mask[t]]
    /\ tainted' = tainted \cup {x \in {u} : t \in tainted}
    /\ UNCHANGED <<kernel, sweep, workers, stale>>

(* A runnable goroutine without a thread makes the runtime start one.      *)
StartThread == \E t, u \in Tid : Pool = {t} /\ Spawn(t, u)

Die(t) ==
    /\ alive' = alive \ {t}
    /\ mask' = [mask EXCEPT ![t] = {}]
    /\ home' = [home EXCEPT ![t] = {}]
    /\ stale' = stale \ {t} /\ tainted' = tainted \ {t}
    /\ done' = done \ {t}

Exit(t) ==
    /\ t \in Pool /\ Pool # {t}
    /\ Die(t)
    /\ UNCHANGED <<kernel, apply, pass, pending, capped, gomaxprocs, workers>>

(* The cgroup's cpuset changes: older kernels give every thread the new    *)
(* set, newer ones what is left of its mask, if anything is.               *)
Reset(new)  == [t \in Tid |-> new]
Shrink(new) == [t \in Tid |-> IF mask[t] \cap new = {} THEN new ELSE mask[t] \cap new]

CpusetChange ==
    /\ changes < MaxChanges /\ changes' = changes + 1
    /\ cpuset' \in Cpusets \ {cpuset, {}}
    /\ Overwrite(alive, Reset(cpuset')) \/ Overwrite(alive, Shrink(cpuset'))
    /\ UNCHANGED <<alive, sweep, workers>>

-----------------------------------------------------------------------------
(* Plan.Apply: SetProcessMask, then SetGOMAXPROCS                          *)

Fence == Plan[Housekeeping].cores

FailApply == apply' = "failed" /\ pass' = 0 /\ pending' = {} /\ done' = {}

ApplyStart ==
    /\ apply = "new"
    /\ \/ /\ Housekeeping = NoRole
          /\ apply' = "gomaxprocs"
          /\ UNCHANGED <<pass, pending, done>>
       \/ /\ Housekeeping # NoRole /\ Fence \subseteq Available
          /\ apply' = "list"
          /\ UNCHANGED <<pass, pending, done>>
       \/ /\ Housekeeping # NoRole /\ ~(Fence \subseteq Available)
          /\ FailApply
    /\ UNCHANGED <<kernel, threads, capped, gomaxprocs, workers, history>>

MorePasses == pass < MaxPasses

(* Mutant: one pass over the threads is taken to be enough.                *)
UnseenInFirstPass == IF pass = 0 THEN alive ELSE {}

(* The tids of a listing that the walk will not skip; the walk makes       *)
(* progress exactly when there is one.                                     *)
Unseen == alive \ done

SweepEnd(limit) ==
    /\ apply' = "gomaxprocs" /\ capped' = limit
    /\ pass' = 0 /\ pending' = {} /\ done' = {}

ListTIDs ==
    /\ apply = "list"
    /\ \/ ~MorePasses /\ SweepEnd(TRUE)
       \/ MorePasses /\ Unseen = {} /\ SweepEnd(FALSE)
       \/ /\ MorePasses /\ Unseen # {}
          /\ apply' = "walk" /\ pending' = Unseen
          /\ UNCHANGED <<pass, done, capped>>
       \/ MorePasses /\ Faults /\ FailApply /\ UNCHANGED capped
    /\ UNCHANGED <<kernel, threads, gomaxprocs, workers, history>>

(* Mutant: the walk repeats until it converges, however often.             *)
UncountedPass(t) ==
    /\ pending' = pending \ {t}
    /\ apply' = IF pending = {t} THEN "list" ELSE "walk"
    /\ pass' = pass

(* On to the next tid of the listing, or to the next pass.                 *)
AfterThread(t) ==
    /\ pending' = pending \ {t}
    /\ apply' = IF pending = {t} THEN "list" ELSE "walk"
    /\ pass' = IF pending = {t} THEN pass + 1 ELSE pass

SweepThread(t) ==
    /\ apply = "walk" /\ t \in pending
    /\ \/ /\ t \notin alive                         \* ESRCH is ignored
          /\ AfterThread(t)
          /\ UNCHANGED <<threads, done, history>>
       \/ /\ t \in alive /\ ~Refused(Fence)
          /\ Overwrite({t}, [u \in Tid |-> Effective(Fence)])
          /\ done' = done \cup {t}
          /\ AfterThread(t)
          /\ UNCHANGED alive
       \/ /\ t \in alive /\ (Refused(Fence) \/ Faults)
          /\ FailApply
          /\ UNCHANGED <<threads, history>>
    /\ UNCHANGED <<kernel, capped, gomaxprocs, workers>>

GomaxprocsTarget ==
    LET n == IF QuotaCPUs < Cardinality(Available)
             THEN QuotaCPUs ELSE Cardinality(Available)
    IN  IF n < 1 THEN 1 ELSE n

SetGOMAXPROCS ==
    /\ apply = "gomaxprocs"
    /\ apply' = "ok" /\ gomaxprocs' = GomaxprocsTarget
    /\ UNCHANGED <<kernel, threads, pass, pending, done, capped, workers, history>>

Main == ApplyStart \/ ListTIDs \/ (\E t \in Tid : SweepThread(t)) \/ SetGOMAXPROCS

-----------------------------------------------------------------------------
(* Plan.Pin, PinSelf and Unpin                                             *)

Blank == [role |-> NoRole, idx |-> 0, prev |-> {}]

(* Mutant: the index wraps one core early.                                 *)
TargetOffByOne(role, idx) ==
    LET cores == Plan[role].cores
        last  == Cardinality(cores) - 1
        Nth   == IF last = 0 THEN 0 ELSE idx % last
    IN  IF Plan[role].threads > 0
        THEN {c \in cores : Cardinality({d \in cores : d < c}) = Nth}
        ELSE cores

(* cores[idx % len(cores)] of a threaded role, all cores of a set-pinned   *)
(* one.                                                                    *)
Target(role, idx) ==
    LET cores == Plan[role].cores
        Nth   == idx % Cardinality(cores)
    IN  IF Plan[role].threads > 0
        THEN {c \in cores : Cardinality({d \in cores : d < c}) = Nth}
        ELSE cores

Want(f) == Target(f.role, f.idx)

Top(w)     == frames[w][depth[w]]          \* the pin Unpin would undo
Current(w) == frames[w][depth[w] + 1]      \* the call in progress

SetFrame(w, d, f) == frames' = [frames EXCEPT ![w] = [@ EXCEPT ![d] = f]]
Goto(w, l)        == pc' = [pc EXCEPT ![w] = l]

(* The calls refused before anything is locked (unknown role, no cores,    *)
(* negative index, cores not available) change nothing and have no step.   *)
PinCall(w) ==
    /\ pc[w] = "idle" /\ depth[w] < MaxDepth
    /\ Ordered => apply = "ok"
    /\ \E role \in RoleName, idx \in 0 .. MaxIdx :
          /\ Plan[role].threads = 0 => idx = 0       \* not looked at
          /\ Target(role, idx) \subseteq Available
          /\ SetFrame(w, depth[w] + 1, [role |-> role, idx |-> idx, prev |-> {}])
    /\ Goto(w, "lock")
    /\ UNCHANGED <<kernel, threads, sweep, on, locks, depth, history>>

(* UnlockOSThread: the last one gives the thread back.                     *)
Unlock(w) ==
    /\ locks' = [locks EXCEPT ![w] = @ - 1]
    /\ on' = [on EXCEPT ![w] = IF locks[w] = 1 THEN NoTid ELSE @]

(* A goroutine that holds a thread keeps it; another has one of the pool,  *)
(* which keeps the runtime's template thread.                              *)
RunsOn(w, t) ==
    \/ locks[w] > 0 /\ t = on[w]
    \/ locks[w] = 0 /\ t \in Pool /\ Pool # {t}

(* Mutant: the first sched_getaffinity fails and PinSelf returns with the  *)
(* thread locked.                                                          *)
GetFailedLocked(w, t) ==
    /\ on' = [on EXCEPT ![w] = t] /\ locks' = [locks EXCEPT ![w] = @ + 1]
    /\ Goto(w, "idle")
    /\ SetFrame(w, depth[w] + 1, Blank)
    /\ UNCHANGED history

(* LockOSThread, a sched_getaffinity that fails, UnlockOSThread: the       *)
(* thread is where it was.                                                 *)
GetFailed(w, t) ==
    /\ Goto(w, "idle")
    /\ SetFrame(w, depth[w] + 1, Blank)
    /\ UNCHANGED <<on, locks, history>>

(* LockOSThread and a sched_getaffinity that fills prev.                   *)
GetPrev(w, t) ==
    /\ on' = [on EXCEPT ![w] = t] /\ locks' = [locks EXCEPT ![w] = @ + 1]
    /\ home' = [home EXCEPT ![t] = IF locks[w] = 0 THEN mask[t] ELSE @]
    /\ stale' = stale \ {x \in {t} : locks[w] = 0}
    /\ SetFrame(w, depth[w] + 1, [Current(w) EXCEPT !.prev = mask[t]])
    /\ Goto(w, "set")
    /\ UNCHANGED tainted

PinLock(w) ==
    /\ pc[w] = "lock"
    /\ \E t \in Tid :
          /\ RunsOn(w, t)
          /\ GetPrev(w, t) \/ (Faults /\ GetFailed(w, t))
    /\ UNCHANGED <<kernel, threads, sweep, depth>>

(* PinSelf returns an error with the thread unlocked.                      *)
PinError(w) ==
    /\ Unlock(w)
    /\ Goto(w, "idle")
    /\ SetFrame(w, depth[w] + 1, Blank)
    /\ UNCHANGED depth

(* Mutant: the error returns after the readback forget the restore.        *)
UndoNothing(w) == UNCHANGED <<mask, history>>

UndoPin(w) == Restore(on[w], Current(w).prev)

PinSet(w) ==
    /\ pc[w] = "set"
    /\ LET want == Want(Current(w)) IN
       \/ /\ Refused(want) \/ Faults
          /\ PinError(w)
          /\ UNCHANGED mask
       \/ /\ ~Refused(want)
          /\ mask' = [mask EXCEPT ![on[w]] = Effective(want)]
          /\ Goto(w, "readback")
          /\ UNCHANGED <<on, locks, depth, frames>>
    /\ UNCHANGED <<kernel, alive, sweep, history>>

(* Mutant: the return code of sched_setaffinity is trusted.                *)
NeverNarrowed(w) == FALSE

Narrowed(w) == mask[on[w]] # Want(Current(w))

(* Mutant: a narrowed pin is tried again instead of refused.               *)
RetryPin(w) ==
    /\ UndoPin(w)
    /\ Goto(w, "set")
    /\ UNCHANGED <<on, locks, depth, frames>>

ReadbackFailed(w) == UndoPin(w) /\ PinError(w)

PinReadback(w) ==
    /\ pc[w] = "readback"
    /\ \/ /\ Narrowed(w) \/ Faults
          /\ ReadbackFailed(w)
       \/ /\ ~Narrowed(w)
          /\ Goto(w, "idle")
          /\ depth' = [depth EXCEPT ![w] = @ + 1]
          /\ UNCHANGED <<mask, on, locks, frames, history>>
    /\ UNCHANGED <<kernel, alive, sweep>>

Unpin(w) ==
    /\ pc[w] = "idle" /\ depth[w] > 0
    /\ Restore(on[w], Top(w).prev)
    /\ Unlock(w)
    /\ depth' = [depth EXCEPT ![w] = @ - 1]
    /\ SetFrame(w, depth[w], Blank)
    /\ UNCHANGED <<kernel, alive, sweep, pc>>

(* A goroutine ends without Unpin: the runtime ends its thread with it.    *)
Goexit(w) ==
    /\ pc[w] = "idle" /\ depth[w] > 0
    /\ Die(on[w])
    /\ on' = [on EXCEPT ![w] = NoTid] /\ locks' = [locks EXCEPT ![w] = 0]
    /\ depth' = [depth EXCEPT ![w] = 0]
    /\ frames' = [frames EXCEPT ![w] = [d \in 1 .. MaxDepth |-> Blank]]
    /\ UNCHANGED <<kernel, apply, pass, pending, capped, gomaxprocs, pc>>

InPinSelf(w) == PinLock(w) \/ PinSet(w) \/ PinReadback(w)

-----------------------------------------------------------------------------
Init ==
    /\ cpuset \in {s \in Cpusets : BootMask \subseteq s} /\ changes = 0
    /\ alive = InitThreads
    /\ mask = [t \in Tid |-> IF t \in alive THEN BootMask ELSE {}]
    /\ home = mask /\ stale = {} /\ tainted = {}
    /\ apply = "new" /\ pass = 0 /\ pending = {} /\ done = {} /\ capped = FALSE
    /\ gomaxprocs = 1
    /\ pc = [w \in Worker |-> "idle"] /\ on = [w \in Worker |-> NoTid]
    /\ locks = [w \in Worker |-> 0] /\ depth = [w \in Worker |-> 0]
    /\ frames = [w \in Worker |-> [d \in 1 .. MaxDepth |-> Blank]]

Environment ==
    \/ \E t, u \in Tid : Spawn(t, u)
    \/ \E t \in Tid : Exit(t)
    \/ CpusetChange

Work(w) == PinCall(w) \/ InPinSelf(w) \/ Unpin(w) \/ Goexit(w)

Next == Main \/ Environment \/ \E w \in Worker : Work(w)

Spec == Init /\ [][Next]_vars

(* The main goroutine and a goroutine inside PinSelf are always runnable;  *)
(* Go gives every runnable goroutine a thread again and again, starting    *)
(* one when it has to.  Nothing makes a worker call Pin or Unpin, a thread *)
(* exit, or the cpuset change.                                             *)
FairSpec ==
    /\ Spec
    /\ WF_vars(Main) /\ WF_vars(StartThread)
    /\ \A w \in Worker : /\ SF_vars(PinLock(w))
                         /\ WF_vars(PinSet(w) \/ PinReadback(w))
=============================================================================
