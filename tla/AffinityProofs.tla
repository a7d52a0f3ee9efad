--------------------------- MODULE AffinityProofs ---------------------------
(***************************************************************************)
(* The fence and the pins, for every plan that isolates its exclusive      *)
(* roles, any number of threads and workers, and any depth of nested pins. *)
(***************************************************************************)
EXTENDS AffinityProperties, FiniteSetTheorems, TLAPS

USE CoreAssumption, PlanAssumption, PlanIsolation, BoundAssumption

-----------------------------------------------------------------------------
(* The plan                                                                *)

LEMMA TargetInRole ==
    ASSUME NEW role \in RoleName, NEW idx
    PROVE  Target(role, idx) \subseteq Plan[role].cores
BY DEF Target

LEMMA WantInRole ==
    ASSUME NEW f, f.role \in RoleName
    PROVE  Want(f) \subseteq Plan[f.role].cores /\ Want(f) \subseteq BootMask
BY TargetInRole DEF Want

LEMMA FenceInBootMask ==
    ASSUME Fencing
    PROVE  Fence \subseteq BootMask /\ Fence # {} /\ Fence \subseteq Core
BY DEF Fencing, Fence

LEMMA BlankType == Blank \in Frame
BY DEF Blank, Frame

-----------------------------------------------------------------------------
(* Initially no worker holds a thread and no thread is fenced.             *)

LEMMA InitAInv == Init => AInv
<1> SUFFICES ASSUME Init PROVE AInv
  OBVIOUS
<1>1. TypeOK
  <2>1. /\ cpuset \in SUBSET Core /\ alive \subseteq Tid
        /\ mask \in [Tid -> SUBSET Core] /\ tainted \subseteq alive
    BY DEF Init
  <2>4. /\ changes \in Nat /\ pass \in Nat /\ gomaxprocs \in Nat \ {0}
        /\ apply = "new" /\ pending \subseteq Tid /\ done \subseteq alive
    BY DEF Init
  <2>5. capped \in BOOLEAN
    BY Zenon DEF Init
  <2>2. /\ pc \in [Worker -> {"idle", "lock", "set", "readback"}]
        /\ on \in [Worker -> Tid \cup {NoTid}]
        /\ locks \in [Worker -> Nat] /\ depth \in [Worker -> 0 .. MaxDepth]
    BY DEF Init
  <2>3. frames \in [Worker -> [1 .. MaxDepth -> Frame]]
    BY BlankType DEF Init
  <2> QED
    BY <2>1, <2>2, <2>3, <2>4, <2>5 DEF TypeOK
<1>2. LocksBalanced
  BY DEF Init, LocksBalanced
<1>3. PinsAfterApply /\ CpusetWide /\ WalkFences /\ PoolFenced
  BY DEF Init, PinsAfterApply, CpusetWide, WalkFences, PoolFenced
<1>4. \A w \in Worker : PinStack(w)
  BY DEF Init, PinStack, InUse, Granted
<1> QED
  BY <1>1, <1>2, <1>3, <1>4 DEF AInv

-----------------------------------------------------------------------------
(* Steps of the runtime, the kernel and the main goroutine                 *)

(* NoTid is no thread, tainted or other.                                   *)
LEMMA NobodyTainted == AInv => tainted \subseteq Tid /\ NoTid \notin tainted
BY DEF AInv, TypeOK

LEMMA WorkersKept ==
    ASSUME AInv, UNCHANGED workers, Steady' => Steady,
           \A t \in Held :
              /\ t \in alive'
              /\ Steady' /\ t \notin tainted' => t \notin tainted /\ mask'[t] = mask[t]
    PROVE  /\ Held' = Held
           /\ LocksBalanced'
           /\ Steady' => \A w \in Worker : on'[w] \notin tainted' => PinStack(w)'
<1>1. Held' = Held
  BY DEF Held, workers
<1>2. \A w \in Worker : locks[w] > 0 => on[w] \in Held
  BY DEF Held
<1>3. LocksBalanced'
  BY <1>2 DEF AInv, LocksBalanced, workers
<1>4. ASSUME Steady', NEW w \in Worker, on'[w] \notin tainted' PROVE PinStack(w)'
  <2>0. on[w] \notin tainted /\ Steady
    <3>1. CASE locks[w] > 0
      BY <1>2, <1>4, <3>1 DEF workers
    <3>2. CASE ~(locks[w] > 0)
      BY <1>4, <3>2, NobodyTainted DEF AInv, LocksBalanced
    <3> QED
      BY <3>1, <3>2
  <2>1. PinStack(w)
    BY <2>0 DEF AInv
  <2>2. Granted(w)' = Granted(w) /\ InUse(w)' = InUse(w)
    BY DEF Granted, InUse, workers
  <2>3. Granted(w) > 0 => locks[w] > 0
    BY DEF AInv, LocksBalanced, Granted, TypeOK
  <2>4. locks[w] > 0 => mask'[on[w]] = mask[on[w]]
    BY <1>2, <1>4 DEF workers
  <2> QED
    BY <2>1, <2>2, <2>3, <2>4 DEF PinStack, workers
<1> QED
  BY <1>1, <1>3, <1>4

LEMMA SpawnStep == ASSUME AInv, NEW t \in Tid, NEW u \in Tid, Spawn(t, u) PROVE AInv'
<1>1. /\ t \in Pool /\ t \in alive /\ u \notin alive
      /\ alive' = alive \cup {u} /\ mask' = [mask EXCEPT ![u] = mask[t]]
      /\ tainted' = tainted \cup {x \in {u} : t \in tainted}
      /\ UNCHANGED <<kernel, sweep, workers>>
  BY DEF Spawn, Pool
<1>2. Held \subseteq alive
  BY DEF AInv, LocksBalanced, Held
<1>3. \A x \in alive : mask'[x] = mask[x]
  BY <1>1 DEF AInv, TypeOK
<1>4. Steady' <=> Steady
  BY <1>1 DEF Steady, Undisturbed, kernel
<1>5. /\ Held' = Held /\ LocksBalanced'
      /\ Steady' => \A w \in Worker : on'[w] \notin tainted' => PinStack(w)'
  BY <1>1, <1>2, <1>3, <1>4, WorkersKept
<1>6. TypeOK'
  BY <1>1 DEF AInv, TypeOK, kernel, sweep, workers
<1>7. PinsAfterApply' /\ CpusetWide'
  BY <1>1 DEF AInv, PinsAfterApply, CpusetWide, Undisturbed, kernel, sweep, workers
<1>8. WalkFences'
  BY <1>1, <1>3, <1>4 DEF AInv, TypeOK, WalkFences, sweep
<1>9. PoolFenced'
  <2>1. \A x \in Pool' \ tainted' :
            \/ x \in Pool \ tainted /\ mask'[x] = mask[x]
            \/ x = u /\ t \in Pool \ tainted /\ mask'[x] = mask[t]
    BY <1>1, <1>3, <1>5 DEF Pool, AInv, TypeOK
  <2> QED
    <3>1. \A w \in Worker : on'[w] \notin tainted' => on[w] \notin tainted
      BY <1>1 DEF workers
    <3> QED
      BY <1>1, <1>4, <2>1, <3>1 DEF AInv, PoolFenced, sweep, workers
<1> QED
  BY <1>5, <1>6, <1>7, <1>8, <1>9 DEF AInv

LEMMA ExitStep == ASSUME AInv, NEW t \in Tid, Exit(t) PROVE AInv'
<1>1. /\ t \in Pool /\ t \notin Held
      /\ alive' = alive \ {t} /\ mask' = [mask EXCEPT ![t] = {}] /\ done' = done \ {t}
      /\ tainted' = tainted \ {t}
      /\ UNCHANGED <<kernel, apply, pass, pending, capped, gomaxprocs, workers>>
  BY DEF Exit, Die, Pool
<1>2. Held \subseteq alive
  BY DEF AInv, LocksBalanced, Held
<1>3. \A x \in alive' : x \in alive /\ mask'[x] = mask[x]
  BY <1>1 DEF AInv, TypeOK
<1>4. Steady' <=> Steady
  BY <1>1 DEF Steady, Undisturbed, kernel
<1>10. \A x : x \in tainted' <=> x \in tainted /\ x # t
  BY <1>1
<1>5. /\ Held' = Held /\ LocksBalanced'
      /\ Steady' => \A w \in Worker : on'[w] \notin tainted' => PinStack(w)'
  BY <1>1, <1>2, <1>3, <1>4, WorkersKept
<1>6. TypeOK'
  BY <1>1 DEF AInv, TypeOK, kernel, workers
<1>7. PinsAfterApply' /\ CpusetWide'
  BY <1>1 DEF AInv, PinsAfterApply, CpusetWide, Undisturbed, kernel, workers
<1>8. WalkFences'
  BY <1>1, <1>3, <1>4 DEF AInv, TypeOK, WalkFences
<1>9. PoolFenced'
  <2>1. \A x \in Pool' \ tainted' : x \in Pool \ tainted /\ mask'[x] = mask[x]
    BY <1>1, <1>3, <1>5 DEF Pool
  <2>2. \A w \in Worker : locks[w] > 0 /\ on[w] \notin tainted' => on[w] \notin tainted
    BY <1>1 DEF Held
  <2> QED
    BY <1>1, <1>4, <2>1, <2>2 DEF AInv, PoolFenced, workers
<1> QED
  BY <1>5, <1>6, <1>7, <1>8, <1>9 DEF AInv

LEMMA CpusetChangeStep == ASSUME AInv, CpusetChange PROVE AInv'
<1>1. /\ changes' = changes + 1 /\ cpuset' \in Cpusets /\ tainted' = tainted
      /\ UNCHANGED <<alive, sweep, workers>>
  BY DEF CpusetChange, Overwrite
<1>2. ~Undisturbed' /\ ~Steady'
  BY <1>1 DEF AInv, TypeOK, Undisturbed, Steady
<1>3. mask' \in [Tid -> SUBSET Core]
  <2>1. cpuset' \subseteq Core
    BY <1>1
  <2>2. \A t \in Tid : Reset(cpuset')[t] \subseteq Core /\ Shrink(cpuset')[t] \subseteq Core
    BY <2>1 DEF Reset, Shrink, AInv, TypeOK
  <2>3. mask \in [Tid -> SUBSET Core]
    BY DEF AInv, TypeOK
  <2>4. \/ mask' = [t \in Tid |-> IF t \in alive THEN Reset(cpuset')[t] ELSE mask[t]]
        \/ mask' = [t \in Tid |-> IF t \in alive THEN Shrink(cpuset')[t] ELSE mask[t]]
    BY DEF CpusetChange, Overwrite
  <2> QED
    BY <2>2, <2>3, <2>4
<1>4. TypeOK'
  BY <1>1, <1>3 DEF AInv, TypeOK, sweep, workers
<1>5. LocksBalanced'
  BY <1>1 DEF AInv, LocksBalanced, workers
<1>6. PinsAfterApply' /\ CpusetWide' /\ WalkFences' /\ PoolFenced'
  BY <1>1, <1>2 DEF AInv, PinsAfterApply, CpusetWide, WalkFences, PoolFenced, sweep, workers
<1> QED
  BY <1>2, <1>4, <1>5, <1>6 DEF AInv

(* Before Apply is over no worker holds a thread.                          *)
LEMMA NobodyHolds ==
    ASSUME AInv, Ordered, apply # "ok"
    PROVE  Held = {} /\ \A w \in Worker : locks[w] = 0
<1>1. \A w \in Worker : pc[w] = "idle" /\ depth[w] = 0
  BY DEF AInv, PinsAfterApply
<1>2. \A w \in Worker : locks[w] = 0
  BY <1>1 DEF AInv, LocksBalanced
<1> QED
  BY <1>2 DEF Held

(* A step of the main goroutine that writes no mask.                       *)
LEMMA MainKeeps ==
    ASSUME AInv, UNCHANGED <<kernel, threads, workers, tainted>>, apply # "ok"
    PROVE  /\ LocksBalanced' /\ PinsAfterApply' /\ CpusetWide'
           /\ Steady' => \A w \in Worker : on'[w] \notin tainted' => PinStack(w)'
           /\ Held' = Held /\ Pool' = Pool /\ (Steady' <=> Steady)
<1>1. Steady' <=> Steady
  BY DEF Steady, Undisturbed, kernel
<1>2. \A t \in Held : t \in alive' /\ mask'[t] = mask[t]
  BY DEF AInv, LocksBalanced, Held, threads
<1>3. /\ Held' = Held /\ LocksBalanced'
      /\ Steady' => \A w \in Worker : on'[w] \notin tainted' => PinStack(w)'
  BY <1>1, <1>2, WorkersKept
<1>4. PinsAfterApply' /\ CpusetWide'
  BY DEF AInv, PinsAfterApply, CpusetWide, Undisturbed, kernel, workers
<1> QED
  BY <1>1, <1>3, <1>4 DEF Pool, threads

LEMMA ApplyStartStep == ASSUME AInv, ApplyStart PROVE AInv'
<1>1. /\ apply = "new" /\ UNCHANGED <<kernel, threads, capped, gomaxprocs, workers, tainted>>
      /\ \/ ~Fencing /\ apply' = "gomaxprocs" /\ UNCHANGED <<pass, pending, done>>
         \/ Fencing /\ apply' = "list" /\ UNCHANGED <<pass, pending, done>>
         \/ apply' = "failed" /\ pass' = 0 /\ pending' = {} /\ done' = {}
  BY DEF ApplyStart, FailApply, Fencing, history
<1>2. /\ LocksBalanced' /\ PinsAfterApply' /\ CpusetWide'
      /\ Steady' => \A w \in Worker : on'[w] \notin tainted' => PinStack(w)'
      /\ (Steady' <=> Steady)
  BY <1>1, MainKeeps
<1>3. TypeOK'
  BY <1>1 DEF AInv, TypeOK, kernel, threads, workers
<1>4. WalkFences' /\ PoolFenced'
  BY <1>1 DEF AInv, WalkFences, PoolFenced, Fencing
<1> QED
  BY <1>2, <1>3, <1>4 DEF AInv

LEMMA ListTIDsStep == ASSUME AInv, ListTIDs PROVE AInv'
<1>1. apply = "list" /\ UNCHANGED <<kernel, threads, gomaxprocs, workers, tainted>>
  BY DEF ListTIDs, history
<1>2. /\ LocksBalanced' /\ PinsAfterApply' /\ CpusetWide'
      /\ Steady' => \A w \in Worker : on'[w] \notin tainted' => PinStack(w)'
      /\ Held' = Held /\ Pool' = Pool /\ (Steady' <=> Steady)
  BY <1>1, MainKeeps
<1>3. Fencing /\ (Steady => \A t \in done : mask[t] = Fence)
  BY <1>1 DEF AInv, WalkFences
<1>4. CASE SweepEnd(TRUE) \/ SweepEnd(FALSE)
  <2>1. /\ apply' = "gomaxprocs" /\ pass' = 0 /\ pending' = {} /\ done' = {}
        /\ capped' \in BOOLEAN
    BY <1>4 DEF SweepEnd
  <2>2. TypeOK'
    BY <1>1, <2>1 DEF AInv, TypeOK, kernel, threads, workers
  <2>3. WalkFences'
    BY <2>1 DEF WalkFences
  <2>4. ~capped' => alive \subseteq done
    BY <1>4, <2>1 DEF ListTIDs, SweepEnd, Unseen, FailApply
  <2>5. PoolFenced'
    <3> SUFFICES ASSUME Steady, ~capped'
                 PROVE  /\ \A t \in Pool : mask[t] = Fence
                        /\ \A w \in Worker : locks[w] = 0
      BY <1>1, <1>2 DEF PoolFenced, threads, workers
    <3> QED
      BY <1>1, <1>3, <2>4, NobodyHolds DEF Pool, Steady
  <2> QED
    BY <1>2, <2>2, <2>3, <2>5 DEF AInv
<1>5. CASE /\ \/ apply' = "walk" /\ pending' = Unseen /\ UNCHANGED <<pass, done>>
              \/ FailApply
           /\ UNCHANGED capped
  <2>1. Unseen \subseteq Tid
    BY DEF Unseen, AInv, TypeOK
  <2>2. TypeOK'
    BY <1>1, <1>5, <2>1 DEF AInv, TypeOK, FailApply, kernel, threads, workers
  <2>3. WalkFences' /\ PoolFenced'
    BY <1>1, <1>2, <1>3, <1>5 DEF WalkFences, PoolFenced, FailApply, threads
  <2> QED
    BY <1>2, <2>2, <2>3 DEF AInv
<1> QED
  BY <1>4, <1>5 DEF ListTIDs

LEMMA SweepThreadStep == ASSUME AInv, NEW t \in Tid, SweepThread(t) PROVE AInv'
<1>1. /\ apply = "walk" /\ t \in pending
      /\ UNCHANGED <<kernel, capped, gomaxprocs, workers, tainted>>
  BY DEF SweepThread, Overwrite, history
<1>2. Fencing /\ (Steady => \A u \in done : mask[u] = Fence)
  BY <1>1 DEF AInv, WalkFences
<1>3. ASSUME AfterThread(t)
      PROVE  /\ pending' \subseteq Tid /\ pass' \in Nat
             /\ apply' \in {"list", "walk"}
  BY <1>3 DEF AfterThread, AInv, TypeOK
<1>4. CASE UNCHANGED threads /\ (FailApply \/ (AfterThread(t) /\ UNCHANGED done))
  <2>1. /\ LocksBalanced' /\ PinsAfterApply' /\ CpusetWide'
        /\ Steady' => \A w \in Worker : on'[w] \notin tainted' => PinStack(w)'
        /\ (Steady' <=> Steady)
    BY <1>1, <1>4, MainKeeps
  <2>2. TypeOK'
    BY <1>1, <1>3, <1>4 DEF AInv, TypeOK, FailApply, kernel, threads, workers
  <2>3. WalkFences' /\ PoolFenced'
    BY <1>2, <1>3, <1>4, <2>1 DEF WalkFences, PoolFenced, FailApply, threads
  <2> QED
    BY <2>1, <2>2, <2>3 DEF AInv
<1>5. CASE /\ t \in alive /\ Overwrite({t}, [u \in Tid |-> Effective(Fence)])
           /\ done' = done \cup {t} /\ AfterThread(t) /\ UNCHANGED alive
  <2>1. mask' = [u \in Tid |-> IF u = t THEN Effective(Fence) ELSE mask[u]]
    BY <1>5 DEF Overwrite
  <2>2. Steady => Effective(Fence) = Fence
    BY <1>2, FenceInBootMask DEF AInv, CpusetWide, Steady, Effective
  <2>3. Steady' <=> Steady
    BY <1>1 DEF Steady, Undisturbed, kernel
  <2>4. Steady => Held = {}
    BY <1>1, NobodyHolds DEF Steady
  <2>5. /\ LocksBalanced' /\ (Steady' => \A w \in Worker : on'[w] \notin tainted' => PinStack(w)')
    <3>1. \A u \in Held : u \in alive' /\ (Steady' => mask'[u] = mask[u])
      BY <1>5, <2>3, <2>4 DEF AInv, LocksBalanced, Held
    <3> QED
      BY <1>1, <2>3, <3>1, WorkersKept
  <2>6. mask' \in [Tid -> SUBSET Core]
    BY <1>2, <2>1, FenceInBootMask DEF AInv, TypeOK, Effective
  <2>7. TypeOK'
    BY <1>1, <1>3, <1>5, <2>6 DEF AInv, TypeOK, kernel, workers
  <2>8. PinsAfterApply' /\ CpusetWide'
    BY <1>1, <1>3, <1>5 DEF AInv, PinsAfterApply, CpusetWide, Undisturbed, kernel, workers
  <2>9. WalkFences' /\ PoolFenced'
    BY <1>2, <1>3, <1>5, <2>1, <2>2, <2>3 DEF AInv, TypeOK, WalkFences, PoolFenced
  <2> QED
    BY <2>5, <2>7, <2>8, <2>9 DEF AInv
<1> QED
  BY <1>4, <1>5 DEF SweepThread

LEMMA SetGOMAXPROCSStep == ASSUME AInv, SetGOMAXPROCS PROVE AInv'
<1>1. /\ apply = "gomaxprocs" /\ apply' = "ok" /\ gomaxprocs' = GomaxprocsTarget
      /\ UNCHANGED <<kernel, threads, pass, pending, done, capped, workers, tainted>>
  BY DEF SetGOMAXPROCS, history
<1>2. /\ LocksBalanced' /\ PinsAfterApply' /\ CpusetWide'
      /\ Steady' => \A w \in Worker : on'[w] \notin tainted' => PinStack(w)'
      /\ Held' = Held /\ Pool' = Pool /\ (Steady' <=> Steady)
  BY <1>1, MainKeeps
<1>3. GomaxprocsTarget \in Nat \ {0}
  <2>1. Available \subseteq BootMask
    BY DEF Available
  <2>2. Cardinality(Available) \in Nat
    BY <2>1, FS_Subset, FS_CardinalityType
  <2> QED
    BY <2>2 DEF GomaxprocsTarget
<1>4. TypeOK'
  BY <1>1, <1>3 DEF AInv, TypeOK, kernel, threads, workers
<1>5. WalkFences' /\ PoolFenced'
  BY <1>1, <1>2 DEF AInv, WalkFences, PoolFenced, threads, workers
<1> QED
  BY <1>2, <1>4, <1>5 DEF AInv

-----------------------------------------------------------------------------
(* Steps of the workers                                                    *)

LEMMA FrameUpdate ==
    ASSUME AInv, NEW w \in Worker, NEW d \in 1 .. MaxDepth, NEW f \in Frame,
           SetFrame(w, d, f)
    PROVE  /\ frames' \in [Worker -> [1 .. MaxDepth -> Frame]]
           /\ frames'[w][d] = f
           /\ \A e \in 1 .. MaxDepth : e # d => frames'[w][e] = frames[w][e]
           /\ \A v \in Worker : v # w => frames'[v] = frames[v]
BY DEF SetFrame, AInv, TypeOK

(* A step of worker w that leaves the other workers' threads alone.        *)
LEMMA OthersKeep ==
    ASSUME AInv, NEW w \in Worker, NEW v \in Worker, v # w, Steady,
           pc'[v] = pc[v], on'[v] = on[v], locks'[v] = locks[v],
           depth'[v] = depth[v], frames'[v] = frames[v],
           on[v] \notin tainted, locks[v] > 0 => mask'[on[v]] = mask[on[v]]
    PROVE  PinStack(v)'
<1>1. PinStack(v)
  BY DEF AInv
<1>2. Granted(v)' = Granted(v) /\ InUse(v)' = InUse(v)
  BY DEF Granted, InUse
<1>3. Granted(v) > 0 => locks[v] > 0
  BY DEF AInv, LocksBalanced, Granted, TypeOK
<1> QED
  BY <1>1, <1>2, <1>3 DEF PinStack

(* What the program counter of a worker says of its locks and frames.      *)
LEMMA Counts ==
    ASSUME AInv, NEW w \in Worker
    PROVE  /\ depth[w] \in Nat /\ locks[w] \in Nat
           /\ depth[w] > 0 => depth[w] \in 1 .. MaxDepth
           /\ pc[w] # "idle" => depth[w] + 1 \in 1 .. MaxDepth
           /\ pc[w] \in {"idle", "lock"} => locks[w] = depth[w]
           /\ pc[w] \in {"set", "readback"} => locks[w] = depth[w] + 1
           /\ Granted(w) = IF pc[w] = "readback" THEN depth[w] + 1 ELSE depth[w]
           /\ InUse(w) = IF pc[w] = "idle" THEN depth[w] ELSE depth[w] + 1
           /\ (pc[w] # "idle" \/ depth[w] > 0) /\ Ordered => apply = "ok"
<1>1. /\ depth[w] \in 0 .. MaxDepth /\ depth[w] \in Nat /\ locks[w] \in Nat
      /\ MaxDepth \in Nat
  BY DEF AInv, TypeOK
<1>2. /\ locks[w] = depth[w] + IF pc[w] \in {"set", "readback"} THEN 1 ELSE 0
      /\ pc[w] # "idle" => depth[w] < MaxDepth
      /\ Ordered /\ apply # "ok" => pc[w] = "idle" /\ depth[w] = 0
  BY DEF AInv, LocksBalanced, PinsAfterApply
<1> QED
  BY <1>1, <1>2 DEF Granted, InUse

LEMMA PinCallStep == ASSUME AInv, NEW w \in Worker, PinCall(w) PROVE AInv'
<1>1. /\ pc[w] = "idle" /\ depth[w] < MaxDepth /\ (Ordered => apply = "ok")
      /\ pc' = [pc EXCEPT ![w] = "lock"] /\ pc'[w] = "lock"
      /\ UNCHANGED <<kernel, threads, sweep, on, locks, depth, tainted>>
  BY DEF PinCall, Goto, AInv, TypeOK, history
<1>2. /\ depth[w] \in Nat /\ MaxDepth \in Nat /\ depth[w] + 1 \in 1 .. MaxDepth
      /\ locks[w] = depth[w]
      /\ \A d \in 1 .. depth[w] : d \in 1 .. MaxDepth /\ d # depth[w] + 1
  BY <1>1, Counts
<1>3. PICK f \in Frame : f.role \in RoleName /\ SetFrame(w, depth[w] + 1, f)
  <2>1. PICK role \in RoleName, idx \in 0 .. MaxIdx :
            SetFrame(w, depth[w] + 1, [role |-> role, idx |-> idx, prev |-> {}])
    BY DEF PinCall
  <2>2. [role |-> role, idx |-> idx, prev |-> {}] \in Frame
    BY DEF Frame
  <2> QED
    BY <2>1, <2>2
<1>4. /\ frames' \in [Worker -> [1 .. MaxDepth -> Frame]]
      /\ frames'[w][depth[w] + 1] = f
      /\ \A e \in 1 .. MaxDepth : e # depth[w] + 1 => frames'[w][e] = frames[w][e]
      /\ \A v \in Worker : v # w => frames'[v] = frames[v]
  BY <1>2, <1>3, FrameUpdate
<1>5. TypeOK'
  BY <1>1, <1>4 DEF AInv, TypeOK, kernel, threads, sweep
<1>6. LocksBalanced'
  BY <1>1 DEF AInv, TypeOK, LocksBalanced, threads
<1>7. PinsAfterApply' /\ CpusetWide' /\ WalkFences'
  BY <1>1 DEF AInv, TypeOK, PinsAfterApply, CpusetWide, WalkFences, Steady, Undisturbed,
              kernel, threads, sweep
<1>8. \A v \in Worker : locks[v] > 0 => frames'[v][1] = frames[v][1]
  BY <1>2, <1>4
<1>9. PoolFenced'
  BY <1>1, <1>8 DEF AInv, PoolFenced, Pool, Held, Steady, Undisturbed, kernel, threads, sweep
<1>10. ASSUME Steady', NEW v \in Worker, on'[v] \notin tainted'
       PROVE  PinStack(v)'
  <2>1. Steady /\ on[v] \notin tainted
    BY <1>1, <1>10 DEF Steady, Undisturbed, kernel
  <2>2. CASE v # w
    BY <1>1, <1>4, <2>1, <2>2, OthersKeep DEF AInv, TypeOK, threads
  <2>3. CASE v = w
    <3>1. PinStack(w)
      BY <2>1, <2>3 DEF AInv
    <3>2. /\ Granted(w) = depth[w] /\ Granted(w)' = depth[w]
          /\ InUse(w) = depth[w] /\ InUse(w)' = depth[w] + 1
      BY <1>1, <1>2 DEF Granted, InUse
    <3>3. \A d \in 1 .. depth[w] : frames'[w][d] = frames[w][d]
      BY <1>2, <1>4
    <3>4. \A d \in 1 .. depth[w] + 1 : d \in 1 .. depth[w] \/ d = depth[w] + 1
      BY <1>2
    <3>5. \A d \in 1 .. depth[w] + 1 : frames'[w][d].role \in RoleName
      BY <1>3, <1>4, <3>1, <3>2, <3>3, <3>4 DEF PinStack
    <3>6. \A d \in 1 .. depth[w] : d > 1 => d - 1 \in 1 .. depth[w]
      BY <1>2
    <3>7. /\ \A d \in 1 .. depth[w] : Want(frames'[w][d]) # {}
          /\ \A d \in 1 .. depth[w] :
                d > 1 => frames'[w][d].prev = Want(frames'[w][d - 1])
      BY <1>2, <3>1, <3>2, <3>3, <3>6 DEF PinStack
    <3>8. depth[w] > 0 => mask[on[w]] = Want(frames'[w][depth[w]])
      BY <1>2, <3>1, <3>2, <3>3 DEF PinStack
    <3> QED
      BY <1>1, <1>2, <2>3, <3>2, <3>5, <3>7, <3>8 DEF PinStack, threads
  <2> QED
    BY <2>2, <2>3
<1> QED
  BY <1>5, <1>6, <1>7, <1>9, <1>10 DEF AInv

(* A request leaves its frame again before it has changed anything.        *)
LEMMA GetFailedStep ==
    ASSUME AInv, NEW w \in Worker, NEW t \in Tid, pc[w] = "lock", GetFailed(w, t),
           UNCHANGED <<kernel, threads, sweep, depth>>
    PROVE  AInv'
<1>1. /\ pc' = [pc EXCEPT ![w] = "idle"] /\ pc'[w] = "idle"
      /\ pc' \in [Worker -> {"idle", "lock", "set", "readback"}]
      /\ \A v \in Worker : v # w => pc'[v] = pc[v]
      /\ SetFrame(w, depth[w] + 1, Blank)
      /\ UNCHANGED <<kernel, threads, sweep, on, locks, depth, tainted>>
  BY DEF GetFailed, Goto, AInv, TypeOK, history
<1>2. /\ depth[w] \in Nat /\ MaxDepth \in Nat /\ depth[w] + 1 \in 1 .. MaxDepth
      /\ locks[w] = depth[w] /\ InUse(w) = depth[w] + 1 /\ Granted(w) = depth[w]
      /\ \A d \in 1 .. depth[w] :
            d \in 1 .. MaxDepth /\ d # depth[w] + 1 /\ d \in 1 .. depth[w] + 1
      /\ (Ordered => apply = "ok")
  BY Counts
<1>3. /\ frames' \in [Worker -> [1 .. MaxDepth -> Frame]]
      /\ \A e \in 1 .. MaxDepth : e # depth[w] + 1 => frames'[w][e] = frames[w][e]
      /\ \A v \in Worker : v # w => frames'[v] = frames[v]
  BY <1>1, <1>2, BlankType, FrameUpdate
<1>4. TypeOK'
  BY <1>1, <1>3 DEF AInv, TypeOK, kernel, threads, sweep
<1>5. LocksBalanced'
  BY <1>1 DEF AInv, LocksBalanced, threads
<1>6. PinsAfterApply' /\ CpusetWide' /\ WalkFences' /\ (Steady' <=> Steady)
  BY <1>1, <1>2 DEF AInv, PinsAfterApply, CpusetWide, WalkFences, Steady, Undisturbed,
                    kernel, threads, sweep
<1>7. \A v \in Worker : locks[v] > 0 => frames'[v][1] = frames[v][1]
  BY <1>2, <1>3
<1>8. PoolFenced'
  BY <1>1, <1>6, <1>7 DEF AInv, PoolFenced, Pool, Held, threads, sweep
<1>9. ASSUME Steady', NEW v \in Worker, on'[v] \notin tainted'
      PROVE  PinStack(v)'
  <2>1. Steady /\ on[v] \notin tainted /\ PinStack(v)
    BY <1>1, <1>6, <1>9 DEF AInv
  <2>2. CASE v # w
    BY <1>1, <1>3, <2>1, <2>2, OthersKeep DEF threads
  <2>3. CASE v = w
    <3>1. Granted(w)' = depth[w] /\ InUse(w)' = depth[w]
      BY <1>1, <1>2 DEF Granted, InUse
    <3>2. \A d \in 1 .. depth[w] : frames'[w][d] = frames[w][d]
      BY <1>2, <1>3
    <3>3. \A d \in 1 .. depth[w] : d > 1 => d - 1 \in 1 .. depth[w]
      BY <1>2
    <3>4. /\ \A d \in 1 .. depth[w] : frames'[w][d].role \in RoleName
          /\ \A d \in 1 .. depth[w] : Want(frames'[w][d]) # {}
          /\ \A d \in 1 .. depth[w] :
                d > 1 => frames'[w][d].prev = Want(frames'[w][d - 1])
          /\ depth[w] > 0 => mask[on[w]] = Want(frames'[w][depth[w]])
      BY <1>2, <2>1, <2>3, <3>2, <3>3 DEF PinStack
    <3> QED
      BY <1>1, <1>2, <2>3, <3>1, <3>4 DEF PinStack, threads
  <2> QED
    BY <2>2, <2>3
<1> QED
  BY <1>4, <1>5, <1>6, <1>8, <1>9 DEF AInv

LEMMA GetPrevStep ==
    ASSUME AInv, NEW w \in Worker, NEW t \in Tid, pc[w] = "lock",
           RunsOn(w, t), GetPrev(w, t), UNCHANGED <<kernel, threads, sweep, depth>>
    PROVE  AInv'
<1>1. /\ pc[w] = "lock"
      /\ locks' = [locks EXCEPT ![w] = @ + 1]
      /\ pc' = [pc EXCEPT ![w] = "set"] /\ pc'[w] = "set"
      /\ UNCHANGED <<kernel, threads, sweep, depth, tainted>>
  BY DEF GetPrev, Goto, AInv, TypeOK
<1>2. /\ depth[w] \in Nat /\ MaxDepth \in Nat /\ depth[w] + 1 \in 1 .. MaxDepth
      /\ locks[w] = depth[w] /\ locks'[w] = depth[w] + 1
      /\ \A d \in 1 .. depth[w] : d \in 1 .. MaxDepth /\ d # depth[w] + 1
      /\ (Ordered => apply = "ok")
  <2>1. /\ depth[w] \in Nat /\ MaxDepth \in Nat /\ depth[w] + 1 \in 1 .. MaxDepth
        /\ locks[w] = depth[w] /\ (Ordered => apply = "ok")
    BY <1>1, Counts
  <2> QED
    BY <1>1, <2>1 DEF AInv, TypeOK
<1>3. /\ \/ locks[w] > 0 /\ t = on[w]
         \/ locks[w] = 0 /\ t \in Pool
      /\ on' = [on EXCEPT ![w] = t]
      /\ SetFrame(w, depth[w] + 1, [Current(w) EXCEPT !.prev = mask[t]])
  BY DEF GetPrev, RunsOn
<1> DEFINE f == [Current(w) EXCEPT !.prev = mask[t]]
<1>4. f \in Frame /\ f.role = Current(w).role /\ f.prev = mask[t]
  <2>1. Current(w) \in Frame
    BY <1>2 DEF Current, AInv, TypeOK
  <2>2. mask[t] \in SUBSET Core
    BY DEF AInv, TypeOK
  <2> QED
    BY <2>1, <2>2 DEF Frame
<1>5. /\ frames' \in [Worker -> [1 .. MaxDepth -> Frame]]
      /\ frames'[w][depth[w] + 1] = f
      /\ \A e \in 1 .. MaxDepth : e # depth[w] + 1 => frames'[w][e] = frames[w][e]
      /\ \A v \in Worker : v # w => frames'[v] = frames[v]
      /\ frames'[w][1] = IF depth[w] = 0 THEN f ELSE frames[w][1]
  <2>1. /\ frames' \in [Worker -> [1 .. MaxDepth -> Frame]]
        /\ frames'[w][depth[w] + 1] = f
        /\ \A e \in 1 .. MaxDepth : e # depth[w] + 1 => frames'[w][e] = frames[w][e]
        /\ \A v \in Worker : v # w => frames'[v] = frames[v]
    BY <1>2, <1>3, <1>4, FrameUpdate
  <2>2. 1 \in 1 .. MaxDepth /\ (depth[w] # 0 => 1 # depth[w] + 1)
    BY <1>2
  <2>3. depth[w] = 0 => depth[w] + 1 = 1
    OBVIOUS
  <2> QED
    BY <2>1, <2>2, <2>3
<1>6. /\ on' \in [Worker -> Tid \cup {NoTid}] /\ on'[w] = t
      /\ locks' \in [Worker -> Nat]
      /\ \A v \in Worker : v # w => on'[v] = on[v] /\ locks'[v] = locks[v]
  <2>1. on \in [Worker -> Tid \cup {NoTid}] /\ locks \in [Worker -> Nat]
    BY DEF AInv, TypeOK
  <2> QED
    BY <1>1, <1>3, <2>1
<1>7. TypeOK'
  BY <1>1, <1>5, <1>6 DEF AInv, TypeOK, kernel, threads, sweep
<1>8. t \in alive /\ \A v \in Worker : v # w /\ locks[v] > 0 => on[v] # t
  BY <1>3 DEF AInv, LocksBalanced, Pool, Held
<1>9. LocksBalanced'
  <2>1. \A v \in Worker : v # w => pc'[v] = pc[v]
    BY <1>1 DEF AInv, TypeOK
  <2>2. \A v \in Worker :
          /\ locks'[v] = depth'[v] + IF pc'[v] \in {"set", "readback"} THEN 1 ELSE 0
          /\ IF locks'[v] > 0 THEN on'[v] \in alive' ELSE on'[v] = NoTid
    BY <1>1, <1>2, <1>6, <1>8, <2>1 DEF AInv, LocksBalanced, threads
  <2>3. \A u, v \in Worker : u # v /\ locks'[u] > 0 => on'[u] # on'[v]
    <3> SUFFICES ASSUME NEW u \in Worker, NEW v \in Worker, u # v, locks'[u] > 0
                 PROVE  on'[u] # on'[v]
      OBVIOUS
    <3>1. CASE u # w /\ v # w
      BY <1>6, <3>1 DEF AInv, LocksBalanced
    <3>2. CASE v = w
      BY <1>6, <1>8, <3>2
    <3>3. CASE u = w
      <4>1. locks[v] = 0 => on[v] = NoTid
        BY DEF AInv, LocksBalanced
      <4>2. locks[v] \in Nat
        BY Counts
      <4> QED
        BY <1>6, <1>8, <3>3, <4>1, <4>2
    <3> QED
      BY <3>1, <3>2, <3>3
  <2> QED
    BY <2>2, <2>3 DEF LocksBalanced
<1>10. PinsAfterApply' /\ CpusetWide' /\ WalkFences'
  BY <1>1, <1>2 DEF AInv, TypeOK, PinsAfterApply, CpusetWide, WalkFences, Steady, Undisturbed,
              kernel, threads, sweep
<1>11. Pool' \subseteq Pool
  BY <1>1, <1>3, <1>6, Counts DEF Pool, Held, threads
<1>12. PoolFenced'
  <2> SUFFICES ASSUME Steady, Fencing, ~capped, apply \in {"gomaxprocs", "ok"}
               PROVE  /\ \A u \in Pool' \ tainted : mask'[u] = Fence
                      /\ \A v \in Worker :
                            locks'[v] > 0 /\ on'[v] \notin tainted => frames'[v][1].prev = Fence
    BY <1>1 DEF PoolFenced, Steady, Undisturbed, kernel, sweep
  <2>1. /\ \A u \in Pool \ tainted : mask[u] = Fence
        /\ \A v \in Worker : locks[v] > 0 /\ on[v] \notin tainted => frames[v][1].prev = Fence
    BY DEF AInv, PoolFenced
  <2>2. t \notin tainted => frames'[w][1].prev = Fence
    <3>1. CASE locks[w] > 0
      BY <1>2, <1>3, <1>5, <2>1, <3>1
    <3>2. CASE locks[w] = 0
      BY <1>2, <1>3, <1>4, <1>5, <2>1, <3>2
    <3> QED
      BY <1>2, <3>1, <3>2
  <2> QED
    BY <1>1, <1>5, <1>6, <1>11, <2>1, <2>2 DEF threads
<1>13. ASSUME Steady', NEW v \in Worker, on'[v] \notin tainted'
       PROVE  PinStack(v)'
  <2>1. Steady
    BY <1>1, <1>13 DEF Steady, Undisturbed, kernel
  <2>2. CASE v # w
    <3>1. on[v] \notin tainted
      BY <1>1, <1>6, <1>13, <2>2
    <3>2. pc'[v] = pc[v]
      BY <1>1, <2>2 DEF AInv, TypeOK
    <3> QED
      BY <1>1, <1>5, <1>6, <2>1, <2>2, <3>1, <3>2, OthersKeep DEF threads
  <2>3. CASE v = w
    <3>1. PinStack(w)
      <4>1. on[w] \notin tainted
        <5>1. CASE locks[w] > 0
          BY <1>1, <1>3, <1>6, <1>13, <2>3, <5>1
        <5>2. CASE locks[w] = 0
          BY <5>2, NobodyTainted DEF AInv, LocksBalanced
        <5> QED
          BY <1>3, <5>1, <5>2
      <4> QED
        BY <2>1, <4>1 DEF AInv
    <3>2. /\ Granted(w) = depth[w] /\ Granted(w)' = depth[w]
          /\ InUse(w) = depth[w] + 1 /\ InUse(w)' = depth[w] + 1
      BY <1>1, <1>2 DEF Granted, InUse
    <3>3. \A d \in 1 .. depth[w] : frames'[w][d] = frames[w][d]
      BY <1>2, <1>5
    <3>4. \A d \in 1 .. depth[w] + 1 : d \in 1 .. depth[w] \/ d = depth[w] + 1
      BY <1>2
    <3>5. \A d \in 1 .. depth[w] + 1 : frames'[w][d].role \in RoleName
      <4>1. \A d \in 1 .. depth[w] + 1 : frames[w][d].role \in RoleName
        BY <3>1, <3>2 DEF PinStack
      <4>2. \A d \in 1 .. depth[w] : d \in 1 .. depth[w] + 1
        BY <1>2
      <4>3. Current(w).role \in RoleName
        BY <1>2, <4>1 DEF Current
      <4> QED
        BY <1>4, <1>5, <3>3, <3>4, <4>1, <4>2, <4>3
    <3>6. \A d \in 1 .. depth[w] + 1 : d > 1 => d - 1 \in 1 .. depth[w]
      BY <1>2
    <3>7. \A d \in 1 .. depth[w] : Want(frames'[w][d]) # {}
      BY <3>1, <3>2, <3>3 DEF PinStack
    <3>8. depth[w] > 0 => mask[t] = Want(frames'[w][depth[w]])
      BY <1>2, <1>3, <3>1, <3>2, <3>3 DEF PinStack
    <3>9. \A d \in 1 .. depth[w] + 1 :
                d > 1 => frames'[w][d].prev = Want(frames'[w][d - 1])
      <4>1. \A d \in 1 .. depth[w] :
                d > 1 => frames'[w][d].prev = Want(frames'[w][d - 1])
        BY <1>2, <3>1, <3>2, <3>3, <3>4, <3>6 DEF PinStack
      <4>2. depth[w] + 1 > 1 => frames'[w][depth[w] + 1].prev = Want(frames'[w][depth[w]])
        BY <1>2, <1>4, <1>5, <3>8
      <4> QED
        BY <1>2, <3>4, <4>1, <4>2
    <3>10. depth[w] = 0 => mask[t] = frames'[w][1].prev
      BY <1>4, <1>5
    <3> QED
      BY <1>1, <1>2, <1>6, <2>3, <3>2, <3>5, <3>7, <3>8, <3>9, <3>10 DEF PinStack, threads
  <2> QED
    BY <2>2, <2>3
<1> QED
  BY <1>7, <1>9, <1>10, <1>12, <1>13 DEF AInv

LEMMA PinLockStep == ASSUME AInv, NEW w \in Worker, PinLock(w) PROVE AInv'
<1>1. PICK t \in Tid : RunsOn(w, t) /\ (GetPrev(w, t) \/ GetFailed(w, t))
  BY DEF PinLock
<1> QED
  BY <1>1, GetPrevStep, GetFailedStep DEF PinLock

(* The error returns of PinSelf and Unpin: worker w gives up its innermost *)
(* lock, with the mask its frame holds back on the thread.                 *)
LEMMA PopStep ==
    ASSUME AInv, NEW w \in Worker, NEW d, d = locks[w], d > 0,
           UNCHANGED <<kernel, alive, sweep>>,
           Unlock(w), SetFrame(w, d, Blank),
           pc' = [pc EXCEPT ![w] = "idle"],
           depth' = [depth EXCEPT ![w] = d - 1],
           mask' \in [Tid -> SUBSET Core],
           \A u \in Tid : u # on[w] => mask'[u] = mask[u],
           tainted \subseteq tainted', tainted' \subseteq tainted \cup {on[w]},
           Steady /\ on[w] \notin tainted' /\ (d > 1 \/ (Fencing /\ frames[w][1].prev = Fence))
              => mask'[on[w]] = frames[w][d].prev
    PROVE  AInv'
<1>1. /\ d \in 1 .. MaxDepth /\ d \in Nat /\ d - 1 \in Nat /\ d - 1 \in 0 .. MaxDepth
      /\ pc[w] \in {"set", "readback"} => d = depth[w] + 1
      /\ pc[w] \in {"idle", "lock"} => d = depth[w]
      /\ pc[w] \in {"idle", "lock", "set", "readback"}
      /\ MaxDepth \in Nat
      /\ Ordered => apply = "ok"
  <2>1. pc[w] \in {"idle", "lock", "set", "readback"}
    BY DEF AInv, TypeOK
  <2> QED
    BY <2>1, Counts
<1>2. /\ frames' \in [Worker -> [1 .. MaxDepth -> Frame]]
      /\ \A e \in 1 .. MaxDepth : e # d => frames'[w][e] = frames[w][e]
      /\ \A v \in Worker : v # w => frames'[v] = frames[v]
  BY <1>1, BlankType, FrameUpdate
<1>3. /\ on' \in [Worker -> Tid \cup {NoTid}]
      /\ on'[w] = IF d = 1 THEN NoTid ELSE on[w]
      /\ locks' \in [Worker -> Nat] /\ locks'[w] = d - 1
      /\ pc' \in [Worker -> {"idle", "lock", "set", "readback"}] /\ pc'[w] = "idle"
      /\ depth' \in [Worker -> 0 .. MaxDepth] /\ depth'[w] = d - 1
  BY <1>1 DEF Unlock, AInv, TypeOK
<1>4. \A v \in Worker : v # w =>
        /\ on'[v] = on[v] /\ locks'[v] = locks[v] /\ pc'[v] = pc[v] /\ depth'[v] = depth[v]
  BY DEF Unlock, AInv, TypeOK
<1>5. TypeOK'
  <2>1. on[w] \in alive /\ tainted \subseteq alive
    BY DEF AInv, LocksBalanced, TypeOK
  <2> QED
    BY <1>2, <1>3, <2>1 DEF AInv, TypeOK, kernel, sweep
<1>6. /\ on[w] \in alive /\ on[w] \in Tid
      /\ \A v \in Worker : v # w /\ locks[v] > 0 => on[v] # on[w]
  BY DEF AInv, LocksBalanced, TypeOK
<1>7. LocksBalanced'
  <2>1. \A v \in Worker :
          /\ locks'[v] = depth'[v] + IF pc'[v] \in {"set", "readback"} THEN 1 ELSE 0
          /\ IF locks'[v] > 0 THEN on'[v] \in alive' ELSE on'[v] = NoTid
    <3> SUFFICES ASSUME NEW v \in Worker
                 PROVE  /\ locks'[v] = depth'[v] + IF pc'[v] \in {"set", "readback"} THEN 1 ELSE 0
                        /\ IF locks'[v] > 0 THEN on'[v] \in alive' ELSE on'[v] = NoTid
      OBVIOUS
    <3>1. CASE v = w
      <4>1. locks'[w] = depth'[w] /\ pc'[w] = "idle" /\ depth'[w] \in Nat
        BY <1>1, <1>3
      <4>2. IF locks'[w] > 0 THEN on'[w] \in alive' ELSE on'[w] = NoTid
        BY <1>1, <1>3, <1>6
      <4> QED
        BY <3>1, <4>1, <4>2
    <3>2. CASE v # w
      <4>1. /\ locks[v] = depth[v] + IF pc[v] \in {"set", "readback"} THEN 1 ELSE 0
            /\ IF locks[v] > 0 THEN on[v] \in alive ELSE on[v] = NoTid
        BY DEF AInv, LocksBalanced
      <4> QED
        BY <1>4, <3>2, <4>1
    <3> QED
      BY <3>1, <3>2
  <2>2. \A u, v \in Worker : u # v /\ locks'[u] > 0 => on'[u] # on'[v]
    <3> SUFFICES ASSUME NEW u \in Worker, NEW v \in Worker, u # v, locks'[u] > 0
                 PROVE  on'[u] # on'[v]
      OBVIOUS
    <3>1. locks[u] > 0 /\ on'[u] = on[u] /\ on[u] \in Tid
      <4>1. CASE u = w
        BY <1>1, <1>3, <1>6, <4>1
      <4>2. CASE u # w
        BY <1>4, <4>2 DEF AInv, LocksBalanced, TypeOK
      <4> QED
        BY <4>1, <4>2
    <3>2. on[u] # on[v]
      BY <3>1 DEF AInv, LocksBalanced
    <3>3. on'[v] = on[v] \/ on'[v] = NoTid
      BY <1>3, <1>4
    <3> QED
      BY <3>1, <3>2, <3>3
  <2> QED
    BY <2>1, <2>2 DEF LocksBalanced
<1>8. PinsAfterApply'
  BY <1>1, <1>3, <1>4 DEF AInv, PinsAfterApply, sweep
<1>9. CpusetWide' /\ (Steady' <=> Steady)
  BY DEF AInv, CpusetWide, Undisturbed, Steady, kernel
<1>10. WalkFences'
  BY <1>1, <1>9 DEF AInv, WalkFences, Steady, sweep
<1>11. \A u \in Pool' : (u \in Pool /\ u # on[w]) \/ (u = on[w] /\ d = 1)
  BY <1>1, <1>3, <1>4, <1>6 DEF Pool, Held
<1>12. PoolFenced'
  <2> SUFFICES ASSUME Steady, Fencing, ~capped, apply \in {"gomaxprocs", "ok"}
               PROVE  /\ \A u \in Pool' \ tainted' : mask'[u] = Fence
                      /\ \A v \in Worker :
                            locks'[v] > 0 /\ on'[v] \notin tainted' => frames'[v][1].prev = Fence
    BY <1>9 DEF PoolFenced, sweep
  <2>1. /\ \A u \in Pool \ tainted : mask[u] = Fence
        /\ \A v \in Worker : locks[v] > 0 /\ on[v] \notin tainted => frames[v][1].prev = Fence
    BY DEF AInv, PoolFenced
  <2>2. d = 1 /\ on[w] \notin tainted' => mask'[on[w]] = Fence
    BY <2>1
  <2>3. \A u \in Pool : u \in Tid
    BY DEF Pool, AInv, TypeOK
  <2>4. d > 1 => frames'[w][1] = frames[w][1]
    BY <1>1, <1>2
  <2> QED
    <3>1. \A u \in Pool' \ tainted' : mask'[u] = Fence
      BY <1>11, <2>1, <2>2, <2>3
    <3>2. locks'[w] > 0 /\ on'[w] \notin tainted' => frames'[w][1].prev = Fence
      BY <1>1, <1>3, <2>1, <2>4
    <3>3. \A v \in Worker : v # w /\ locks'[v] > 0 /\ on'[v] \notin tainted'
            => frames'[v][1].prev = Fence
      BY <1>2, <1>4, <2>1
    <3> QED
      BY <3>1, <3>2, <3>3
<1>13. ASSUME Steady', NEW v \in Worker, on'[v] \notin tainted'
       PROVE  PinStack(v)'
  <2>1. Steady
    BY <1>9, <1>13
  <2>2. CASE v # w
    <3>1. /\ locks[v] > 0 => on[v] \in Tid /\ on[v] # on[w]
          /\ on[v] \notin tainted
      BY <1>4, <1>6, <1>13, <2>2 DEF AInv, LocksBalanced, TypeOK
    <3> QED
      BY <1>2, <1>4, <2>1, <2>2, <3>1, OthersKeep
  <2>3. CASE v = w /\ d = 1
    BY <1>3, <2>3 DEF PinStack, Granted, InUse
  <2>4. CASE v = w /\ d # 1
    <3>1. PinStack(w) /\ on[w] \notin tainted'
      BY <1>3, <1>13, <2>1, <2>4 DEF AInv
    <3>2. /\ Granted(w)' = d - 1 /\ InUse(w)' = d - 1
          /\ Granted(w) >= d - 1 /\ InUse(w) >= d - 1
          /\ Granted(w) \in Nat /\ InUse(w) \in Nat
      <4>1. Granted(w)' = d - 1 /\ InUse(w)' = d - 1
        BY <1>1, <1>3 DEF Granted, InUse
      <4>2. /\ Granted(w) \in {depth[w], depth[w] + 1}
            /\ InUse(w) \in {depth[w], depth[w] + 1}
            /\ depth[w] \in Nat /\ (d = depth[w] \/ d = depth[w] + 1)
        BY <1>1, Counts
      <4> QED
        BY <1>1, <4>1, <4>2
    <3>3. \A e \in 1 .. d - 1 :
            /\ frames'[w][e] = frames[w][e]
            /\ e \in 1 .. Granted(w) /\ e \in 1 .. InUse(w) /\ e \in 1 .. locks[w]
            /\ e > 1 => e - 1 \in 1 .. d - 1
      BY <1>1, <1>2, <3>2
    <3>4. /\ \A e \in 1 .. d - 1 : frames'[w][e].role \in RoleName
          /\ \A e \in 1 .. d - 1 : Want(frames'[w][e]) # {}
          /\ \A e \in 1 .. d - 1 :
                e > 1 => frames'[w][e].prev = Want(frames'[w][e - 1])
      BY <3>1, <3>3 DEF PinStack
    <3>5. d - 1 > 0 => mask'[on[w]] = Want(frames'[w][d - 1])
      <4> SUFFICES ASSUME d > 1 PROVE mask'[on[w]] = Want(frames'[w][d - 1])
        BY <1>1
      <4>1. frames[w][d].prev = Want(frames[w][d - 1]) /\ d - 1 \in 1 .. d - 1
        BY <1>1, <3>1 DEF PinStack
      <4> QED
        BY <2>1, <3>1, <3>3, <4>1
    <3>6. on'[w] = on[w] /\ d - 1 > 0 /\ locks'[w] = d - 1
      BY <1>1, <1>3, <2>4
    <3> QED
      BY <2>4, <3>2, <3>4, <3>5, <3>6 DEF PinStack
  <2> QED
    BY <2>2, <2>3, <2>4
<1> QED
  BY <1>5, <1>7, <1>8, <1>9, <1>10, <1>12, <1>13 DEF AInv

(* What a frame would restore is what the kernel gives, when that is the   *)
(* fence or the pin below it.                                              *)
LEMMA RestoredPrev ==
    ASSUME AInv, Steady, NEW t \in Tid, NEW d, NEW w \in Worker,
           d = locks[w], d > 0, on[w] \notin tainted,
           d > 1 \/ (Fencing /\ frames[w][1].prev = Fence)
    PROVE  Restored(t, frames[w][d].prev)[t] = frames[w][d].prev
<1> DEFINE prev == frames[w][d].prev
<1>1. BootMask \subseteq cpuset /\ PinStack(w)
  BY DEF AInv, CpusetWide, Steady
<1>2. d \in Nat /\ (d = depth[w] \/ d = depth[w] + 1)
  <2>1. pc[w] \in {"idle", "lock", "set", "readback"}
    BY DEF AInv, TypeOK
  <2> QED
    BY <2>1, Counts
<1>3. prev \subseteq BootMask /\ prev # {}
  <2>1. CASE d > 1
    <3>1. /\ d - 1 \in 1 .. Granted(w) /\ d - 1 \in 1 .. InUse(w) /\ d \in 1 .. locks[w]
          /\ d - 1 \in Nat
      <4>1. /\ Granted(w) = depth[w] \/ Granted(w) = depth[w] + 1
            /\ InUse(w) = depth[w] \/ InUse(w) = depth[w] + 1
            /\ depth[w] \in Nat
        BY Counts
      <4> QED
        BY <1>2, <2>1, <4>1
    <3>2. prev = Want(frames[w][d - 1])
      BY <1>1, <2>1, <3>1 DEF PinStack
    <3>3. Want(frames[w][d - 1]) # {} /\ frames[w][d - 1].role \in RoleName
      BY <1>1, <3>1 DEF PinStack
    <3> QED
      BY <3>2, <3>3, WantInRole
  <2>2. CASE d = 1
    BY <2>2, FenceInBootMask
  <2> QED
    BY <1>2, <2>1, <2>2
<1> QED
  BY <1>1, <1>3 DEF Restored, Refused, Effective, AInv, TypeOK

LEMMA RestoredType ==
    ASSUME AInv, NEW t \in Tid, NEW prev \in SUBSET Core
    PROVE  /\ Restored(t, prev) \in [Tid -> SUBSET Core]
           /\ \A u \in Tid : u # t => Restored(t, prev)[u] = mask[u]
BY DEF Restored, Effective, AInv, TypeOK

(* A restore writes the mask of one thread only, or loses it.              *)
LEMMA RestoreStep ==
    ASSUME AInv, NEW w \in Worker, locks[w] > 0,
           Restore(on[w], frames[w][locks[w]].prev)
    PROVE  /\ mask' \in [Tid -> SUBSET Core]
           /\ \A u \in Tid : u # on[w] => mask'[u] = mask[u]
           /\ tainted \subseteq tainted' /\ tainted' \subseteq tainted \cup {on[w]}
           /\ /\ Steady /\ on[w] \notin tainted'
              /\ locks[w] > 1 \/ (Fencing /\ frames[w][1].prev = Fence)
              => mask'[on[w]] = frames[w][locks[w]].prev
<1>1. /\ locks[w] \in 1 .. MaxDepth /\ on[w] \in Tid
      /\ frames[w][locks[w]].prev \in SUBSET Core
  <2>1. locks[w] \in 1 .. MaxDepth
    BY Counts DEF AInv, TypeOK
  <2> QED
    BY <2>1 DEF AInv, LocksBalanced, TypeOK, Frame
<1>2. CASE mask' = Restored(on[w], frames[w][locks[w]].prev) /\ UNCHANGED history
  <2>1. tainted' = tainted
    BY <1>2 DEF history
  <2>2. /\ mask' \in [Tid -> SUBSET Core]
        /\ \A u \in Tid : u # on[w] => mask'[u] = mask[u]
    BY <1>1, <1>2, RestoredType
  <2>3. ASSUME Steady, on[w] \notin tainted,
               locks[w] > 1 \/ (Fencing /\ frames[w][1].prev = Fence)
        PROVE  mask'[on[w]] = frames[w][locks[w]].prev
    BY <1>1, <1>2, <2>3, RestoredPrev
  <2> QED
    BY <2>1, <2>2, <2>3
<1>3. CASE mask' = mask /\ tainted' = tainted \cup {on[w]}
  <2>1. mask' \in [Tid -> SUBSET Core]
    BY <1>3 DEF AInv, TypeOK
  <2> QED
    BY <1>3, <2>1
<1> QED
  BY <1>2, <1>3 DEF Restore

LEMMA PinSetStep == ASSUME AInv, NEW w \in Worker, PinSet(w) PROVE AInv'
<1>1. pc[w] = "set" /\ UNCHANGED <<kernel, alive, sweep, tainted>>
  BY DEF PinSet, history
<1>2. /\ depth[w] \in Nat /\ MaxDepth \in Nat /\ depth[w] + 1 \in 1 .. MaxDepth
      /\ locks[w] = depth[w] + 1 /\ locks[w] > 0 /\ locks[w] - 1 = depth[w]
      /\ Granted(w) = depth[w] /\ InUse(w) = depth[w] + 1
      /\ (Ordered => apply = "ok")
  BY <1>1, Counts
<1>3. CASE PinError(w) /\ UNCHANGED mask
  <2>1. /\ Unlock(w) /\ SetFrame(w, locks[w], Blank)
        /\ pc' = [pc EXCEPT ![w] = "idle"]
        /\ depth' = [depth EXCEPT ![w] = locks[w] - 1]
        /\ mask' = mask /\ mask \in [Tid -> SUBSET Core]
    BY <1>2, <1>3 DEF PinError, Goto, AInv, TypeOK
  <2>2. Steady /\ on[w] \notin tainted => mask[on[w]] = frames[w][locks[w]].prev
    <3> SUFFICES ASSUME Steady, on[w] \notin tainted
                 PROVE  mask[on[w]] = frames[w][depth[w] + 1].prev
      BY <1>2
    <3>1. PinStack(w)
      BY DEF AInv
    <3>2. CASE depth[w] = 0
      BY <1>2, <3>1, <3>2 DEF PinStack
    <3>3. CASE depth[w] > 0
      <4> SUFFICES ASSUME NEW e \in Nat, e = locks[w]
                   PROVE  mask[on[w]] = frames[w][e].prev
        BY <1>2
      <4>1. e \in 1 .. locks[w] /\ e > 1 /\ e - 1 = depth[w]
        BY <1>2, <3>3
      <4>2. frames[w][e].prev = Want(frames[w][e - 1])
        BY <3>1, <4>1 DEF PinStack
      <4>3. mask[on[w]] = Want(frames[w][depth[w]])
        BY <1>2, <3>1, <3>3 DEF PinStack
      <4> QED
        BY <4>1, <4>2, <4>3
    <3> QED
      BY <1>2, <3>2, <3>3
  <2> QED
    <3>1. tainted \subseteq tainted' /\ tainted' \subseteq tainted \cup {on[w]}
      BY <1>1
    <3>2. /\ Steady /\ on[w] \notin tainted'
          /\ locks[w] > 1 \/ (Fencing /\ frames[w][1].prev = Fence)
          => mask'[on[w]] = frames[w][locks[w]].prev
      BY <1>1, <2>1, <2>2
    <3>3. \A u \in Tid : u # on[w] => mask'[u] = mask[u]
      BY <2>1
    <3> QED
      BY <1>1, <1>2, <2>1, <3>1, <3>2, <3>3, PopStep
<1>4. CASE /\ ~Refused(Want(Current(w)))
           /\ mask' = [mask EXCEPT ![on[w]] = Effective(Want(Current(w)))]
           /\ Goto(w, "readback") /\ UNCHANGED <<on, locks, depth, frames>>
  <2>1. /\ pc' = [pc EXCEPT ![w] = "readback"] /\ pc'[w] = "readback"
        /\ pc' \in [Worker -> {"idle", "lock", "set", "readback"}]
        /\ \A v \in Worker : v # w => pc'[v] = pc[v]
    BY <1>4 DEF Goto, AInv, TypeOK
  <2>2. /\ on[w] \in alive /\ on[w] \in Tid /\ on[w] \in Held
        /\ \A v \in Worker : v # w /\ locks[v] > 0 => on[v] # on[w] /\ on[v] \in Tid
    BY <1>2 DEF AInv, LocksBalanced, TypeOK, Held
  <2>3. /\ mask' \in [Tid -> SUBSET Core]
        /\ mask'[on[w]] = Effective(Want(Current(w)))
        /\ \A t \in Tid : t # on[w] => mask'[t] = mask[t]
    BY <1>4, <2>2 DEF Effective, AInv, TypeOK
  <2>4. TypeOK'
    BY <1>1, <1>4, <2>1, <2>3 DEF AInv, TypeOK, kernel, sweep
  <2>5. LocksBalanced'
    BY <1>1, <1>4, <2>1 DEF AInv, LocksBalanced
  <2>6. PinsAfterApply' /\ CpusetWide' /\ (Steady' <=> Steady)
    BY <1>1, <1>2, <1>4, <2>1
       DEF AInv, PinsAfterApply, CpusetWide, Undisturbed, Steady, kernel, sweep
  <2>7. WalkFences'
    BY <1>1, <1>2, <2>6 DEF AInv, WalkFences, Steady, sweep
  <2>8. PoolFenced'
    <3>1. Pool' = Pool /\ \A t \in Pool : t # on[w] /\ t \in Tid
      BY <1>1, <1>4, <2>2 DEF Pool, Held, AInv, TypeOK
    <3> QED
      BY <1>1, <1>4, <2>3, <2>6, <3>1 DEF AInv, PoolFenced, sweep
  <2>9. ASSUME Steady', NEW v \in Worker, on'[v] \notin tainted'
       PROVE  PinStack(v)'
    <3>1. Steady /\ on[v] \notin tainted /\ PinStack(v)
      BY <1>1, <1>4, <2>6, <2>9 DEF AInv
    <3>2. CASE v # w
      BY <1>4, <2>1, <2>2, <2>3, <3>1, <3>2, OthersKeep
    <3>3. CASE v = w
      <4>1. Granted(w)' = depth[w] + 1 /\ InUse(w)' = depth[w] + 1
        BY <1>4, <2>1 DEF Granted, InUse
      <4>2. Current(w) = frames[w][depth[w] + 1] /\ Current(w).role \in RoleName
        BY <1>2, <3>1, <3>3 DEF PinStack, Current
      <4>3. Want(Current(w)) # {} /\ mask'[on[w]] = Want(Current(w))
        BY <1>4, <2>3, <3>1, <4>2, WantInRole
           DEF Refused, Effective, AInv, CpusetWide, Steady
      <4>4. \A d \in 1 .. depth[w] + 1 : Want(frames[w][d]) # {}
        <5>1. \A d \in 1 .. depth[w] + 1 : d \in 1 .. depth[w] \/ d = depth[w] + 1
          BY <1>2
        <5> QED
          BY <1>2, <3>1, <3>3, <4>2, <4>3, <5>1 DEF PinStack
      <4> QED
        BY <1>2, <1>4, <3>1, <3>3, <4>1, <4>2, <4>3, <4>4 DEF PinStack
    <3> QED
      BY <3>2, <3>3
  <2> QED
    BY <2>4, <2>5, <2>6, <2>7, <2>8, <2>9 DEF AInv
<1> QED
  BY <1>3, <1>4 DEF PinSet

LEMMA PinReadbackStep == ASSUME AInv, NEW w \in Worker, PinReadback(w) PROVE AInv'
<1>1. pc[w] = "readback" /\ UNCHANGED <<kernel, alive, sweep>>
  BY DEF PinReadback
<1>2. /\ depth[w] \in Nat /\ MaxDepth \in Nat /\ depth[w] + 1 \in 1 .. MaxDepth
      /\ locks[w] = depth[w] + 1 /\ locks[w] > 0 /\ locks[w] - 1 = depth[w]
      /\ depth[w] + 1 \in 0 .. MaxDepth
      /\ (Ordered => apply = "ok")
  BY <1>1, Counts
<1>3. CASE ReadbackFailed(w)
  <2>1. Restore(on[w], frames[w][locks[w]].prev)
    BY <1>2, <1>3 DEF ReadbackFailed, UndoPin, Current
  <2>2. /\ Unlock(w) /\ SetFrame(w, locks[w], Blank)
        /\ pc' = [pc EXCEPT ![w] = "idle"]
        /\ depth' = [depth EXCEPT ![w] = locks[w] - 1]
    BY <1>2, <1>3 DEF ReadbackFailed, PinError, Goto, AInv, TypeOK
  <2> QED
    BY <1>1, <1>2, <2>1, <2>2, RestoreStep, PopStep
<1>4. CASE /\ Goto(w, "idle") /\ depth' = [depth EXCEPT ![w] = @ + 1]
           /\ UNCHANGED <<mask, on, locks, frames, tainted>>
  <2>1. /\ pc' = [pc EXCEPT ![w] = "idle"] /\ pc'[w] = "idle"
        /\ pc' \in [Worker -> {"idle", "lock", "set", "readback"}]
        /\ depth' \in [Worker -> 0 .. MaxDepth] /\ depth'[w] = depth[w] + 1
        /\ \A v \in Worker : v # w => pc'[v] = pc[v] /\ depth'[v] = depth[v]
    BY <1>2, <1>4 DEF Goto, AInv, TypeOK
  <2>2. TypeOK'
    BY <1>1, <1>4, <2>1 DEF AInv, TypeOK, kernel, sweep
  <2>3. LocksBalanced'
    <3>1. \A v \in Worker :
            locks[v] = depth'[v] + IF pc'[v] \in {"set", "readback"} THEN 1 ELSE 0
      <4> SUFFICES ASSUME NEW v \in Worker
                   PROVE  locks[v] = depth'[v] + IF pc'[v] \in {"set", "readback"} THEN 1 ELSE 0
        OBVIOUS
      <4>1. CASE v = w
        BY <1>2, <2>1, <4>1
      <4>2. CASE v # w
        BY <2>1, <4>2 DEF AInv, LocksBalanced
      <4> QED
        BY <4>1, <4>2
    <3> QED
      BY <1>1, <1>4, <3>1 DEF AInv, LocksBalanced
  <2>4. PinsAfterApply' /\ CpusetWide' /\ (Steady' <=> Steady)
    BY <1>1, <1>2, <2>1
       DEF AInv, PinsAfterApply, CpusetWide, Undisturbed, Steady, kernel, sweep
  <2>5. WalkFences' /\ PoolFenced'
    BY <1>1, <1>4, <2>4 DEF AInv, WalkFences, PoolFenced, Pool, Held, sweep
  <2>6. ASSUME Steady', NEW v \in Worker, on'[v] \notin tainted'
       PROVE  PinStack(v)'
    <3>1. Steady /\ PinStack(v)
      BY <1>4, <2>4, <2>6 DEF AInv
    <3>2. Granted(v)' = Granted(v) /\ InUse(v)' = InUse(v)
      <4>1. CASE v = w
        BY <1>1, <1>2, <2>1, <4>1 DEF Granted, InUse
      <4>2. CASE v # w
        BY <2>1, <4>2 DEF Granted, InUse
      <4> QED
        BY <4>1, <4>2
    <3> QED
      BY <1>4, <3>1, <3>2 DEF PinStack
  <2> QED
    BY <2>2, <2>3, <2>4, <2>5, <2>6 DEF AInv
<1> QED
  BY <1>3, <1>4 DEF PinReadback, history

LEMMA UnpinStep == ASSUME AInv, NEW w \in Worker, Unpin(w) PROVE AInv'
<1>1. /\ pc[w] = "idle" /\ depth[w] > 0
      /\ UNCHANGED <<kernel, alive, sweep, pc>>
      /\ Unlock(w)
      /\ depth' = [depth EXCEPT ![w] = depth[w] - 1]
      /\ SetFrame(w, depth[w], Blank)
      /\ Restore(on[w], frames[w][depth[w]].prev)
  BY DEF Unpin, Top
<1>2. locks[w] = depth[w] /\ locks[w] > 0
  BY <1>1, Counts
<1>3. /\ pc' = [pc EXCEPT ![w] = "idle"]
      /\ depth' = [depth EXCEPT ![w] = locks[w] - 1]
      /\ SetFrame(w, locks[w], Blank)
      /\ Restore(on[w], frames[w][locks[w]].prev)
  BY <1>1, <1>2 DEF AInv, TypeOK
<1> QED
  BY <1>1, <1>2, <1>3, RestoreStep, PopStep

LEMMA GoexitStep == ASSUME AInv, NEW w \in Worker, Goexit(w) PROVE AInv'
<1>1. /\ pc[w] = "idle" /\ depth[w] > 0
      /\ alive' = alive \ {on[w]} /\ mask' = [mask EXCEPT ![on[w]] = {}]
      /\ done' = done \ {on[w]} /\ tainted' = tainted \ {on[w]}
      /\ on' = [on EXCEPT ![w] = NoTid] /\ locks' = [locks EXCEPT ![w] = 0]
      /\ depth' = [depth EXCEPT ![w] = 0]
      /\ frames' = [frames EXCEPT ![w] = [d \in 1 .. MaxDepth |-> Blank]]
      /\ UNCHANGED <<kernel, apply, pass, pending, capped, gomaxprocs, pc>>
  BY DEF Goexit, Die
<1>2. depth[w] \in Nat /\ MaxDepth \in Nat /\ locks[w] > 0 /\ (Ordered => apply = "ok")
  BY <1>1, Counts
<1>3. /\ on[w] \in alive /\ on[w] \in Tid /\ on[w] \in Held
      /\ \A v \in Worker : v # w /\ locks[v] > 0 => on[v] # on[w]
  BY <1>2 DEF AInv, LocksBalanced, TypeOK, Held
<1>4. /\ on'[w] = NoTid /\ locks'[w] = 0 /\ depth'[w] = 0
      /\ \A v \in Worker : v # w =>
            /\ on'[v] = on[v] /\ locks'[v] = locks[v]
            /\ depth'[v] = depth[v] /\ frames'[v] = frames[v]
      /\ \A u \in Tid : u # on[w] => mask'[u] = mask[u]
  BY <1>1 DEF AInv, TypeOK
<1>5. TypeOK'
  <2>1. frames' \in [Worker -> [1 .. MaxDepth -> Frame]]
    BY <1>1, BlankType DEF AInv, TypeOK
  <2>2. 0 \in 0 .. MaxDepth
    BY <1>2
  <2> QED
    BY <1>1, <1>3, <2>1, <2>2 DEF AInv, TypeOK, kernel
<1>6. LocksBalanced'
  <2>1. \A v \in Worker :
          /\ locks'[v] = depth'[v] + IF pc'[v] \in {"set", "readback"} THEN 1 ELSE 0
          /\ IF locks'[v] > 0 THEN on'[v] \in alive' ELSE on'[v] = NoTid
    BY <1>1, <1>3, <1>4 DEF AInv, LocksBalanced
  <2>2. \A u, v \in Worker : u # v /\ locks'[u] > 0 => on'[u] # on'[v]
    <3> SUFFICES ASSUME NEW u \in Worker, NEW v \in Worker, u # v, locks'[u] > 0
                 PROVE  on'[u] # on'[v]
      OBVIOUS
    <3>1. u # w /\ locks[u] > 0 /\ on'[u] = on[u] /\ on[u] \in Tid /\ on[u] # on[v]
      BY <1>4 DEF AInv, LocksBalanced, TypeOK
    <3> QED
      BY <1>4, <3>1
  <2> QED
    BY <2>1, <2>2 DEF LocksBalanced
<1>7. PinsAfterApply' /\ CpusetWide' /\ (Steady' <=> Steady)
  BY <1>1, <1>2, <1>4 DEF AInv, PinsAfterApply, CpusetWide, Undisturbed, Steady, kernel
<1>8. WalkFences'
  BY <1>1, <1>2, <1>7 DEF AInv, WalkFences, Steady
<1>9. PoolFenced'
  <2>1. \A u \in Pool' \ tainted' : u \in Pool \ tainted /\ u # on[w] /\ u \in Tid
    BY <1>1, <1>3, <1>4 DEF Pool, Held, AInv, TypeOK
  <2>2. \A v \in Worker : locks'[v] > 0 /\ on'[v] \notin tainted' =>
          /\ v # w /\ locks[v] > 0 /\ on[v] \notin tainted
          /\ frames'[v] = frames[v]
    BY <1>1, <1>3, <1>4
  <2> QED
    BY <1>1, <1>4, <1>7, <2>1, <2>2 DEF AInv, PoolFenced
<1>10. ASSUME Steady', NEW v \in Worker, on'[v] \notin tainted'
       PROVE  PinStack(v)'
  <2>1. CASE v = w
    BY <1>1, <1>4, <2>1 DEF PinStack, Granted, InUse
  <2>2. CASE v # w
    <3>1. locks[v] > 0 => on[v] \in Tid /\ on[v] # on[w]
      BY <1>3, <2>2 DEF AInv, LocksBalanced, TypeOK
    <3>2. on[v] \notin tainted
      <4>1. on'[v] = on[v] /\ on[v] # on[w]
        BY <1>3, <1>4, <2>2, <3>1 DEF AInv, LocksBalanced
      <4> QED
        BY <1>1, <1>10, <4>1
    <3> QED
      BY <1>1, <1>4, <1>7, <1>10, <2>2, <3>1, <3>2, OthersKeep
  <2> QED
    BY <2>1, <2>2
<1> QED
  BY <1>5, <1>6, <1>7, <1>8, <1>9, <1>10 DEF AInv

LEMMA StutterStep == ASSUME AInv, UNCHANGED vars PROVE AInv'
<1>1. UNCHANGED <<kernel, threads, sweep, workers, tainted>>
  BY DEF vars, history
<1>2. Steady' <=> Steady
  BY <1>1 DEF Steady, Undisturbed, kernel
<1>3. \A t \in Held : t \in alive' /\ mask'[t] = mask[t]
  BY <1>1 DEF AInv, LocksBalanced, Held, threads
<1>4. /\ Held' = Held /\ LocksBalanced'
      /\ Steady' => \A w \in Worker : on'[w] \notin tainted' => PinStack(w)'
  BY <1>1, <1>2, <1>3, WorkersKept
<1>5. TypeOK' /\ PinsAfterApply' /\ CpusetWide' /\ WalkFences' /\ PoolFenced'
  BY <1>1, <1>2, <1>4 DEF AInv, TypeOK, PinsAfterApply, CpusetWide, Undisturbed, WalkFences,
                          PoolFenced, Pool, kernel, threads, sweep, workers
<1> QED
  BY <1>4, <1>5 DEF AInv

LEMMA NextAInv == AInv /\ [Next]_vars => AInv'
<1> SUFFICES ASSUME AInv, [Next]_vars PROVE AInv'
  OBVIOUS
<1>1. CASE Main
  BY <1>1, ApplyStartStep, ListTIDsStep, SweepThreadStep, SetGOMAXPROCSStep DEF Main
<1>2. CASE Environment
  BY <1>2, SpawnStep, ExitStep, CpusetChangeStep DEF Environment
<1>3. ASSUME NEW w \in Worker, Work(w) PROVE AInv'
  BY <1>3, PinCallStep, PinLockStep, PinSetStep, PinReadbackStep, UnpinStep, GoexitStep
     DEF Work, InPinSelf
<1>4. CASE UNCHANGED vars
  BY <1>4, StutterStep
<1> QED
  BY <1>1, <1>2, <1>3, <1>4 DEF Next

-----------------------------------------------------------------------------
(* The theorems                                                            *)

(* The inductive invariant holds in every reachable state.                 *)
THEOREM AffinityInvariant == Spec => []AInv
BY InitAInv, NextAInv, PTL DEF Spec

(* Every variable keeps its type; GOMAXPROCS is at least 1.                *)
THEOREM AffinityTypes == Spec => []TypeOK
<1>1. AInv => TypeOK
  BY DEF AInv
<1> QED
  BY <1>1, AffinityInvariant, PTL

(* A worker holds one LockOSThread per pin it has not undone, on a thread  *)
(* of its own: none of the error returns of PinSelf after LockOSThread, at *)
(* either sched_getaffinity, at sched_setaffinity and after the readback   *)
(* (pin_linux.go:39-58), leaks a lock, nor does Unpin.                     *)
THEOREM LocksAreBalanced == Spec => []LocksBalanced
<1>1. AInv => LocksBalanced
  BY DEF AInv
<1> QED
  BY <1>1, AffinityInvariant, PTL

(* When Apply is called before any Pin and its walk ends by itself, every  *)
(* thread outside a pin carries the housekeeping mask, from then on, but   *)
(* for those that a failed restore left with a pin's mask.                 *)
THEOREM FenceHolds == Spec => []FenceComplete
<1>1. AInv => FenceComplete
  BY DEF AInv, PoolFenced, FenceComplete, Applied, Steady
<1> QED
  BY <1>1, AffinityInvariant, PTL

(* Under the same rule, only a worker of an exclusive role that has pinned *)
(* its thread can run on that role's cores, unless a restore failed.       *)
LEMMA Isolated == AInv => ExclusiveCoresIsolated
<1> SUFFICES ASSUME AInv, Applied, ~capped, Fencing, Ordered, Undisturbed,
                    NEW t \in alive, t \notin tainted, NEW r \in RoleName,
                    Plan[r].exclusive, r # Housekeeping, mask[t] \cap Plan[r].cores # {}
             PROVE  \E w \in Worker, d \in 1 .. MaxDepth :
                       locks[w] > 0 /\ on[w] = t /\ frames[w][d].role = r
  BY DEF ExclusiveCoresIsolated
<1>1. Steady /\ Housekeeping \in RoleName
  BY DEF Steady, Fencing
<1>2. Fence \cap Plan[r].cores = {}
  BY <1>1 DEF Fence
<1>3. t \notin Pool
  BY <1>1, <1>2 DEF AInv, PoolFenced, Applied
<1>4. PICK w \in Worker : locks[w] > 0 /\ on[w] = t
  BY <1>3 DEF Pool, Held
<1>5. PinStack(w) /\ frames[w][1].prev = Fence
  BY <1>1, <1>4 DEF AInv, PoolFenced, Applied
<1> DEFINE d == Granted(w)
<1>6. /\ d \in Nat /\ (d > 0 => d \in 1 .. MaxDepth /\ d \in 1 .. InUse(w))
  <2>1. /\ depth[w] \in Nat /\ MaxDepth \in Nat
        /\ depth[w] > 0 => depth[w] \in 1 .. MaxDepth
        /\ pc[w] # "idle" => depth[w] + 1 \in 1 .. MaxDepth
    BY Counts
  <2> QED
    BY <2>1 DEF Granted, InUse
<1>7. d > 0
  BY <1>2, <1>4, <1>5, <1>6 DEF PinStack
<1>8. mask[t] = Want(frames[w][d]) /\ frames[w][d].role \in RoleName
  BY <1>4, <1>5, <1>6, <1>7 DEF PinStack
<1>9. Want(frames[w][d]) \subseteq Plan[frames[w][d].role].cores
  BY <1>8, WantInRole
<1>10. frames[w][d].role = r
  BY <1>8, <1>9
<1> QED
  BY <1>4, <1>6, <1>7, <1>10

THEOREM IsolationHolds == Spec => []ExclusiveCoresIsolated
BY Isolated, AffinityInvariant, PTL

-----------------------------------------------------------------------------
(* GOMAXPROCS                                                              *)

(* While the cpuset stays, the boot mask is what Available answers, whose  *)
(* size bounds that of any set of the plan's cores.                        *)
LEMMA TargetCoversPlan ==
    ASSUME AInv, Undisturbed
    PROVE  \/ GomaxprocsTarget >= Cardinality(UNION {Plan[r].cores : r \in RoleName})
           \/ GomaxprocsTarget >= QuotaCPUs
<1> DEFINE used == UNION {Plan[r].cores : r \in RoleName}
<1>1. Available = BootMask
  BY DEF AInv, CpusetWide, Available
<1>2. used \subseteq BootMask
  OBVIOUS
<1> HIDE DEF used
<1>3. /\ Cardinality(used) <= Cardinality(BootMask)
      /\ Cardinality(used) \in Nat /\ Cardinality(BootMask) \in Nat
  BY <1>2, FS_Subset, FS_CardinalityType
<1>4. GomaxprocsTarget >= Cardinality(used) \/ GomaxprocsTarget >= QuotaCPUs
  BY <1>1, <1>3 DEF GomaxprocsTarget
<1> QED
  BY <1>4 DEF used

LEMMA NextCovers ==
    AInv /\ GomaxprocsCoversPlan /\ [Next]_vars => GomaxprocsCoversPlan'
<1> SUFFICES ASSUME AInv, GomaxprocsCoversPlan, [Next]_vars PROVE GomaxprocsCoversPlan'
  OBVIOUS
<1>1. Undisturbed' => Undisturbed
  <2>1. changes \in Nat
    BY DEF AInv, TypeOK
  <2>2. changes' = changes \/ changes' = changes + 1
    BY DEF Next, Main, Environment, Work, InPinSelf, ApplyStart, ListTIDs, SweepThread,
           SetGOMAXPROCS, Spawn, Exit, CpusetChange, PinCall, PinLock, PinSet, PinReadback,
           Unpin, Goexit, kernel, vars
  <2> QED
    BY <2>1, <2>2 DEF Undisturbed
<1>2. CASE SetGOMAXPROCS
  BY <1>1, <1>2, TargetCoversPlan DEF SetGOMAXPROCS, GomaxprocsCoversPlan
<1>3. CASE ApplyStart \/ ListTIDs \/ \E t \in Tid : SweepThread(t)
  <2>1. apply' # "ok"
    BY <1>3 DEF ApplyStart, ListTIDs, SweepThread, SweepEnd, FailApply, AfterThread
  <2> QED
    BY <2>1 DEF GomaxprocsCoversPlan, Applied
<1>4. CASE Environment \/ (\E w \in Worker : Work(w)) \/ UNCHANGED vars
  <2>1. apply' = apply /\ gomaxprocs' = gomaxprocs
    BY <1>4 DEF Environment, Work, InPinSelf, Spawn, Exit, CpusetChange, PinCall, PinLock,
           PinSet, PinReadback, Unpin, Goexit, sweep, vars
  <2> QED
    BY <2>1, <1>1 DEF GomaxprocsCoversPlan, Applied
<1> QED
  BY <1>2, <1>3, <1>4 DEF Next, Main

(* As long as the cpuset stays, GOMAXPROCS is the size of the plan or more *)
(* once Apply has returned, or the quota, whatever mask Apply has set      *)
(* (plan.go:277-280).                                                      *)
THEOREM PlanHasProcessors == Spec => []GomaxprocsCoversPlan
<1>1. Init => GomaxprocsCoversPlan
  BY DEF Init, GomaxprocsCoversPlan, Applied
<1> QED
  BY <1>1, AffinityInvariant, NextCovers, PTL DEF Spec

-----------------------------------------------------------------------------
(* Pins hold and threads come back as they were, in whatever order Apply,  *)
(* Pin and Unpin run and whatever the container does to the cpuset, for    *)
(* every thread that nobody but its worker has written.                    *)

LEMMA InitPinInv == Init => PinInv
<1> SUFFICES ASSUME Init PROVE PinInv
  OBVIOUS
<1>1. /\ home = mask /\ home \in [Tid -> SUBSET Core]
      /\ \A t \in alive : mask[t] = BootMask
      /\ BootMask \subseteq cpuset
  BY DEF Init
<1>2. \A w \in Worker : locks[w] = 0 /\ InUse(w) = 0
  BY DEF Init, InUse
<1>3. \A t \in alive : Legal(mask[t])
  BY <1>1 DEF Legal
<1>4. PoolMaskRestored
  BY <1>1 DEF PoolMaskRestored
<1>5. \A w \in Worker, d \in 1 .. MaxDepth : ~(d <= InUse(w))
  BY <1>2
<1>6. \A w \in Worker : ~Own(w)
  BY <1>2 DEF Own
<1> QED
  BY <1>1, <1>3, <1>4, <1>5, <1>6 DEF PinInv

-----------------------------------------------------------------------------
(* Steps that leave a worker alone                                         *)

LEMMA HeldThreads ==
    ASSUME AInv
    PROVE  /\ Held \subseteq alive /\ Pool \subseteq Tid
           /\ \A w \in Worker : locks[w] > 0 => on[w] \in Held /\ on[w] \in Tid
           /\ \A v, w \in Worker : v # w /\ locks[v] > 0 => on[v] # on[w]
BY DEF AInv, LocksBalanced, TypeOK, Held, Pool

LEMMA OwnKept ==
    ASSUME AInv, NEW v \in Worker, cpuset' = cpuset, OwnStack(v),
           pc'[v] = pc[v], on'[v] = on[v], locks'[v] = locks[v],
           depth'[v] = depth[v], frames'[v] = frames[v],
           mask'[on[v]] = mask[on[v]], home'[on[v]] = home[on[v]]
    PROVE  OwnStack(v)'
<1>1. \A d : Level(v, d)' = Level(v, d)
  BY DEF Level, Want, Target
<1> QED
  BY <1>1 DEF OwnStack, Legal

(* A step that touches no worker, and either spares a held thread or marks *)
(* it as written.                                                          *)
LEMMA OthersOwn ==
    ASSUME AInv, PinInv, UNCHANGED workers,
           \A t \in Held :
              t \in stale' \/ (/\ cpuset' = cpuset /\ t \notin stale
                               /\ mask'[t] = mask[t] /\ home'[t] = home[t])
    PROVE  /\ Held' = Held
           /\ \A w \in Worker, d \in 1 .. MaxDepth :
                 d <= InUse(w)' => frames'[w][d].role \in RoleName
           /\ \A w \in Worker : Own(w)' => OwnStack(w)'
<1>1. Held' = Held
  BY DEF Held, workers
<1>2. \A w \in Worker, d \in 1 .. MaxDepth :
        d <= InUse(w)' => frames'[w][d].role \in RoleName
  BY DEF PinInv, InUse, workers
<1>3. ASSUME NEW w \in Worker, Own(w)' PROVE OwnStack(w)'
  <2>1. locks[w] > 0 /\ on[w] \notin stale' /\ on[w] \in Held
    BY <1>3, HeldThreads DEF Own, workers
  <2>2. /\ cpuset' = cpuset /\ on[w] \notin stale
        /\ mask'[on[w]] = mask[on[w]] /\ home'[on[w]] = home[on[w]]
    BY <2>1
  <2>3. OwnStack(w)
    BY <2>1, <2>2 DEF PinInv, Own
  <2> QED
    BY <2>2, <2>3, OwnKept DEF workers
<1> QED
  BY <1>1, <1>2, <1>3

LEMMA NothingWritten ==
    ASSUME AInv, PinInv, UNCHANGED <<kernel, threads, workers, history>>
    PROVE  PinInv'
<1>1. /\ Held' = Held
      /\ \A w \in Worker, d \in 1 .. MaxDepth :
            d <= InUse(w)' => frames'[w][d].role \in RoleName
      /\ \A w \in Worker : Own(w)' => OwnStack(w)'
  BY OthersOwn DEF kernel, threads, history
<1>2. /\ home' \in [Tid -> SUBSET Core]
      /\ \A t \in alive' : Legal(mask[t])'
  BY DEF PinInv, Legal, kernel, threads, history
<1>3. PoolMaskRestored'
  BY <1>1 DEF PinInv, PoolMaskRestored, Pool, threads, history
<1> QED
  BY <1>1, <1>2, <1>3 DEF PinInv

-----------------------------------------------------------------------------
(* The runtime, the container and the sweep                                *)

LEMMA SpawnPins ==
    ASSUME AInv, PinInv, NEW t \in Tid, NEW u \in Tid, Spawn(t, u)
    PROVE  PinInv'
<1>1. /\ t \in Pool /\ t \in alive /\ u \notin alive
      /\ alive' = alive \cup {u}
      /\ mask' = [mask EXCEPT ![u] = mask[t]] /\ home' = [home EXCEPT ![u] = mask[t]]
      /\ stale' = stale /\ cpuset' = cpuset /\ UNCHANGED workers
  BY DEF Spawn, Pool, kernel
<1>2. /\ home' \in [Tid -> SUBSET Core]
      /\ mask'[u] = mask[t] /\ home'[u] = mask[t]
      /\ \A x \in Tid : x # u => mask'[x] = mask[x] /\ home'[x] = home[x]
  BY <1>1 DEF AInv, TypeOK, PinInv
<1>3. \A x \in Held : x \in Tid /\ x # u
  BY <1>1, HeldThreads DEF AInv, TypeOK
<1>4. /\ Held' = Held
      /\ \A w \in Worker, d \in 1 .. MaxDepth :
            d <= InUse(w)' => frames'[w][d].role \in RoleName
      /\ \A w \in Worker : Own(w)' => OwnStack(w)'
  BY <1>1, <1>2, <1>3, OthersOwn
<1>5. \A x \in alive' : Legal(mask[x])'
  BY <1>1, <1>2 DEF PinInv, Legal, AInv, TypeOK
<1>6. PoolMaskRestored'
  <2>1. \A x \in Pool' : x \in Pool \/ x = u
    BY <1>1, <1>4 DEF Pool
  <2> QED
    BY <1>1, <1>2, <2>1, HeldThreads DEF PinInv, PoolMaskRestored
<1> QED
  BY <1>2, <1>4, <1>5, <1>6 DEF PinInv

LEMMA ExitPins == ASSUME AInv, PinInv, NEW t \in Tid, Exit(t) PROVE PinInv'
<1>1. /\ t \in Pool /\ t \notin Held /\ alive' = alive \ {t}
      /\ mask' = [mask EXCEPT ![t] = {}] /\ home' = [home EXCEPT ![t] = {}]
      /\ stale' = stale \ {t} /\ cpuset' = cpuset /\ UNCHANGED workers
  BY DEF Exit, Die, Pool, kernel
<1>2. /\ home' \in [Tid -> SUBSET Core]
      /\ \A x \in Tid : x # t => mask'[x] = mask[x] /\ home'[x] = home[x]
  BY <1>1 DEF AInv, TypeOK, PinInv
<1>3. \A x \in Held : x \in Tid /\ x # t
  BY <1>1, HeldThreads DEF AInv, TypeOK
<1>4. /\ Held' = Held
      /\ \A w \in Worker, d \in 1 .. MaxDepth :
            d <= InUse(w)' => frames'[w][d].role \in RoleName
      /\ \A w \in Worker : Own(w)' => OwnStack(w)'
  BY <1>1, <1>2, <1>3, OthersOwn
<1>5. \A x \in alive' : Legal(mask[x])'
  BY <1>1, <1>2 DEF PinInv, Legal, AInv, TypeOK
<1>6. PoolMaskRestored'
  <2>1. \A x \in Pool' : x \in Pool /\ x # t
    BY <1>1, <1>4 DEF Pool
  <2> QED
    BY <1>1, <1>2, <2>1, HeldThreads DEF PinInv, PoolMaskRestored
<1> QED
  BY <1>2, <1>4, <1>5, <1>6 DEF PinInv

(* A write by somebody else: a held thread becomes stale, another has the  *)
(* new mask for its home.                                                  *)
LEMMA OverwritePins ==
    ASSUME AInv, PinInv, NEW T \in SUBSET alive, NEW new \in [Tid -> SUBSET Core],
           Overwrite(T, new), UNCHANGED <<alive, workers>>,
           cpuset' = cpuset \/ T = alive,
           \A t \in T : new[t] # {} /\ new[t] \subseteq cpuset'
    PROVE  PinInv'
<1>1. /\ mask' = [t \in Tid |-> IF t \in T THEN new[t] ELSE mask[t]]
      /\ home' = [t \in Tid |-> IF t \in T THEN new[t] ELSE home[t]]
      /\ stale' = (stale \ T) \cup (T \cap Held)
  BY DEF Overwrite
<1>2. \A x \in alive : x \in Tid
  BY DEF AInv, TypeOK
<1>3. home' \in [Tid -> SUBSET Core]
  BY <1>1 DEF PinInv
<1>4. \A x \in Held :
        x \in stale' \/ (/\ cpuset' = cpuset /\ x \notin stale
                         /\ mask'[x] = mask[x] /\ home'[x] = home[x])
  BY <1>1, <1>2, HeldThreads
<1>5. /\ Held' = Held
      /\ \A w \in Worker, d \in 1 .. MaxDepth :
            d <= InUse(w)' => frames'[w][d].role \in RoleName
      /\ \A w \in Worker : Own(w)' => OwnStack(w)'
  BY <1>4, OthersOwn
<1>6. \A x \in alive' : Legal(mask[x])'
  BY <1>1, <1>2 DEF PinInv, Legal
<1>7. PoolMaskRestored'
  <2>1. Pool' = Pool
    BY <1>5 DEF Pool
  <2> QED
    BY <1>1, <2>1, HeldThreads DEF PinInv, PoolMaskRestored
<1> QED
  BY <1>3, <1>5, <1>6, <1>7 DEF PinInv

LEMMA CpusetChangePins == ASSUME AInv, PinInv, CpusetChange PROVE PinInv'
<1>1. /\ cpuset' \subseteq Core /\ cpuset' # {} /\ UNCHANGED <<alive, workers>>
      /\ Overwrite(alive, Reset(cpuset')) \/ Overwrite(alive, Shrink(cpuset'))
  BY DEF CpusetChange
<1>2. Reset(cpuset') \in [Tid -> SUBSET Core] /\ Shrink(cpuset') \in [Tid -> SUBSET Core]
  BY <1>1 DEF Reset, Shrink, AInv, TypeOK
<1>3. \A t \in alive :
        /\ Reset(cpuset')[t] # {} /\ Reset(cpuset')[t] \subseteq cpuset'
        /\ Shrink(cpuset')[t] # {} /\ Shrink(cpuset')[t] \subseteq cpuset'
  <2>1. \A t \in alive : t \in Tid
    BY DEF AInv, TypeOK
  <2>2. \A t \in alive :
          /\ Reset(cpuset')[t] = cpuset'
          /\ Shrink(cpuset')[t] = IF mask[t] \cap cpuset' = {} THEN cpuset'
                                                            ELSE mask[t] \cap cpuset'
    BY <2>1 DEF Reset, Shrink
  <2> QED
    BY <1>1, <2>2
<1>4. alive \in SUBSET alive
  OBVIOUS
<1>5. CASE Overwrite(alive, Reset(cpuset'))
  BY <1>1, <1>2, <1>3, <1>4, <1>5, OverwritePins
<1>6. CASE Overwrite(alive, Shrink(cpuset'))
  BY <1>1, <1>2, <1>3, <1>4, <1>6, OverwritePins
<1> QED
  BY <1>1, <1>5, <1>6

LEMMA SweepThreadPins == ASSUME AInv, PinInv, NEW t \in Tid, SweepThread(t) PROVE PinInv'
<1>1. UNCHANGED <<kernel, workers>> /\ cpuset' = cpuset /\ alive' = alive
  BY DEF SweepThread, kernel, threads
<1>2. CASE UNCHANGED <<threads, history>>
  BY <1>1, <1>2, NothingWritten
<1>3. CASE /\ t \in alive /\ ~Refused(Fence)
           /\ Overwrite({t}, [u \in Tid |-> Effective(Fence)])
  <2> DEFINE new == [u \in Tid |-> Effective(Fence)]
  <2>1. Effective(Fence) # {} /\ Effective(Fence) \subseteq cpuset'
    BY <1>1, <1>3 DEF Refused, Effective
  <2>2. Effective(Fence) \subseteq Core
    BY DEF Effective, AInv, TypeOK
  <2>3. new \in [Tid -> SUBSET Core] /\ new[t] # {} /\ new[t] \subseteq cpuset'
    BY <2>1, <2>2
  <2>4. Overwrite({t}, new) /\ {t} \in SUBSET alive
    BY <1>3
  <2> HIDE DEF new
  <2>5. \A x \in {t} : new[x] # {} /\ new[x] \subseteq cpuset'
    BY <2>3
  <2> QED
    BY <1>1, <2>3, <2>4, <2>5, OverwritePins
<1> QED
  BY <1>2, <1>3 DEF SweepThread

-----------------------------------------------------------------------------
(* The workers                                                             *)

LEMMA OtherWorkers ==
    ASSUME AInv, PinInv, NEW w \in Worker, cpuset' = cpuset,
           \A v \in Worker : v # w =>
              /\ pc'[v] = pc[v] /\ on'[v] = on[v] /\ locks'[v] = locks[v]
              /\ depth'[v] = depth[v] /\ frames'[v] = frames[v]
              /\ locks[v] > 0 =>
                    /\ mask'[on[v]] = mask[on[v]] /\ home'[on[v]] = home[on[v]]
                    /\ on[v] \in stale' <=> on[v] \in stale
    PROVE  \A v \in Worker : v # w =>
              /\ \A d \in 1 .. MaxDepth :
                    d <= InUse(v)' => frames'[v][d].role \in RoleName
              /\ Own(v)' => OwnStack(v)'
<1> SUFFICES ASSUME NEW v \in Worker, v # w
             PROVE  /\ \A d \in 1 .. MaxDepth :
                          d <= InUse(v)' => frames'[v][d].role \in RoleName
                    /\ Own(v)' => OwnStack(v)'
  OBVIOUS
<1>1. \A d \in 1 .. MaxDepth : d <= InUse(v)' => frames'[v][d].role \in RoleName
  BY DEF PinInv, InUse
<1>2. ASSUME Own(v)' PROVE OwnStack(v)'
  <2>1. locks[v] > 0 /\ Own(v) /\ OwnStack(v)
    BY <1>2 DEF Own, PinInv
  <2> QED
    BY <2>1, OwnKept
<1> QED
  BY <1>1, <1>2

LEMMA PinCallPins == ASSUME AInv, PinInv, NEW w \in Worker, PinCall(w) PROVE PinInv'
<1>1. /\ pc[w] = "idle" /\ depth[w] < MaxDepth /\ pc' = [pc EXCEPT ![w] = "lock"]
      /\ UNCHANGED <<kernel, threads, on, locks, depth, history>>
  BY DEF PinCall, Goto
<1>2. PICK role \in RoleName, idx \in 0 .. MaxIdx :
        SetFrame(w, depth[w] + 1, [role |-> role, idx |-> idx, prev |-> {}])
  BY DEF PinCall
<1>3. /\ depth[w] \in Nat /\ depth[w] + 1 \in 1 .. MaxDepth /\ locks[w] = depth[w]
      /\ InUse(w) = depth[w]
  BY <1>1, Counts DEF AInv, TypeOK
<1>4. [role |-> role, idx |-> idx, prev |-> {}] \in Frame
  BY DEF Frame
<1>5. /\ frames'[w][depth[w] + 1].role = role
      /\ \A e \in 1 .. MaxDepth : e # depth[w] + 1 => frames'[w][e] = frames[w][e]
      /\ \A v \in Worker : v # w => frames'[v] = frames[v]
  BY <1>2, <1>3, <1>4, FrameUpdate
<1>6. pc'[w] = "lock" /\ \A v \in Worker : v # w => pc'[v] = pc[v]
  BY <1>1 DEF AInv, TypeOK
<1>7. InUse(w)' = depth[w] + 1
  BY <1>1, <1>6 DEF InUse
<1>8. \A v \in Worker : v # w =>
        /\ \A d \in 1 .. MaxDepth :
              d <= InUse(v)' => frames'[v][d].role \in RoleName
        /\ Own(v)' => OwnStack(v)'
  BY <1>1, <1>5, <1>6, OtherWorkers DEF kernel, threads, history
<1>9. \A d \in 1 .. MaxDepth : d <= InUse(w)' => frames'[w][d].role \in RoleName
  <2>1. \A d \in 1 .. MaxDepth : d <= depth[w] + 1 => d = depth[w] + 1 \/ d <= depth[w]
    BY <1>3
  <2>2. \A d \in 1 .. MaxDepth : d <= depth[w] => d # depth[w] + 1
    BY <1>3
  <2> QED
    BY <1>3, <1>5, <1>7, <2>1, <2>2 DEF PinInv
<1>10. ASSUME Own(w)' PROVE OwnStack(w)'
  <2>1. OwnStack(w)
    BY <1>1, <1>10 DEF Own, PinInv, history
  <2>2. \A d \in 0 .. depth[w] : Level(w, d)' = Level(w, d)
    <3>1. \A d \in 0 .. depth[w] : d = 0 \/ (d \in 1 .. MaxDepth /\ d # depth[w] + 1)
      BY <1>3
    <3>2. on' = on /\ home' = home
      BY <1>1 DEF history
    <3>3. \A d \in 0 .. depth[w] : d # 0 => frames'[w][d] = frames[w][d]
      BY <1>5, <3>1
    <3>4. \A d \in 0 .. depth[w] : d # 0 => Want(frames[w][d])' = Want(frames[w][d])
      BY <3>3 DEF Want, Target
    <3> QED
      BY <3>2, <3>4 DEF Level
  <2>3. \A d \in 1 .. depth[w] : frames'[w][d] = frames[w][d] /\ d - 1 \in 0 .. depth[w]
    BY <1>3, <1>5
  <2>4. depth[w] \in 0 .. depth[w]
    BY <1>3
  <2> QED
    BY <1>1, <1>3, <1>6, <2>1, <2>2, <2>3, <2>4 DEF OwnStack, Legal, kernel, threads
<1>11. Held' = Held
  BY <1>1 DEF Held
<1>12. PoolMaskRestored' /\ home' \in [Tid -> SUBSET Core] /\ \A t \in alive' : Legal(mask[t])'
  BY <1>1, <1>11 DEF PinInv, PoolMaskRestored, Pool, Legal, kernel, threads, history
<1>13. \A v \in Worker, d \in 1 .. MaxDepth :
        d <= InUse(v)' => frames'[v][d].role \in RoleName
  BY <1>8, <1>9
<1>14. \A v \in Worker : Own(v)' => OwnStack(v)'
  BY <1>8, <1>10
<1> QED
  BY <1>12, <1>13, <1>14 DEF PinInv

LEMMA GetFailedPins ==
    ASSUME AInv, PinInv, NEW w \in Worker, NEW t \in Tid, pc[w] = "lock", GetFailed(w, t),
           UNCHANGED <<kernel, threads, sweep, depth>>
    PROVE  PinInv'
<1>1. /\ pc' = [pc EXCEPT ![w] = "idle"] /\ SetFrame(w, depth[w] + 1, Blank)
      /\ UNCHANGED <<kernel, threads, on, locks, depth, history>>
  BY DEF GetFailed, Goto
<1>2. /\ depth[w] \in Nat /\ depth[w] + 1 \in 1 .. MaxDepth /\ locks[w] = depth[w]
      /\ InUse(w) = depth[w] + 1
  BY Counts
<1>3. /\ \A e \in 1 .. MaxDepth : e # depth[w] + 1 => frames'[w][e] = frames[w][e]
      /\ \A v \in Worker : v # w => frames'[v] = frames[v]
  BY <1>1, <1>2, BlankType, FrameUpdate
<1>4. pc'[w] = "idle" /\ \A v \in Worker : v # w => pc'[v] = pc[v]
  BY <1>1 DEF AInv, TypeOK
<1>5. \A v \in Worker : v # w =>
        /\ \A d \in 1 .. MaxDepth :
              d <= InUse(v)' => frames'[v][d].role \in RoleName
        /\ Own(v)' => OwnStack(v)'
  BY <1>1, <1>3, <1>4, OtherWorkers DEF kernel, threads, history
<1>6. \A d \in 1 .. MaxDepth : d <= InUse(w)' => frames'[w][d].role \in RoleName
  <2>1. InUse(w)' = depth[w]
    BY <1>1, <1>2, <1>4 DEF InUse
  <2>2. \A d \in 1 .. MaxDepth : d <= depth[w] => d # depth[w] + 1 /\ d <= InUse(w)
    BY <1>2
  <2> QED
    BY <1>3, <2>1, <2>2 DEF PinInv
<1>7. ASSUME Own(w)' PROVE OwnStack(w)'
  <2>1. OwnStack(w)
    BY <1>1, <1>7 DEF Own, PinInv, history
  <2>2. \A d \in 1 .. depth[w] :
          frames'[w][d] = frames[w][d] /\ d - 1 \in 0 .. depth[w]
    BY <1>2, <1>3
  <2>3. \A d \in 0 .. depth[w] : Level(w, d)' = Level(w, d)
    <3>1. \A d \in 0 .. depth[w] : d = 0 \/ d \in 1 .. depth[w]
      BY <1>2
    <3>2. \A d \in 1 .. depth[w] : Want(frames[w][d])' = Want(frames[w][d])
      BY <2>2 DEF Want, Target
    <3>3. on' = on /\ home' = home
      BY <1>1 DEF history
    <3> QED
      BY <2>2, <3>1, <3>2, <3>3 DEF Level
  <2>4. depth[w] \in 0 .. depth[w]
    BY <1>2
  <2> QED
    BY <1>1, <1>2, <1>4, <2>1, <2>2, <2>3, <2>4 DEF OwnStack, Legal, kernel, threads
<1>8. Held' = Held
  BY <1>1 DEF Held
<1>9. PoolMaskRestored' /\ home' \in [Tid -> SUBSET Core] /\ \A u \in alive' : Legal(mask[u])'
  BY <1>1, <1>8 DEF PinInv, PoolMaskRestored, Pool, Legal, kernel, threads, history
<1>10. \A v \in Worker, d \in 1 .. MaxDepth :
        d <= InUse(v)' => frames'[v][d].role \in RoleName
  BY <1>5, <1>6
<1>11. \A v \in Worker : Own(v)' => OwnStack(v)'
  BY <1>5, <1>7
<1> QED
  BY <1>9, <1>10, <1>11 DEF PinInv

LEMMA GetPrevPins ==
    ASSUME AInv, PinInv, NEW w \in Worker, NEW t \in Tid, pc[w] = "lock",
           RunsOn(w, t), GetPrev(w, t), UNCHANGED <<kernel, threads, sweep, depth>>
    PROVE  PinInv'
<1>1. /\ \/ locks[w] > 0 /\ t = on[w]
         \/ /\ locks[w] = 0 /\ t \in Pool
            /\ home' = [home EXCEPT ![t] = mask[t]]
      /\ locks[w] > 0 => home' = home /\ stale' = stale
      /\ \A u : u # t => (u \in stale' <=> u \in stale)
      /\ home' = [home EXCEPT ![t] = IF locks[w] = 0 THEN mask[t] ELSE @]
      /\ on' = [on EXCEPT ![w] = t]
      /\ SetFrame(w, depth[w] + 1, [Current(w) EXCEPT !.prev = mask[t]])
  <2>1. /\ home' = [home EXCEPT ![t] = IF locks[w] = 0 THEN mask[t] ELSE home[t]]
        /\ stale' = stale \ {x \in {t} : locks[w] = 0}
        /\ on' = [on EXCEPT ![w] = t]
        /\ SetFrame(w, depth[w] + 1, [Current(w) EXCEPT !.prev = mask[t]])
    BY DEF GetPrev
  <2>2. home \in [Tid -> SUBSET Core]
    BY DEF PinInv
  <2>3. (locks[w] > 0 /\ t = on[w]) \/ (locks[w] = 0 /\ t \in Pool)
    BY DEF RunsOn
  <2>4. ASSUME locks[w] > 0 PROVE home' = home /\ stale' = stale
    BY <2>1, <2>2, <2>4
  <2>5. ASSUME locks[w] = 0 PROVE home' = [home EXCEPT ![t] = mask[t]]
    BY <2>1, <2>5
  <2>6. \A u : u # t => (u \in stale' <=> u \in stale)
    BY <2>1
  <2> QED
    BY <2>1, <2>3, <2>4, <2>5, <2>6
<1>2. /\ pc[w] = "lock" /\ pc' = [pc EXCEPT ![w] = "set"]
      /\ locks' = [locks EXCEPT ![w] = locks[w] + 1]
      /\ cpuset' = cpuset /\ alive' = alive /\ mask' = mask /\ depth' = depth
  BY DEF GetPrev, Goto, kernel, threads
<1>3. /\ depth[w] \in Nat /\ depth[w] + 1 \in 1 .. MaxDepth /\ locks[w] = depth[w]
      /\ InUse(w) = depth[w] + 1
  BY <1>2, Counts
<1>4. /\ Current(w) \in Frame /\ mask[t] \in SUBSET Core
      /\ Current(w) = frames[w][depth[w] + 1]
  BY <1>3 DEF Current, AInv, TypeOK
<1>5. [Current(w) EXCEPT !.prev = mask[t]] \in Frame
  BY <1>4 DEF Frame
<1>6. /\ frames'[w][depth[w] + 1] = [Current(w) EXCEPT !.prev = mask[t]]
      /\ \A e \in 1 .. MaxDepth : e # depth[w] + 1 => frames'[w][e] = frames[w][e]
      /\ \A v \in Worker : v # w => frames'[v] = frames[v]
  BY <1>1, <1>3, <1>5, FrameUpdate
<1>7. /\ frames'[w][depth[w] + 1].prev = mask[t]
      /\ frames'[w][depth[w] + 1].role = Current(w).role
  BY <1>4, <1>6 DEF Frame
<1>8. /\ pc'[w] = "set" /\ on'[w] = t /\ locks'[w] = depth[w] + 1
      /\ \A v \in Worker : v # w =>
            pc'[v] = pc[v] /\ on'[v] = on[v] /\ locks'[v] = locks[v]
  BY <1>1, <1>2, <1>3 DEF AInv, TypeOK
<1>9. /\ home' \in [Tid -> SUBSET Core]
      /\ \A u \in Tid : u # t => home'[u] = home[u] /\ (u \in stale' <=> u \in stale)
  BY <1>1, <1>4 DEF PinInv, history
<1>10. \A v \in Worker : v # w /\ locks[v] > 0 => on[v] \in Tid /\ on[v] # t
  BY <1>1, HeldThreads DEF Pool
<1>11. \A v \in Worker : v # w =>
        /\ \A d \in 1 .. MaxDepth :
              d <= InUse(v)' => frames'[v][d].role \in RoleName
        /\ Own(v)' => OwnStack(v)'
  BY <1>2, <1>6, <1>8, <1>9, <1>10, OtherWorkers
<1>12. \A d \in 1 .. MaxDepth : d <= InUse(w)' => frames'[w][d].role \in RoleName
  <2>1. InUse(w)' = InUse(w)
    BY <1>2, <1>8 DEF InUse
  <2>2. \A d \in 1 .. MaxDepth : frames'[w][d].role = frames[w][d].role
    BY <1>4, <1>6, <1>7
  <2> QED
    BY <2>1, <2>2 DEF PinInv
<1>13. ASSUME Own(w)' PROVE OwnStack(w)'
  <2>1. \A d \in 1 .. depth[w] : Level(w, d)' = Level(w, d)
    <3> SUFFICES ASSUME NEW d \in 1 .. depth[w] PROVE Level(w, d)' = Level(w, d)
      OBVIOUS
    <3>1. d # 0 /\ d \in 1 .. MaxDepth /\ d # depth[w] + 1
      BY <1>3
    <3>2. frames'[w][d] = frames[w][d]
      BY <1>6, <3>1
    <3> QED
      BY <3>1, <3>2 DEF Level, Want, Target
  <2>2. CASE depth[w] = 0
    <3>1. t \in alive /\ home'[t] = mask[t]
      BY <1>1, <1>3, <2>2 DEF Pool, PinInv
    <3>2. Level(w, 0)' = mask[t] /\ Legal(mask[t]) /\ mask[t]' = mask[t]
      BY <1>2, <1>8, <3>1 DEF Level, PinInv
    <3>3. \A d \in 0 .. depth'[w] : d = 0
      BY <1>2, <2>2
    <3>4. \A d \in 1 .. locks'[w] : d = 1 /\ d - 1 = 0
      BY <1>8, <2>2
    <3> QED
      BY <1>2, <1>7, <1>8, <2>2, <3>2, <3>3, <3>4 DEF OwnStack, Legal
  <2>3. CASE depth[w] > 0
    <3>1. locks[w] > 0 /\ t = on[w] /\ home' = home /\ stale' = stale
      BY <1>1, <1>3, <2>3
    <3>2. OwnStack(w)
      BY <1>8, <1>13, <3>1 DEF Own, PinInv
    <3>3. \A d \in 0 .. depth[w] : Level(w, d)' = Level(w, d)
      <4>1. Level(w, 0)' = Level(w, 0)
        BY <1>8, <3>1 DEF Level
      <4>2. \A d \in 0 .. depth[w] : d = 0 \/ d \in 1 .. depth[w]
        BY <1>3
      <4> QED
        BY <2>1, <4>1, <4>2
    <3>4. mask[t] = Level(w, depth[w])
      BY <1>2, <3>1, <3>2 DEF OwnStack
    <3>5. \A d \in 1 .. depth[w] :
            frames'[w][d] = frames[w][d] /\ d \in 1 .. locks[w] /\ d - 1 \in 0 .. depth[w]
      BY <1>3, <1>6
    <3>6. \A d \in 1 .. depth[w] : frames'[w][d].prev = Level(w, d - 1)'
      BY <3>2, <3>3, <3>5 DEF OwnStack
    <3>7. /\ \A d \in 1 .. depth[w] + 1 : d \in 1 .. depth[w] \/ d = depth[w] + 1
          /\ depth[w] + 1 - 1 = depth[w] /\ depth[w] \in 0 .. depth[w]
      BY <1>3
    <3>8. \A d \in 1 .. locks'[w] : frames'[w][d].prev = Level(w, d - 1)'
      BY <1>7, <1>8, <3>3, <3>4, <3>6, <3>7
    <3>9. \A d \in 0 .. depth'[w] : Legal(Level(w, d))'
      BY <1>2, <3>2, <3>3 DEF OwnStack, Legal
    <3>10. mask'[on'[w]] = Level(w, depth[w])'
      BY <1>2, <1>8, <3>3, <3>4, <3>7
    <3> QED
      BY <1>2, <3>8, <3>9, <3>10 DEF OwnStack
  <2> QED
    BY <1>3, <2>2, <2>3
<1>14. \A u \in Pool' : u \in Pool /\ u # t
  <2>1. \A u \in Held : u \in Held'
    <3> SUFFICES ASSUME NEW v \in Worker, locks[v] > 0 PROVE on[v] \in Held'
      BY DEF Held
    <3>1. CASE v = w
      BY <1>1, <1>3, <1>8, <3>1 DEF Held
    <3>2. CASE v # w
      BY <1>8, <3>2 DEF Held
    <3> QED
      BY <3>1, <3>2
  <2>2. t \in Held'
    BY <1>3, <1>8 DEF Held
  <2> QED
    BY <1>2, <2>1, <2>2 DEF Pool
<1>15. PoolMaskRestored' /\ \A u \in alive' : Legal(mask[u])'
  BY <1>2, <1>9, <1>14, HeldThreads DEF PinInv, PoolMaskRestored, Legal
<1>16. \A v \in Worker, d \in 1 .. MaxDepth :
        d <= InUse(v)' => frames'[v][d].role \in RoleName
  BY <1>11, <1>12
<1>17. \A v \in Worker : Own(v)' => OwnStack(v)'
  BY <1>11, <1>13
<1> QED
  BY <1>9, <1>15, <1>16, <1>17 DEF PinInv

LEMMA PinLockPins == ASSUME AInv, PinInv, NEW w \in Worker, PinLock(w) PROVE PinInv'
<1>1. PICK t \in Tid : RunsOn(w, t) /\ (GetPrev(w, t) \/ GetFailed(w, t))
  BY DEF PinLock
<1> QED
  BY <1>1, GetPrevPins, GetFailedPins DEF PinLock

(* The error returns of PinSelf and Unpin: worker w gives up its innermost *)
(* lock; if the thread was its own, the level below is what is left.       *)
LEMMA PopPins ==
    ASSUME AInv, PinInv, NEW w \in Worker, NEW d, d = locks[w], d > 0,
           UNCHANGED <<kernel, alive, home>>,
           stale \subseteq stale', stale' \subseteq stale \cup {on[w]},
           Unlock(w), SetFrame(w, d, Blank),
           pc' = [pc EXCEPT ![w] = "idle"],
           depth' = [depth EXCEPT ![w] = d - 1],
           \A u \in Tid : u # on[w] => mask'[u] = mask[u],
           Legal(mask'[on[w]]),
           Own(w) /\ on[w] \notin stale' => mask'[on[w]] = Level(w, d - 1)
    PROVE  PinInv'
<1>1. /\ d \in 1 .. MaxDepth /\ d - 1 \in Nat
      /\ d - 1 <= InUse(w) /\ d - 1 <= depth[w]
  <2>1. pc[w] \in {"idle", "lock", "set", "readback"}
    BY DEF AInv, TypeOK
  <2>2. MaxDepth \in Nat /\ depth[w] \in Nat
    BY Counts
  <2> QED
    BY <2>1, <2>2, Counts
<1>2. /\ \A e \in 1 .. MaxDepth : e # d => frames'[w][e] = frames[w][e]
      /\ \A v \in Worker : v # w => frames'[v] = frames[v]
  BY <1>1, BlankType, FrameUpdate
<1>3. /\ on'[w] = IF d = 1 THEN NoTid ELSE on[w]
      /\ locks'[w] = d - 1 /\ pc'[w] = "idle" /\ depth'[w] = d - 1
      /\ \A v \in Worker : v # w =>
            /\ pc'[v] = pc[v] /\ on'[v] = on[v] /\ locks'[v] = locks[v]
            /\ depth'[v] = depth[v]
  BY <1>1 DEF Unlock, AInv, TypeOK
<1>4. /\ on[w] \in alive /\ on[w] \in Tid
      /\ \A v \in Worker : v # w /\ locks[v] > 0 => on[v] # on[w] /\ on[v] \in Tid
  BY DEF AInv, LocksBalanced, TypeOK
<1>5. \A v \in Worker : v # w =>
        /\ \A e \in 1 .. MaxDepth :
              e <= InUse(v)' => frames'[v][e].role \in RoleName
        /\ Own(v)' => OwnStack(v)'
  BY <1>2, <1>3, <1>4, OtherWorkers DEF kernel
<1>6. \A e \in 1 .. MaxDepth : e <= InUse(w)' => frames'[w][e].role \in RoleName
  <2>1. InUse(w)' = d - 1
    BY <1>1, <1>3 DEF InUse
  <2>2. \A e \in 1 .. MaxDepth : e <= d - 1 => e # d /\ e <= InUse(w)
    <3>1. InUse(w) \in Nat
      BY Counts DEF InUse
    <3> QED
      BY <1>1, <3>1
  <2> QED
    BY <1>2, <2>1, <2>2 DEF PinInv
<1>7. ASSUME Own(w)' PROVE OwnStack(w)'
  <2>1. d > 1 /\ on'[w] = on[w] /\ Own(w) /\ on[w] \notin stale'
    BY <1>1, <1>3, <1>7 DEF Own
  <2>2. OwnStack(w) /\ mask'[on[w]] = Level(w, d - 1)
    BY <2>1 DEF PinInv
  <2>3. \A e \in 0 .. d - 1 : Level(w, e)' = Level(w, e)
    <3> SUFFICES ASSUME NEW e \in 0 .. d - 1 PROVE Level(w, e)' = Level(w, e)
      OBVIOUS
    <3>1. CASE e = 0
      BY <2>1, <3>1 DEF Level
    <3>2. CASE e # 0
      <4>1. frames'[w][e] = frames[w][e]
        BY <1>1, <1>2, <3>2
      <4>2. Want(frames[w][e])' = Want(frames[w][e])
        BY <4>1 DEF Want, Target
      <4> QED
        BY <3>2, <4>2 DEF Level
    <3> QED
      BY <3>1, <3>2
  <2>4. /\ \A e \in 0 .. d - 1 : e \in 0 .. depth[w]
        /\ \A e \in 1 .. d - 1 : e \in 1 .. locks[w] /\ e - 1 \in 0 .. d - 1
                                 /\ frames'[w][e] = frames[w][e]
        /\ d - 1 \in 0 .. d - 1
    BY <1>1, <1>2, Counts
  <2>5. \A e \in 0 .. d - 1 : Legal(Level(w, e))'
    BY <2>2, <2>3, <2>4 DEF OwnStack, Legal, kernel
  <2>6. \A e \in 1 .. d - 1 : frames'[w][e].prev = Level(w, e - 1)'
    BY <2>2, <2>3, <2>4 DEF OwnStack
  <2>7. mask'[on'[w]] = Level(w, d - 1)'
    BY <2>1, <2>2, <2>3, <2>4
  <2> QED
    BY <1>3, <2>5, <2>6, <2>7 DEF OwnStack
<1>8. \A u \in Pool' : (u \in Pool /\ u # on[w]) \/ (u = on[w] /\ d = 1)
  <2> SUFFICES ASSUME NEW u \in Pool' PROVE (u \in Pool /\ u # on[w]) \/ (u = on[w] /\ d = 1)
    OBVIOUS
  <2>1. u \in alive /\ u \notin Held'
    BY DEF Pool
  <2>2. \A v \in Worker : v # w /\ locks[v] > 0 => on[v] # u
    BY <1>3, <2>1 DEF Held
  <2>3. CASE d = 1
    BY <2>1, <2>2, <2>3 DEF Pool, Held
  <2>4. CASE d # 1
    <3>1. on[w] # u
      BY <1>1, <1>3, <2>1, <2>4 DEF Held
    <3> QED
      BY <2>1, <2>2, <3>1 DEF Pool, Held
  <2> QED
    BY <2>3, <2>4
<1>9. PoolMaskRestored'
  <2>1. d = 1 /\ on[w] \notin stale' => mask'[on[w]] = home[on[w]]
    BY DEF Own, Level
  <2> QED
    BY <1>8, <2>1, HeldThreads DEF PinInv, PoolMaskRestored
<1>10. home' \in [Tid -> SUBSET Core] /\ \A u \in alive' : Legal(mask[u])'
  <2>1. \A u \in alive : u \in Tid
    BY DEF AInv, TypeOK
  <2> QED
    BY <2>1 DEF PinInv, Legal, kernel
<1>11. \A v \in Worker, e \in 1 .. MaxDepth :
        e <= InUse(v)' => frames'[v][e].role \in RoleName
  BY <1>5, <1>6
<1>12. \A v \in Worker : Own(v)' => OwnStack(v)'
  BY <1>5, <1>7
<1> QED
  BY <1>9, <1>10, <1>11, <1>12 DEF PinInv

(* A restore leaves a legal mask; an own thread gets the level below.      *)
LEMMA RestoredLevel ==
    ASSUME AInv, PinInv, NEW w \in Worker, NEW d, d = locks[w], d > 0,
           mask' = Restored(on[w], frames[w][d].prev)
    PROVE  /\ \A u \in Tid : u # on[w] => mask'[u] = mask[u]
           /\ Legal(mask'[on[w]])
           /\ Own(w) => mask'[on[w]] = Level(w, d - 1)
<1> DEFINE prev == frames[w][d].prev
<1>1. on[w] \in Tid /\ on[w] \in alive /\ Legal(mask[on[w]])
  BY HeldThreads DEF PinInv
<1>2. /\ mask'[on[w]] = IF Refused(prev) THEN mask[on[w]] ELSE Effective(prev)
      /\ \A u \in Tid : u # on[w] => mask'[u] = mask[u]
  BY <1>1 DEF Restored, AInv, TypeOK
<1>3. Legal(mask'[on[w]])
  BY <1>1, <1>2 DEF Legal, Refused, Effective
<1>4. ASSUME Own(w) PROVE mask'[on[w]] = Level(w, d - 1)
  <2>1. OwnStack(w) /\ d \in 1 .. locks[w] /\ d - 1 \in 0 .. depth[w]
    <3>1. pc[w] \in {"idle", "lock", "set", "readback"}
      BY DEF AInv, TypeOK
    <3> QED
      BY <1>4, <3>1, Counts DEF PinInv
  <2>2. prev = Level(w, d - 1) /\ Legal(Level(w, d - 1))
    BY <2>1 DEF OwnStack
  <2>3. Effective(prev) = prev /\ ~Refused(prev)
    BY <2>2 DEF Legal, Refused, Effective
  <2> QED
    BY <1>2, <2>2, <2>3
<1> QED
  BY <1>2, <1>3, <1>4

LEMMA RestorePins ==
    ASSUME AInv, PinInv, NEW w \in Worker, locks[w] > 0,
           Restore(on[w], frames[w][locks[w]].prev)
    PROVE  /\ home' = home /\ stale \subseteq stale' /\ stale' \subseteq stale \cup {on[w]}
           /\ \A u \in Tid : u # on[w] => mask'[u] = mask[u]
           /\ Legal(mask'[on[w]])
           /\ Own(w) /\ on[w] \notin stale' => mask'[on[w]] = Level(w, locks[w] - 1)
<1>1. CASE mask' = Restored(on[w], frames[w][locks[w]].prev) /\ UNCHANGED history
  BY <1>1, RestoredLevel DEF history
<1>2. CASE mask' = mask /\ home' = home /\ stale' = stale \cup {on[w]}
  BY <1>2, HeldThreads DEF PinInv
<1> QED
  BY <1>1, <1>2 DEF Restore

LEMMA PinSetPins == ASSUME AInv, PinInv, NEW w \in Worker, PinSet(w) PROVE PinInv'
<1>1. pc[w] = "set" /\ UNCHANGED <<kernel, alive, history>>
  BY DEF PinSet
<1>2. /\ depth[w] \in Nat /\ locks[w] = depth[w] + 1 /\ locks[w] > 0
      /\ locks[w] - 1 = depth[w] /\ InUse(w) = depth[w] + 1
  BY <1>1, Counts
<1>3. /\ on[w] \in Tid /\ on[w] \in alive /\ on[w] \in Held
      /\ \A v \in Worker : v # w /\ locks[v] > 0 => on[v] # on[w] /\ on[v] \in Tid
  BY <1>2, HeldThreads
<1>4. CASE PinError(w) /\ UNCHANGED mask
  <2>1. /\ Unlock(w) /\ SetFrame(w, locks[w], Blank)
        /\ pc' = [pc EXCEPT ![w] = "idle"]
        /\ depth' = [depth EXCEPT ![w] = locks[w] - 1]
        /\ mask' = mask
    BY <1>2, <1>4 DEF PinError, Goto, AInv, TypeOK
  <2>2. Legal(mask'[on[w]])
    BY <1>3, <2>1 DEF PinInv
  <2>3. Own(w) => mask'[on[w]] = Level(w, locks[w] - 1)
    BY <1>1, <1>2, <2>1 DEF PinInv, OwnStack
  <2> QED
    BY <1>1, <1>2, <2>1, <2>2, <2>3, PopPins DEF history
<1>5. CASE /\ ~Refused(Want(Current(w)))
           /\ mask' = [mask EXCEPT ![on[w]] = Effective(Want(Current(w)))]
           /\ Goto(w, "readback") /\ UNCHANGED <<on, locks, depth, frames>>
  <2>1. pc'[w] = "readback" /\ \A v \in Worker : v # w => pc'[v] = pc[v]
    BY <1>5 DEF Goto, AInv, TypeOK
  <2>2. /\ mask'[on[w]] = Effective(Want(Current(w))) /\ Legal(mask'[on[w]])
        /\ \A t \in Tid : t # on[w] => mask'[t] = mask[t]
    BY <1>3, <1>5 DEF Effective, Refused, Legal, AInv, TypeOK
  <2>3. \A v \in Worker : v # w =>
          /\ \A d \in 1 .. MaxDepth :
                d <= InUse(v)' => frames'[v][d].role \in RoleName
          /\ Own(v)' => OwnStack(v)'
    BY <1>1, <1>3, <1>5, <2>1, <2>2, OtherWorkers DEF kernel, history
  <2>4. \A d \in 1 .. MaxDepth : d <= InUse(w)' => frames'[w][d].role \in RoleName
    <3>1. InUse(w)' = InUse(w)
      BY <1>1, <1>5, <2>1 DEF InUse
    <3> QED
      BY <1>5, <3>1 DEF PinInv
  <2>5. Own(w)' => OwnStack(w)'
    <3>1. \A d : Level(w, d)' = Level(w, d)
      BY <1>1, <1>5 DEF Level, Want, Target, history
    <3>2. Own(w)' => OwnStack(w)
      BY <1>1, <1>5 DEF Own, PinInv, history
    <3> QED
      BY <1>1, <1>5, <2>1, <3>1, <3>2 DEF OwnStack, Legal, kernel
  <2>6. PoolMaskRestored'
    <3>1. Pool' = Pool /\ \A t \in Pool : t # on[w] /\ t \in Tid
      BY <1>1, <1>3, <1>5, HeldThreads DEF Pool, Held
    <3> QED
      BY <1>1, <2>2, <3>1 DEF PinInv, PoolMaskRestored, history
  <2>7. home' \in [Tid -> SUBSET Core] /\ \A t \in alive' : Legal(mask[t])'
    <3>1. \A t \in alive : t \in Tid
      BY DEF AInv, TypeOK
    <3> QED
      BY <1>1, <2>2, <3>1 DEF PinInv, Legal, kernel, history
  <2>8. /\ \A v \in Worker, d \in 1 .. MaxDepth :
              d <= InUse(v)' => frames'[v][d].role \in RoleName
        /\ \A v \in Worker : Own(v)' => OwnStack(v)'
    BY <2>3, <2>4, <2>5
  <2> QED
    BY <2>6, <2>7, <2>8 DEF PinInv
<1> QED
  BY <1>4, <1>5 DEF PinSet

LEMMA PinReadbackPins == ASSUME AInv, PinInv, NEW w \in Worker, PinReadback(w) PROVE PinInv'
<1>1. pc[w] = "readback" /\ UNCHANGED <<kernel, alive>>
  BY DEF PinReadback
<1>2. /\ depth[w] \in Nat /\ locks[w] = depth[w] + 1 /\ locks[w] > 0
      /\ locks[w] - 1 = depth[w] /\ InUse(w) = depth[w] + 1
      /\ depth[w] + 1 \in 0 .. MaxDepth
  BY <1>1, Counts
<1>3. CASE ReadbackFailed(w)
  <2>1. /\ Unlock(w) /\ SetFrame(w, locks[w], Blank)
        /\ pc' = [pc EXCEPT ![w] = "idle"]
        /\ depth' = [depth EXCEPT ![w] = locks[w] - 1]
        /\ Restore(on[w], frames[w][locks[w]].prev)
    BY <1>2, <1>3 DEF ReadbackFailed, UndoPin, Current, PinError, Goto, AInv, TypeOK
  <2> QED
    BY <1>1, <1>2, <2>1, RestorePins, PopPins
<1>4. CASE /\ ~Narrowed(w)
           /\ Goto(w, "idle") /\ depth' = [depth EXCEPT ![w] = @ + 1]
           /\ UNCHANGED <<mask, on, locks, frames, history>>
  <2>1. /\ pc'[w] = "idle" /\ depth'[w] = depth[w] + 1
        /\ \A v \in Worker : v # w => pc'[v] = pc[v] /\ depth'[v] = depth[v]
    BY <1>2, <1>4 DEF Goto, AInv, TypeOK
  <2>2. \A v \in Worker : v # w =>
          /\ \A d \in 1 .. MaxDepth :
                d <= InUse(v)' => frames'[v][d].role \in RoleName
          /\ Own(v)' => OwnStack(v)'
    BY <1>1, <1>4, <2>1, OtherWorkers DEF kernel, history
  <2>3. \A d \in 1 .. MaxDepth : d <= InUse(w)' => frames'[w][d].role \in RoleName
    <3>1. InUse(w)' = InUse(w)
      BY <1>1, <1>2, <2>1 DEF InUse
    <3> QED
      BY <1>4, <3>1 DEF PinInv
  <2>4. ASSUME Own(w)' PROVE OwnStack(w)'
    <3>1. OwnStack(w)
      BY <1>1, <1>4, <2>4 DEF Own, PinInv, history
    <3>2. \A d : Level(w, d)' = Level(w, d)
      BY <1>1, <1>4 DEF Level, Want, Target, history
    <3>3. mask[on[w]] = Want(frames[w][depth[w] + 1])
      BY <1>4 DEF Narrowed, Current
    <3>4. mask[on[w]] = Level(w, depth[w] + 1) /\ Legal(mask[on[w]])
      BY <1>2, <3>3, HeldThreads DEF Level, PinInv
    <3>5. \A d \in 0 .. depth[w] + 1 : d \in 0 .. depth[w] \/ d = depth[w] + 1
      BY <1>2
    <3>6. \A d \in 0 .. depth[w] + 1 : Legal(Level(w, d))
      BY <3>1, <3>4, <3>5 DEF OwnStack
    <3> QED
      BY <1>1, <1>4, <2>1, <3>1, <3>2, <3>4, <3>6 DEF OwnStack, Legal, kernel
  <2>5. PoolMaskRestored' /\ home' \in [Tid -> SUBSET Core] /\ \A t \in alive' : Legal(mask[t])'
    BY <1>1, <1>4 DEF PinInv, PoolMaskRestored, Pool, Held, Legal, kernel, history
  <2>6. /\ \A v \in Worker, d \in 1 .. MaxDepth :
              d <= InUse(v)' => frames'[v][d].role \in RoleName
        /\ \A v \in Worker : Own(v)' => OwnStack(v)'
    BY <2>2, <2>3, <2>4
  <2> QED
    BY <2>5, <2>6 DEF PinInv
<1> QED
  BY <1>3, <1>4 DEF PinReadback

LEMMA UnpinPins == ASSUME AInv, PinInv, NEW w \in Worker, Unpin(w) PROVE PinInv'
<1>1. /\ pc[w] = "idle" /\ depth[w] > 0
      /\ UNCHANGED <<kernel, alive, pc>>
      /\ Unlock(w)
      /\ depth' = [depth EXCEPT ![w] = depth[w] - 1]
      /\ SetFrame(w, depth[w], Blank)
      /\ Restore(on[w], frames[w][depth[w]].prev)
  BY DEF Unpin, Top
<1>2. locks[w] = depth[w] /\ locks[w] > 0
  BY <1>1, Counts
<1>3. pc' = [pc EXCEPT ![w] = "idle"]
  BY <1>1 DEF AInv, TypeOK
<1> QED
  BY <1>1, <1>2, <1>3, RestorePins, PopPins

LEMMA GoexitPins == ASSUME AInv, PinInv, NEW w \in Worker, Goexit(w) PROVE PinInv'
<1>1. /\ pc[w] = "idle" /\ depth[w] > 0
      /\ alive' = alive \ {on[w]} /\ mask' = [mask EXCEPT ![on[w]] = {}]
      /\ home' = [home EXCEPT ![on[w]] = {}] /\ stale' = stale \ {on[w]}
      /\ on' = [on EXCEPT ![w] = NoTid] /\ locks' = [locks EXCEPT ![w] = 0]
      /\ depth' = [depth EXCEPT ![w] = 0]
      /\ frames' = [frames EXCEPT ![w] = [d \in 1 .. MaxDepth |-> Blank]]
      /\ cpuset' = cpuset /\ pc' = pc
  BY DEF Goexit, Die, kernel
<1>2. locks[w] > 0
  BY <1>1, Counts
<1>3. /\ on[w] \in Tid /\ on[w] \in Held
      /\ \A v \in Worker : v # w /\ locks[v] > 0 => on[v] # on[w] /\ on[v] \in Tid
  BY <1>2, HeldThreads
<1>4. /\ locks'[w] = 0 /\ depth'[w] = 0
      /\ \A v \in Worker : v # w =>
            /\ on'[v] = on[v] /\ locks'[v] = locks[v]
            /\ depth'[v] = depth[v] /\ frames'[v] = frames[v]
      /\ home' \in [Tid -> SUBSET Core]
      /\ \A u \in Tid : u # on[w] => mask'[u] = mask[u] /\ home'[u] = home[u]
  BY <1>1 DEF AInv, TypeOK, PinInv
<1>5. \A v \in Worker : v # w =>
        /\ \A d \in 1 .. MaxDepth :
              d <= InUse(v)' => frames'[v][d].role \in RoleName
        /\ Own(v)' => OwnStack(v)'
  <2>1. \A v \in Worker : v # w =>
          /\ pc'[v] = pc[v] /\ on'[v] = on[v] /\ locks'[v] = locks[v]
          /\ depth'[v] = depth[v] /\ frames'[v] = frames[v]
    BY <1>1, <1>4
  <2>2. \A v \in Worker : v # w /\ locks[v] > 0 =>
          /\ mask'[on[v]] = mask[on[v]] /\ home'[on[v]] = home[on[v]]
          /\ on[v] \in stale' <=> on[v] \in stale
    BY <1>1, <1>3, <1>4
  <2>3. cpuset' = cpuset
    BY <1>1
  <2> QED
    BY <2>1, <2>2, <2>3, OtherWorkers
<1>6. InUse(w)' = 0 /\ ~Own(w)'
  BY <1>1, <1>4 DEF InUse, Own
<1>7. \A u \in Pool' : u \in Pool /\ u # on[w]
  <2>1. \A v \in Worker : v # w /\ locks[v] > 0 => on[v] \in Held'
    BY <1>4 DEF Held
  <2>2. \A u \in Held : u = on[w] \/ u \in Held'
    BY <2>1 DEF Held
  <2> QED
    BY <1>1, <2>2 DEF Pool
<1>8. PoolMaskRestored' /\ \A u \in alive' : Legal(mask[u])'
  <2>1. \A u \in alive : u \in Tid
    BY DEF AInv, TypeOK
  <2> QED
    BY <1>1, <1>4, <1>7, <2>1, HeldThreads DEF PinInv, PoolMaskRestored, Legal
<1>9. \A v \in Worker, d \in 1 .. MaxDepth :
        d <= InUse(v)' => frames'[v][d].role \in RoleName
  <2>1. \A d \in 1 .. MaxDepth : ~(d <= InUse(w)')
    BY <1>6
  <2> QED
    BY <1>5, <2>1
<1>10. \A v \in Worker : Own(v)' => OwnStack(v)'
  BY <1>5, <1>6
<1> QED
  BY <1>4, <1>8, <1>9, <1>10 DEF PinInv

LEMMA NextPinInv == AInv /\ PinInv /\ [Next]_vars => PinInv'
<1> SUFFICES ASSUME AInv, PinInv, [Next]_vars PROVE PinInv'
  OBVIOUS
<1>1. CASE Main
  <2>1. CASE ApplyStart \/ ListTIDs \/ SetGOMAXPROCS
    BY <2>1, NothingWritten DEF ApplyStart, ListTIDs, SetGOMAXPROCS
  <2> QED
    BY <1>1, <2>1, SweepThreadPins DEF Main
<1>2. CASE Environment
  BY <1>2, SpawnPins, ExitPins, CpusetChangePins DEF Environment
<1>3. ASSUME NEW w \in Worker, Work(w) PROVE PinInv'
  BY <1>3, PinCallPins, PinLockPins, PinSetPins, PinReadbackPins, UnpinPins, GoexitPins
     DEF Work, InPinSelf
<1>4. CASE UNCHANGED vars
  BY <1>4, NothingWritten DEF vars
<1> QED
  BY <1>1, <1>2, <1>3, <1>4 DEF Next

-----------------------------------------------------------------------------
(* The theorems                                                            *)

(* What a worker's pins hold on their thread, level by level.              *)
THEOREM PinInvariant == Spec => []PinInv
<1>1. Spec => [](AInv /\ PinInv)
  <2>1. Init => AInv /\ PinInv
    BY InitAInv, InitPinInv
  <2>2. AInv /\ PinInv /\ [Next]_vars => (AInv /\ PinInv)'
    BY NextAInv, NextPinInv
  <2> QED
    BY <2>1, <2>2, PTL DEF Spec
<1> QED
  BY <1>1, PTL

(* A Pin that returned without an error is in force until its Unpin, a     *)
(* nested Unpin gives it back, and nobody's failure disturbs it.           *)
LEMMA PinInvHolds == AInv /\ PinInv => PinHolds
<1> SUFFICES ASSUME AInv, PinInv, NEW w \in Worker, Pinned(w), on[w] \notin stale
             PROVE  mask[on[w]] = Want(Top(w))
  BY DEF PinHolds
<1>1. pc[w] = "idle" /\ depth[w] > 0 /\ locks[w] = depth[w]
  BY Counts DEF Pinned
<1>2. OwnStack(w)
  BY <1>1 DEF PinInv, Own
<1> QED
  BY <1>1, <1>2 DEF OwnStack, Level, Top

(* A pin holds until its Unpin, unless the kernel or a sweep wrote the     *)
(* thread's mask or a nested restore failed (pin_linux.go:20-23, 49-62).   *)
THEOREM PinsHold == Spec => []PinHolds
BY PinInvHolds, AffinityInvariant, PinInvariant, PTL

(* A thread goes back to the pool with the mask it was taken with, on      *)
(* every return path whose restore the kernel took.                        *)
THEOREM ThreadsComeBack == Spec => []PoolMaskRestored
<1>1. PinInv => PoolMaskRestored
  BY DEF PinInv
<1> QED
  BY <1>1, PinInvariant, PTL

(* Different thread indices of one role get cores of their own.            *)
LEMMA IndicesSeparate ==
    ASSUME NEW role \in RoleName, Plan[role].threads > 0,
           NEW i \in 0 .. Cardinality(Plan[role].cores) - 1,
           NEW j \in 0 .. Cardinality(Plan[role].cores) - 1, i # j
    PROVE  Target(role, i) \cap Target(role, j) = {}
<1> DEFINE n == Cardinality(Plan[role].cores)
<1>1. n \in Nat
  BY FS_CardinalityType, FS_Subset
<1>2. i % n = i /\ j % n = j
  BY <1>1
<1> QED
  BY <1>2 DEF Target

LEMMA OwnCoresFromPins == AInv /\ PinInv => OwnCores
<1> SUFFICES ASSUME AInv, PinInv, NEW v \in Worker, NEW w \in Worker,
                    Pinned(v), Pinned(w), {on[v], on[w]} \cap stale = {},
                    Top(v).role = Top(w).role, Top(v).idx # Top(w).idx,
                    {Top(v).idx, Top(w).idx}
                        \subseteq 0 .. Cardinality(Plan[Top(v).role].cores) - 1,
                    Plan[Top(v).role].threads > 0
             PROVE  mask[on[v]] \cap mask[on[w]] = {}
  BY DEF OwnCores
<1>1. mask[on[v]] = Want(Top(v)) /\ mask[on[w]] = Want(Top(w))
  BY PinInvHolds DEF PinHolds
<1>2. Top(v).role \in RoleName
  <2>1. depth[v] \in 1 .. MaxDepth /\ depth[v] <= InUse(v)
    BY Counts DEF Pinned
  <2> QED
    BY <2>1 DEF PinInv, Top
<1> QED
  BY <1>1, <1>2, IndicesSeparate DEF Want

(* Thread indices of a role below its number of cores do not share a core  *)
(* (plan.go:254-256, 264-274).                                             *)
THEOREM WorkersHaveOwnCores == Spec => []OwnCores
BY OwnCoresFromPins, AffinityInvariant, PinInvariant, PTL
=============================================================================
