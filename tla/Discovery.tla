----------------------------- MODULE Discovery ------------------------------
(***************************************************************************)
(* What a process may use: the cgroup walks of discover_linux.go, the      *)
(* parsers of discover.go they rely on, and the GOMAXPROCS target.         *)
(*                                                                         *)
(* A walk reads one file of a directory per step, from the process's own   *)
(* cgroup up to the root of the mount, and the files may change between    *)
(* two reads.  A directory is its distance from the root.  The contents of *)
(* a cpuset file are the set they parse to; {} stands for whatever the     *)
(* walk passes over: no such file, no permission, an unparsable or an      *)
(* empty list.  A quota is in units of 1 / Unit CPU.                       *)
(***************************************************************************)
EXTENDS Integers, FiniteSets

CONSTANTS
    Core, BootMask,     \* all cores; the mask captured by init()
    Depth,              \* bound: depth of the cgroup below the mount root
    CpusetFile,         \* sets that a cpuset file may hold
    Quota, Unit,        \* bandwidths that a quota file may hold, as parsed
    Membership,         \* what /proc/self/cgroup may say
    Tree,               \* the files a call may find: <<cpusets, quotas>>
    MaxChanges          \* bound: changes of files during one call

Level    == 0 .. Depth
Source   == {"effective", "v1effective", "v1cpus"}  \* in the order tried
QuotaSrc == {"cpu.max", "cfs"}

(* A parsed quota file, or why there is no number: no file, "max" or -1,   *)
(* or a parse error.                                                       *)
NoFile    == -1
Unlimited == -2
Malformed == -3
QuotaFile == Quota \cup {NoFile, Unlimited, Malformed}

(* Where /proc/self/cgroup puts the process in a hierarchy: nowhere, in a  *)
(* directory below the mount, or, seen from inside another cgroup          *)
(* namespace, outside it.                                                  *)
None    == -1
Outside == -2
Place   == Level \cup {None, Outside}

(* cgroupPaths: v2 is the "0::" line, cpuset and cpu are v1 controllers.   *)
cgroupPaths == [readable: BOOLEAN, v2: Place, cpuset: Place, cpu: Place]

CpusetTree == [Source -> [Level -> CpusetFile]]
QuotaTree  == [QuotaSrc -> [Level -> QuotaFile]]

ASSUME DiscoveryAssumption ==
    /\ Membership \subseteq cgroupPaths /\ Tree \subseteq CpusetTree \X QuotaTree
    /\ Core \subseteq Nat /\ BootMask \subseteq Core /\ IsFiniteSet(BootMask)
    /\ Depth \in Nat /\ CpusetFile \subseteq SUBSET Core /\ {} \in CpusetFile
    /\ Quota \subseteq Nat /\ Unit \in Nat \ {0} /\ MaxChanges \in Nat

VARIABLES
    self,       \* /proc/self/cgroup as cgroupPaths parses it
    cpusets,    \* source -> directory -> contents
    quotas,     \* quota source -> directory -> contents
    changes,
    pc, src, dir,           \* the walk: what it reads next
    avail, quota, target,   \* what the calls returned
    right                   \* history: see FileChange

files == <<self, cpusets, quotas, changes, right>>
vars  == <<files, pc, src, dir, avail, quota, target>>


-----------------------------------------------------------------------------
(* Available: effectiveCgroupCpuset and readCpusetUpward                   *)

StartOf(s) ==
    CASE s \in {"effective", "cpu.max"}   -> self.v2
      [] s \in {"v1effective", "v1cpus"}  -> self.cpuset
      [] s = "cfs"                        -> self.cpu

(* Mutant: the cgroup's cpuset is not intersected with the boot mask.      *)
AnyCore(set) == avail' = set

Intersected(set) == avail' = set \cap BootMask

EnterQuota == pc' = "quota self" /\ UNCHANGED <<src, dir, quota, target>>

(* The next source in order that the process has a path for, or the boot   *)
(* mask alone.                                                             *)
Enter(s) ==
    /\ pc' = "cpuset" /\ src' = s /\ dir' = StartOf(s)
    /\ UNCHANGED <<avail, quota, target>>

FallBack == avail' = BootMask /\ EnterQuota

After(s) ==
    CASE s = "effective"   -> IF self.cpuset # None THEN Enter("v1effective") ELSE FallBack
      [] s = "v1effective" -> Enter("v1cpus")
      [] s = "v1cpus"      -> FallBack

ReadSelfForCpuset ==
    /\ pc = "self"
    /\ \/ ~self.readable /\ FallBack
       \/ self.readable /\ self.v2 # None /\ Enter("effective")
       \/ self.readable /\ self.v2 = None /\ After("effective")
    /\ UNCHANGED files

(* Mutant: only the mount root ends a walk.                                *)
AtRoot == dir = 0

(* Mutant: the root of the mount does not end a walk.                      *)
AboveRoot == dir = Outside

AtStop == dir \in {0, Outside}

(* Above the root of the mount nothing is the mount's any more.            *)
Parent == IF dir \in {0, Outside} THEN Outside ELSE dir - 1

(* Mutant: the walk reads nothing but the root's file.                     *)
RootContents == IF dir = 0 THEN cpusets[src][dir] ELSE {}

(* What a read of the current directory yields; outside the mount there is *)
(* no such file.                                                           *)
Contents == IF dir \in Level THEN cpusets[src][dir] ELSE {}

ReadCpuset ==
    /\ pc = "cpuset"
    /\ \/ Contents # {} /\ Intersected(Contents) /\ EnterQuota
       \/ Contents = {} /\ AtStop /\ After(src)
       \/ /\ Contents = {} /\ ~AtStop
          /\ dir' = Parent
          /\ UNCHANGED <<pc, src, avail, quota, target>>
    /\ UNCHANGED files

-----------------------------------------------------------------------------
(* QuotaCPUs, parseCPUMax and parseCFSQuota                                *)

Answer(q) == quota' = q /\ pc' = "target" /\ UNCHANGED <<src, dir, avail, target>>

EnterQuotaWalk(s) ==
    /\ pc' = "quota" /\ src' = s /\ dir' = StartOf(s)
    /\ UNCHANGED <<avail, quota, target>>

AfterQuota(s) ==
    IF s = "cpu.max" /\ self.cpu # None THEN EnterQuotaWalk("cfs") ELSE Answer(Unlimited)

ReadSelfForQuota ==
    /\ pc = "quota self"
    /\ \/ ~self.readable /\ Answer(Unlimited)
       \/ self.readable /\ self.v2 # None /\ EnterQuotaWalk("cpu.max")
       \/ self.readable /\ self.v2 = None /\ AfterQuota("cpu.max")
    /\ UNCHANGED files

QuotaContents == IF dir \in Level THEN quotas[src][dir] ELSE NoFile

PassesOver == QuotaContents = NoFile

(* The first readable file answers, whatever it says.                      *)
ReadQuota ==
    /\ pc = "quota"
    /\ \/ ~PassesOver /\ Answer(QuotaContents)
       \/ PassesOver /\ AtStop /\ AfterQuota(src)
       \/ /\ PassesOver /\ ~AtStop
          /\ dir' = Parent
          /\ UNCHANGED <<pc, src, avail, quota, target>>
    /\ UNCHANGED files

-----------------------------------------------------------------------------
(* gomaxprocsTarget and readSiblings                                       *)

(* Mutant: the quota is rounded up.                                        *)
RoundedUp(q) == (q + Unit - 1) \div Unit

Rounded(q) == q \div Unit               \* int(q)

gomaxprocsTarget ==
    LET size == Cardinality(avail)
        n    == IF quota \in Quota /\ Rounded(quota) < size THEN Rounded(quota) ELSE size
    IN  IF n < 1 THEN 1 ELSE n

Compute ==
    /\ pc = "target"
    /\ target' = gomaxprocsTarget /\ pc' = "done"
    /\ UNCHANGED <<files, src, dir, avail, quota>>

Call == ReadSelfForCpuset \/ ReadCpuset \/ ReadSelfForQuota \/ ReadQuota \/ Compute

-----------------------------------------------------------------------------
(* Changes of the files, and what the process is allowed                   *)

(* The set that the files c put in force in a hierarchy: the innermost one.*)
InForce(c, s) ==
    LET held == {d \in Level : d <= StartOf(s) /\ c[s][d] # {}}
    IN  IF held = {} THEN {} ELSE c[s][CHOOSE d \in held : \A e \in held : e <= d]

(* The answer Available should give, going by the files c.                 *)
Allowed(c) ==
    LET listed == IF InForce(c, "effective") # {} THEN InForce(c, "effective")
                  ELSE IF InForce(c, "v1effective") # {} THEN InForce(c, "v1effective")
                  ELSE InForce(c, "v1cpus")
    IN  IF self.readable /\ listed # {} THEN listed \cap BootMask ELSE BootMask

(* A file is rewritten, appears or vanishes, by the container's manager;   *)
(* right collects the answers that were right at some moment of the walk.  *)
FileChange ==
    /\ pc # "done" /\ changes < MaxChanges /\ changes' = changes + 1
    /\ \/ /\ \E s \in Source, d \in Level, set \in CpusetFile :
                cpusets' = [cpusets EXCEPT ![s][d] = set]
          /\ UNCHANGED quotas
       \/ /\ \E s \in QuotaSrc, d \in Level, q \in QuotaFile :
                quotas' = [quotas EXCEPT ![s][d] = q]
          /\ UNCHANGED cpusets
    /\ UNCHANGED <<self, pc, src, dir, avail, quota, target>>
    /\ right' = IF pc \in {"self", "cpuset"} THEN right \cup {Allowed(cpusets')} ELSE right

Init ==
    /\ self \in Membership
    /\ \E tree \in Tree : cpusets = tree[1] /\ quotas = tree[2]
    /\ changes = 0 /\ right = {Allowed(cpusets)}
    /\ pc = "self" /\ src = "none" /\ dir = None
    /\ avail = {} /\ quota = Unlimited /\ target = 0

Next == Call \/ FileChange

Spec == Init /\ [][Next]_vars /\ WF_vars(Call)
=============================================================================
