------------------------ MODULE DiscoveryProperties -------------------------
(***************************************************************************)
(* What discovery promises, stated over Discovery.                         *)
(***************************************************************************)
EXTENDS Discovery

(* Every variable stays in its type, and a walk is always somewhere.       *)
TypeOK ==
    /\ self \in Membership /\ cpusets \in CpusetTree /\ quotas \in QuotaTree
    /\ changes \in 0 .. MaxChanges
    /\ pc \in {"self", "cpuset", "quota self", "quota", "target", "done"}
    /\ src \in Source \cup QuotaSrc \cup {"none"}
    /\ dir \in Place
    /\ pc \in {"cpuset", "quota"} => dir \in Level \cup {Outside}
    /\ avail \subseteq BootMask /\ quota \in QuotaFile \ {NoFile} /\ target \in Nat

(* A walk climbs from the directory where /proc/self/cgroup puts the       *)
(* process, at or below it and never above the root of the mount.  Only a  *)
(* process whose own path lies outside the mount is looked for there: the  *)
(* code reads that one directory before it compares the path with the      *)
(* mount's (discover_linux.go:99-107, 122-129, 135-144).                   *)
OnPath ==
    /\ StartOf(src) # None
    /\ dir \in Level => StartOf(src) \in Level /\ dir <= StartOf(src)
    /\ dir = Outside => StartOf(src) = Outside

WalkPlace ==
    /\ pc = "cpuset" => src \in Source /\ self.readable /\ OnPath
    /\ pc = "quota"  => src \in QuotaSrc /\ OnPath

TypeInv == TypeOK /\ WalkPlace

Found == pc \in {"quota self", "quota", "target", "done"}

(* Available answers with the cpuset in force: v2 before v1, the v1        *)
(* effective list before the configured one, and in each hierarchy the     *)
(* innermost directory that holds a list, within the boot mask; the boot   *)
(* mask when there is none (discover_linux.go:57-72).  When a file changes *)
(* under the walk, the answer was right at some moment of it.  Two changes *)
(* can defeat that: a list that appears behind the walk, and then another  *)
(* one ahead of it, which the walk returns.                                *)
AvailableWasRight == Found /\ changes <= 1 => avail \in right

(* The target never exceeds the cores or the quota that the two calls      *)
(* found, whatever changed between them, except for the floor of 1, and    *)
(* leaves no core and no whole CPU of the quota unused (maxprocs.go:5-6).  *)
TargetIsTheMinimum ==
    pc = "done" =>
        /\ target >= 1
        /\ target > 1 => target <= Cardinality(avail)
        /\ target > 1 /\ quota \in Quota => target * Unit <= quota
        /\ target < Cardinality(avail) =>
              quota \in Quota /\ (target + 1) * Unit > quota

(* A walk ends, wherever /proc/self/cgroup points and whatever it reads.   *)
WalkEnds == <>(pc = "done")

-----------------------------------------------------------------------------
(* "QuotaCPUs returns the cgroup CPU quota in fractional CPUs. ok=false    *)
(* when unlimited" (discover_linux.go:112-113): it is not larger than the  *)
(* bandwidth of any cgroup v2 directory the process is in, every one of    *)
(* which limits it.                                                        *)
QuotaIsTheLimit ==
    /\ pc = "done" /\ changes = 0 /\ self.readable /\ self.cpu = None
    /\ quota # Malformed
    =>
        \A d \in Level :
            d <= self.v2 /\ quotas["cpu.max"][d] \in Quota =>
                quota \in Quota /\ quota <= quotas["cpu.max"][d]
=============================================================================
