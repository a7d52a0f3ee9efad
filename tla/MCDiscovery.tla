---------------------------- MODULE MCDiscovery -----------------------------
(***************************************************************************)
(* Discovery two directories deep: every combination of cpuset files under *)
(* no quota, and every content of one quota file under one cpuset.         *)
(***************************************************************************)
EXTENDS DiscoveryProperties

MCCore == 0 .. 3
MCBoot == 0 .. 2

(* No list; a list outside the boot mask; one wider than it.               *)
MCCpusetFile == {{}, {3}, 0 .. 3}

(* In half CPUs: less than one, and more than two, CPUs.                   *)
MCQuota == {1, 5}

NoLimit == [s \in QuotaSrc |-> [d \in Level |-> Unlimited]]
Wide    == [s \in Source |-> [d \in Level |-> 0 .. 3]]

(* The walk of one quota file decides, or finds nothing for the other.     *)
OneQuota == {q \in QuotaTree : \E s \in QuotaSrc : \A d \in Level : q[s][d] = NoFile}

(* A list outside the boot mask is tried in the first two sources only.    *)
Cpusets == {c \in CpusetTree : \A d \in Level : c["v1cpus"][d] # {3}}

MCTree == (Cpusets \X {NoLimit}) \cup ({Wide} \X OneQuota)

(* On the unified hierarchy, on v1, on both, or nowhere readable.          *)
MCMembership ==
    {[readable |-> TRUE, v2 |-> Depth, cpuset |-> None, cpu |-> None],
     [readable |-> TRUE, v2 |-> None, cpuset |-> Depth, cpu |-> Depth],
     [readable |-> TRUE, v2 |-> Depth, cpuset |-> Depth, cpu |-> Depth],
     [readable |-> TRUE, v2 |-> Outside, cpuset |-> Outside, cpu |-> 0],
     [readable |-> FALSE, v2 |-> Depth, cpuset |-> Depth, cpu |-> Depth]}
=============================================================================
