----------------------------- MODULE MCAffinity -----------------------------
(***************************************************************************)
(* Affinity with a plan of three roles on four cores: two reader threads   *)
(* with a core each, a housekeeping role, and a set-pinned role that       *)
(* shares the housekeeping core and has one more.                          *)
(***************************************************************************)
EXTENDS AffinityProperties, TLC

CONSTANTS readers, house, log, t1, t2, t3, w1, w2

MCCore == 0 .. 3
Entry(r) ==
    CASE r = readers -> [cores |-> {1, 2}, threads |-> 2, exclusive |-> TRUE]
      [] r = house   -> [cores |-> {0}, threads |-> 0, exclusive |-> FALSE]
      [] r = log     -> [cores |-> {0, 3}, threads |-> 0, exclusive |-> FALSE]

MCPlan == [r \in {readers, house, log} |-> Entry(r)]

(* The second cpuset refuses one reader and narrows the set-pinned role.   *)
MCCpusets == {0 .. 3, {0, 2}}

Symmetry == Permutations({t1, t2, t3}) \cup Permutations({w1, w2})
=============================================================================
