----------------------------- MODULE MCPlanner -----------------------------
(***************************************************************************)
(* Planner on a four-core machine (one core more exists but is not         *)
(* available) with up to three roles.                                      *)
(***************************************************************************)
EXTENDS PlannerProperties

CONSTANTS a, b, c

MCCore == 0 .. 4

(* Shapes of a role: automatic ones, explicit ones that overlap in every   *)
(* way three lists can, and housekeeping ones.                             *)
Shape(threads, lists, hk) ==
    [threads: threads, cores: lists, exclusive: BOOLEAN, housekeeping: hk]

Shapes ==
    Shape({1, 2, 3}, {{}}, {FALSE})
        \cup Shape({0}, {{0}, {1, 2}}, {FALSE})
        \cup Shape({0, 1}, {{}}, {TRUE})
        \cup Shape({2}, {{2}}, {TRUE})

Named(name, shape) ==
    [name |-> name, threads |-> shape.threads, cores |-> shape.cores,
     exclusive |-> shape.exclusive, housekeeping |-> shape.housekeeping]

OneHousekeeper(roles) ==
    \A k, l \in DOMAIN roles : roles[k].housekeeping /\ roles[l].housekeeping => k = l

WellFormed ==
    {roles \in {<<Named(a, s)>> : s \in Shapes}
        \cup {<<Named(a, s), Named(b, t)>> : s, t \in Shapes}
        \cup {<<Named(a, s), Named(b, t), Named(c, u)>> : s, t, u \in Shapes} :
            OneHousekeeper(roles)}

(* One Spec for every error of the validation pass, and one whose explicit *)
(* list leaves the available cores.                                        *)
Auto1 == [threads |-> 1, cores |-> {}, exclusive |-> FALSE, housekeeping |-> FALSE]
House == [Auto1 EXCEPT !.threads = 0, !.housekeeping = TRUE]

Rejected ==
    { <<>>,
      <<Named(NoName, Auto1)>>,
      <<Named(a, Auto1), Named(a, Auto1)>>,
      <<Named(a, [Auto1 EXCEPT !.threads = -1])>>,
      <<Named(a, House), Named(b, House)>>,
      <<Named(a, [Auto1 EXCEPT !.threads = 0])>>,
      <<Named(b, Auto1), Named(a, [Auto1 EXCEPT !.cores = {0, 4}])>> }

Siblings2(x, y) ==
    [core \in MCCore |-> IF core \in x THEN x \ {core} ELSE
                           IF core \in y THEN y \ {core} ELSE {}]

(* Sibling maps: hyperthreads numbered in pairs, hyperthreads numbered     *)
(* half a machine apart, four threads on one core, a map with the entry of *)
(* core 0 unread, and none.                                                *)
Paired  == Siblings2({0, 1}, {2, 3})
Halves  == Siblings2({0, 2}, {1, 3})
Quad    == Siblings2({0, 1, 2, 3}, {})
Unread  == [Paired EXCEPT ![0] = {}]
NoSMT   == Siblings2({}, {})

Machine(cores, map) == [available |-> cores, siblings |-> map]

Machines == {Machine(0 .. 3, Paired), Machine(0 .. 3, Halves),
             Machine({0, 1, 2}, Unread), Machine(1 .. 3, Quad), Machine({}, NoSMT)}

MCInputs ==
    {[roles |-> roles, allowOverlap |-> overlap,
      available |-> m.available, siblings |-> m.siblings] :
        roles \in WellFormed \cup Rejected, overlap \in BOOLEAN, m \in Machines}
=============================================================================
