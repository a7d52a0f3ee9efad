----------------------------- MODULE MCSteering -----------------------------
(***************************************************************************)
(* Every set of reader cores among four CPUs, with a gap in their numbers, *)
(* on machines whose interface has two interrupts.                         *)
(***************************************************************************)
EXTENDS AlignmentProperties

MCCPU == {0, 1, 2, 5}
MCIrq == {24, 25}

(* Nothing, "0-1", "0-2", "5,1", no number, a range upside down.           *)
MCText == {<<>>, <<<<0, 1>>>>, <<<<0, 2>>>>, <<<<5>>, <<1>>>>, <<<<Junk>>>>, <<<<3, 2>>>>}

MCLines == {[label |-> 24, mentions |-> TRUE], [label |-> 25, mentions |-> TRUE],
            [label |-> NotNumber, mentions |-> TRUE]}

Nic == [lo |-> FALSE, rx |-> 2, device |-> TRUE, interrupts |-> MCLines]

(* A network card, and one file of it that is missing or says otherwise.   *)
MCHosts == {Nic, [Nic EXCEPT !.rx = Unreadable], [Nic EXCEPT !.device = FALSE],
            [Nic EXCEPT !.lo = TRUE, !.device = FALSE],
            [Nic EXCEPT !.interrupts = Unreadable],
            [Nic EXCEPT !.interrupts = {[label |-> 24, mentions |-> FALSE]}]}

Steady == [irq \in MCIrq |-> <<<<0, 1>>>>]

MCMachine == (MCHosts \X {Steady})
        \cup ({Nic} \X [MCIrq -> MCText \cup {Unreadable}])
=============================================================================
