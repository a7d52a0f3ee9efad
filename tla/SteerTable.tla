----------------------------- MODULE SteerTable -----------------------------
(***************************************************************************)
(* What SteerReuseport promises (steer.go:25-34, steer_linux.go:12-15): a  *)
(* packet is looked up in the map, in one step.                            *)
(***************************************************************************)
EXTENDS SteerMap

CONSTANT CPU

VARIABLES
    cores,      \* the reader cores, fixed when the program is attached
    cpu,        \* the CPU of the packet that is looked up
    verdict     \* its socket, or NoVerdict

vars == <<cores, cpu, verdict>>

LookUp ==
    /\ verdict = NoVerdict /\ verdict' = SteeredTo(cores, cpu)
    /\ UNCHANGED <<cores, cpu>>

Receive ==
    /\ verdict # NoVerdict /\ verdict' = NoVerdict
    /\ cpu' \in CPU
    /\ UNCHANGED cores

Init == cores \in Lists(CPU) /\ cpu \in CPU /\ verdict = NoVerdict

Next == LookUp \/ Receive

Spec == Init /\ [][Next]_vars
=============================================================================
