------------------------------- MODULE MCEcho -------------------------------
(* Two readers on two of three CPUs, such that a core's index and its      *)
(* number modulo the list's length disagree for both.                      *)
EXTENDS EchoProperties

MCCPU == 0 .. 2
MCCoreLists == {<<1, 2>>}

(* The full arm of a benchmark, and the baseline as -pin=false leaves it.  *)
MCFlags == {[pin |-> TRUE,  steer |-> TRUE, cpustats |-> TRUE],
            [pin |-> FALSE, steer |-> TRUE, cpustats |-> FALSE]}
=============================================================================
