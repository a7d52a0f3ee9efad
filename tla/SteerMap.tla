------------------------------ MODULE SteerMap ------------------------------
(***************************************************************************)
(* The map from CPUs to sockets that steering is about, as an operator:    *)
(* what a whole run of the program computes.  SteerTable states it as a    *)
(* specification that Steering implements, and Echo relies on it.          *)
(***************************************************************************)
EXTENDS Integers, Sequences, FiniteSets

NoVerdict == -1

(* The lists of non-empty sets of cores: ascending, without duplicates.    *)
Lists(S) == {list \in UNION {[1 .. n -> S] : n \in 1 .. Cardinality(S)} :
                \A i, j \in DOMAIN list : i < j => list[i] < list[j]}

(* A reader core's packets go to the socket of its index; the rest are     *)
(* spread.                                                                 *)
SteeredTo(list, c) ==
    IF \E i \in DOMAIN list : list[i] = c
    THEN (CHOOSE i \in DOMAIN list : list[i] = c) - 1
    ELSE c % Len(list)
=============================================================================
