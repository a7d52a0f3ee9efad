------------------------------ MODULE CPUSet -------------------------------
(***************************************************************************)
(* cpuset.go: a set of cores as the ascending list of its members, and the *)
(* kernel's list syntax.  The lists that enter an operation are as the     *)
(* code has them, and Contains searches by halves: an operation is right   *)
(* only if those before it left their lists in order.                      *)
(*                                                                         *)
(* A text is the sequence of its elements between commas, an element the   *)
(* one or two numbers around its first dash, <<>> if it is blank.  Junk is *)
(* what Atoi refuses.  The text "" is <<>>.                                *)
(***************************************************************************)
EXTENDS Integers, Sequences, SequencesExt

Junk == -1

(* What ParseCPUSet returns beside an error.                               *)
ParseError == <<Junk>>

(* What is between two commas.                                             *)
Element == {e \in Seq(Nat \cup {Junk}) : Len(e) <= 2}

(* A list is a set's: in order, without duplicates, with its members.      *)
Is(list, set) ==
    /\ ToSet(list) = set
    /\ \A i, j \in DOMAIN list : i < j => list[i] < list[j]

(* sort.Ints, for a list without duplicates: at place k the core that has  *)
(* k - 1 smaller ones.                                                     *)
Sorted(list) ==
    [k \in 1 .. Len(list) |->
        CHOOSE c \in ToSet(list) : Cardinality({d \in ToSet(list) : d < c}) = k - 1]

(* NewCPUSet without its sort, and a mutant of it.                         *)
Deduplicated(cores) ==
    FoldLeft(LAMBDA out, c : IF Contains(out, c) THEN out ELSE Append(out, c), <<>>, cores)

NewCPUSet(cores) == Sorted(Deduplicated(cores))

-----------------------------------------------------------------------------
(* sort.SearchInts: the first place of a core that is not smaller.         *)
SearchInts(s, core) ==
    LET n == Len(s) + 1
        from[r \in (1 .. n) \X (1 .. n)] ==
            LET half == (r[1] + r[2]) \div 2
            IN  IF r[1] >= r[2] THEN r[1] ELSE
                IF s[half] < core THEN from[<<half + 1, r[2]>>] ELSE from[<<r[1], half>>]
    IN  from[<<1, n>>]

Has(s, core) ==
    LET i == SearchInts(s, core)
    IN  i <= Len(s) /\ s[i] = core

Intersect(s, o) ==
    FoldLeft(LAMBDA out, c : IF Has(o, c) THEN Append(out, c) ELSE out, <<>>, s)

Difference(s, o) ==
    FoldLeft(LAMBDA out, c : IF Has(o, c) THEN out ELSE Append(out, c), <<>>, s)

Union(s, o) == NewCPUSet(s \o o)

Equal(s, o) == Len(s) = Len(o) /\ \A i \in DOMAIN s : s[i] = o[i]

-----------------------------------------------------------------------------
(* The runs of consecutive cores, each an element of the text.             *)
String(s) ==
    LET Grow(runs, c) ==
            IF runs # <<>> /\ Last(Last(runs)) + 1 = c
            THEN Append(Front(runs), <<Head(Last(runs)), c>>)
            ELSE Append(runs, <<c>>)
    IN  FoldLeft(Grow, <<>>, s)

(* ParseCPUSet refuses the whole list for one element.                     *)
Refused(element) ==
    \/ element = <<>>
    \/ Head(element) = Junk
    \/ Len(element) = 2 /\ (element[2] = Junk \/ element[2] < element[1])

Members(element) == [k \in 1 .. Last(element) - Head(element) + 1 |-> Head(element) + k - 1]

ParseCPUSet(text) ==
    IF \E k \in DOMAIN text : Refused(text[k]) THEN ParseError
    ELSE NewCPUSet(FoldLeft(LAMBDA cores, e : cores \o Members(e), <<>>, text))
=============================================================================
