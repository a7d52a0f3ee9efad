------------------------ MODULE AlignmentProperties -------------------------
(***************************************************************************)
(* What CheckAlignment's silence is worth, and the operations on core sets *)
(* that it and steering rely on.                                           *)
(***************************************************************************)
EXTENDS Alignment

(* The cores that the kernel means by a text.                              *)
Denoted(text) ==
    IF text = Unreadable THEN {} ELSE
    UNION {Head(text[k]) .. Last(text[k]) : k \in DOMAIN text}

(* A report without findings means that pinning and interrupts agree       *)
(* (diag.go:9-11): a packet of an interrupt that the check matched and     *)
(* that nobody has moved since goes to the socket of the reader on the     *)
(* packet's own core.  Every masked or malformed file ends the silence.    *)
SilentMeansLocal ==
    step = "done" /\ rep.Misaligned = {} =>
        /\ Matched(host.interrupts) # {} /\ rep.RSSQueues = Len(cores)
        /\ \A irq \in Matched(host.interrupts) :
              /\ rep.IRQAffinity[irq] # Unreadable
              /\ affinity[irq] = seen[irq] /\ cpu \in Denoted(seen[irq]) /\ verdict # NoVerdict
                    => cores[verdict + 1] = cpu

(* The operations on core lists are those on sets, their results are in    *)
(* order again, Equal compares what the sets contain, and a set is what    *)
(* its own text parses to, in any order and repeated (cpuset.go:10-12,     *)
(* 17, 123).                                                               *)
CoreSetsAreSets ==
    step = "queues" =>
        /\ ParseCPUSet(String(cores)) = cores
        /\ ParseCPUSet(Reverse(String(cores)) \o String(cores)) = cores
        /\ \A o \in Lists(CPU) \cup {<<>>} :
              LET left == ToSet(cores)  right == ToSet(o)
              IN  /\ Is(Intersect(cores, o), left \cap right)
                  /\ Is(Difference(cores, o), left \ right)
                  /\ Is(Union(cores, o), left \cup right)
                  /\ Equal(cores, o) <=> left = right

-----------------------------------------------------------------------------
(* Why: the inductive invariant.  As long as nothing was found, every      *)
(* interrupt but those still to read was read, and what it was read to say *)
(* lies within the reader cores.                                           *)
Kinds == {"no queues", "uneven", "virtual", "no interrupts", "no match", "outside", "partial"}

Report == [RSSQueues : Nat, Misaligned : SUBSET Kinds,
           IRQAffinity : [Irq -> Seq(Int) \cup {Unreadable}]]

AlignTypes ==
    /\ host \in Host
    /\ affinity \in [Irq -> Text \cup {Unreadable}] /\ seen \in [Irq -> Text \cup {Unreadable}]
    /\ step \in {"queues", "device", "interrupts", "irqs", "done"}
    /\ irqs \in Seq(Irq) /\ failed \in Nat
    /\ rep \in Report

Agrees(irq) ==
    /\ seen[irq] # Unreadable /\ ParseCPUSet(seen[irq]) # ParseError
    /\ rep.IRQAffinity[irq] = ParseCPUSet(seen[irq])
    /\ Difference(ParseCPUSet(seen[irq]), cores) = <<>>

ReadSofar ==
    /\ step = "irqs" => host.interrupts # Unreadable /\ ToSet(irqs) \subseteq Matched(host.interrupts)
    /\ rep.Misaligned = {} =>
          /\ step # "queues" => rep.RSSQueues = Len(cores)
          /\ step \in {"irqs", "done"} =>
                /\ host.interrupts # Unreadable /\ Matched(host.interrupts) # {}
                /\ failed = 0 => \A irq \in Matched(host.interrupts) \ ToSet(irqs) : Agrees(irq)
          /\ step = "done" => irqs = <<>> /\ failed = 0

AlignInv == AlignTypes /\ ReadSofar
=============================================================================
