----------------------------- MODULE Alignment ------------------------------
(***************************************************************************)
(* CheckAlignment, and then the steering of packets, as udpecho has it     *)
(* (example/udpecho/main.go:109-158): do the interrupts of an interface    *)
(* arrive on the reader cores, for which alone steering is local?          *)
(*                                                                         *)
(* The check reads one file per step.  smp_affinity_list files are texts   *)
(* in the sense of CPUSet; irqbalance may rewrite them at any time.  A     *)
(* line of /proc/interrupts is its label, a number or not, and whether     *)
(* one of its fields contains the interface's name.                        *)
(***************************************************************************)
EXTENDS Steering, CPUSet

CONSTANTS
    Irq,            \* the numbers of the interrupts
    Unreadable,     \* a file that is missing or masked
    Text,           \* what an smp_affinity_list may say
    Machine,        \* files that the check may find: <<host, affinity>>
    MaxChanges      \* bound: rewrites by irqbalance

NotNumber == -1

Line == [label: Irq \cup {NotNumber}, mentions: BOOLEAN]

(* The name is "lo"; the rx- queues; the device link; /proc/interrupts.    *)
Host == [lo: BOOLEAN, rx: Nat \cup {Unreadable}, device: BOOLEAN,
         interrupts: (SUBSET Line) \cup {Unreadable}]

ASSUME AlignmentAssumption ==
    /\ Irq \subseteq Nat /\ IsFiniteSet(Irq) /\ MaxChanges \in Nat
    /\ Text \subseteq Seq(Element) /\ Unreadable \notin Text \cup Seq(Int) \cup Nat
    /\ \A m \in Machine : m[1] \in Host /\ m[2] \in [Irq -> Text \cup {Unreadable}]

VARIABLES
    host, affinity,         \* the files; affinity[irq] is a text
    step, irqs, failed,     \* the check: next, IRQs still to read
    rep,                    \* the AlignmentReport, the findings by kind
    changes,
    seen                    \* history: what the check read of each IRQ

files  == <<host, affinity, changes>>
check  == <<step, irqs, failed, rep, seen>>
alignVars == <<files, check, vars>>

-----------------------------------------------------------------------------
(* parseInterruptsIRQs                                                     *)

Matched(lines) == {l.label : l \in {l \in lines : l.label # NotNumber /\ l.mentions}}

parseInterruptsIRQs(lines) == Sorted(SetToSeq(Matched(lines)))

-----------------------------------------------------------------------------
(* CheckAlignment                                                          *)

CheckStep(from, to) ==
    /\ step = from /\ step' = to
    /\ UNCHANGED <<files, vars>>

Finding(kind, when) == IF when THEN {kind} ELSE {}

Find(findings) == rep' = [rep EXCEPT !.Misaligned = @ \cup findings]

CountQueues ==
    /\ CheckStep("queues", "device")
    /\ rep' = [rep EXCEPT
          !.RSSQueues  = IF host.rx = Unreadable THEN @ ELSE host.rx,
          !.Misaligned = @ \cup Finding(IF host.rx = Unreadable THEN "no queues" ELSE "uneven",
                                         host.rx # Len(cores))]
    /\ UNCHANGED <<irqs, failed, seen>>

CheckDevice ==
    /\ CheckStep("device", "interrupts")
    /\ Find(Finding("virtual", ~host.device /\ ~host.lo))
    /\ UNCHANGED <<irqs, failed, seen>>

ReadInterrupts ==
    \/ /\ CheckStep("interrupts", "done") /\ host.interrupts = Unreadable
       /\ Find({"no interrupts"})
       /\ UNCHANGED <<irqs, failed, seen>>
    \/ /\ CheckStep("interrupts", "irqs") /\ host.interrupts # Unreadable
       /\ irqs' = parseInterruptsIRQs(host.interrupts)
       /\ Find(Finding("no match", irqs' = <<>>))
       /\ UNCHANGED <<failed, seen>>

(* Mutant: an unreadable list does not count.                              *)
Overlooked == failed

OneMoreFailed == failed + 1

ReadAffinity ==
    /\ CheckStep("irqs", "irqs") /\ irqs # <<>> /\ irqs' = Tail(irqs)
    /\ LET irq  == Head(irqs)
           text == affinity[irq]
           set  == IF text = Unreadable THEN ParseError ELSE ParseCPUSet(text)
       IN  /\ seen' = [seen EXCEPT ![irq] = text]
           /\ \/ /\ set = ParseError
                 /\ failed' = OneMoreFailed
                 /\ UNCHANGED rep
              \/ /\ set # ParseError
                 /\ rep' = [rep EXCEPT
                       !.IRQAffinity[irq] = set,
                       !.Misaligned       = @ \cup Finding("outside", Difference(set, cores) # <<>>)]
                 /\ UNCHANGED failed

EndOfIRQs ==
    /\ CheckStep("irqs", "done") /\ irqs = <<>>
    /\ Find(Finding("partial", failed > 0))
    /\ UNCHANGED <<irqs, failed, seen>>

Check == CountQueues \/ CheckDevice \/ ReadInterrupts \/ ReadAffinity \/ EndOfIRQs

-----------------------------------------------------------------------------
(* irqbalance, or an administrator, rewrites a list.                       *)
AffinityChange ==
    /\ changes < MaxChanges /\ changes' = changes + 1
    /\ \E irq \in Irq, text \in Text : affinity' = [affinity EXCEPT ![irq] = text]
    /\ UNCHANGED <<host, check, vars>>

AlignInit ==
    /\ Init
    /\ \E m \in Machine : host = m[1] /\ affinity = m[2]
    /\ step = "queues" /\ irqs = <<>> /\ failed = 0 /\ changes = 0
    /\ rep = [RSSQueues |-> 0, Misaligned |-> {},
              IRQAffinity |-> [irq \in Irq |-> Unreadable]]
    /\ seen = [irq \in Irq |-> Unreadable]

AlignNext ==
    \/ Check \/ AffinityChange
    \/ step = "done" /\ Next /\ UNCHANGED <<files, check>>

AlignSpec == AlignInit /\ [][AlignNext]_alignVars
=============================================================================
