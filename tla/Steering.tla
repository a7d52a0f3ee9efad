------------------------------ MODULE Steering ------------------------------
(***************************************************************************)
(* SteerReuseport: the classic-BPF program of steer.go, which the kernel   *)
(* runs once for every packet to choose the socket of a SO_REUSEPORT       *)
(* group.  The program is data; a step is one instruction of one run.      *)
(*                                                                         *)
(* An instruction is a record of steer.go's bpfInsn.  Core ids and socket  *)
(* indices are far below 2^32, so no K wraps.                              *)
(***************************************************************************)
EXTENDS SteerMap

CONSTANT CPU            \* the machine's CPUs

ASSUME CPUAssumption == CPU \subseteq Nat /\ IsFiniteSet(CPU) /\ CPU # {}

VARIABLES
    cores,      \* readerCores.List(): ascending, without duplicates
    cpu,        \* the CPU that the packet was received on (SKF_AD_CPU)
    ip, acc,    \* next instruction, accumulator
    verdict     \* index of the chosen socket, or NoVerdict

vars == <<cores, cpu, ip, acc, verdict>>

-----------------------------------------------------------------------------
(* buildSteerProgram                                                       *)

bpfInsn(code, jt, jf, k) == [Code |-> code, Jt |-> jt, Jf |-> jf, K |-> k]

(* Mutant: the jump on a difference skips nothing.                         *)
NotSkipping(c) == bpfInsn("jeq k", 0, 0, c)

(* Equal: fall into the return; else skip it.                              *)
Compare(c) == bpfInsn("jeq k", 0, 1, c)

(* One pair of instructions per reader core, in index order.               *)
PairAt(p) ==
    IF p % 2 = 0 THEN Compare(cores[p \div 2])
                 ELSE bpfInsn("ret k", 0, 0, (p \div 2) - 1)

(* Mutant: the fallthrough counts one socket too many.                     *)
OneMore == Len(cores) + 1

Spread == Len(cores)

ProgramLength == 2 * Len(cores) + 3

buildSteerProgram ==
    [p \in 1 .. ProgramLength |->
        CASE p = 1                 -> bpfInsn("ld cpu", 0, 0, 0)
          [] p = ProgramLength - 1 -> bpfInsn("mod k", 0, 0, Spread)
          [] p = ProgramLength     -> bpfInsn("ret a", 0, 0, 0)
          [] OTHER                 -> PairAt(p)]

-----------------------------------------------------------------------------
(* The kernel's run of the program                                         *)

Insn == buildSteerProgram[ip]

Running(code) == verdict = NoVerdict /\ Insn.Code = code /\ UNCHANGED <<cores, cpu>>

LdAbsW == /\ Running("ld cpu")
          /\ acc' = cpu /\ ip' = ip + 1
          /\ UNCHANGED verdict

JeqK == /\ Running("jeq k")
        /\ ip' = ip + 1 + (IF acc = Insn.K THEN Insn.Jt ELSE Insn.Jf)
        /\ UNCHANGED <<acc, verdict>>

ModK == /\ Running("mod k")
        /\ acc' = acc % Insn.K /\ ip' = ip + 1
        /\ UNCHANGED verdict

RetK == Running("ret k") /\ verdict' = Insn.K /\ UNCHANGED <<ip, acc>>
RetA == Running("ret a") /\ verdict' = acc /\ UNCHANGED <<ip, acc>>

Run == LdAbsW \/ JeqK \/ ModK \/ RetK \/ RetA

(* The next packet, on any CPU: a run starts afresh.                       *)
Receive ==
    /\ verdict # NoVerdict
    /\ cpu' \in CPU
    /\ ip' = 1 /\ acc' = 0 /\ verdict' = NoVerdict
    /\ UNCHANGED cores

(* SteerReuseport refuses an empty set of reader cores.                    *)
Init ==
    /\ cores \in Lists(CPU)
    /\ cpu \in CPU
    /\ ip = 1 /\ acc = 0 /\ verdict = NoVerdict

Next == Run \/ Receive

Spec == Init /\ [][Next]_vars

(* The registers are the program's own; what is left is the table's.       *)
Table == INSTANCE SteerTable
         WITH CPU <- CPU, cores <- cores, cpu <- cpu, verdict <- verdict

-----------------------------------------------------------------------------
(* Every step stays inside the program: no run falls off its end.          *)
TypeOK ==
    /\ cores \in Lists(CPU) /\ cpu \in CPU
    /\ ip \in 1 .. ProgramLength
    /\ acc \in Nat
    /\ verdict \in 0 .. Len(cores) - 1 \cup {NoVerdict}

(* The socket of a packet that no reader core received.                    *)
Elsewhere == cpu % Len(cores)

(* A packet received on the i-th reader core goes to the i-th socket, on   *)
(* any other CPU to some socket of the group, spread by the CPU's number   *)
(* (steer.go:25-34, steer_linux.go:12-15).                                 *)
SteersToIndex ==
    verdict # NoVerdict =>
        /\ \A i \in 1 .. Len(cores) : cores[i] = cpu => verdict = i - 1
        /\ (\A i \in 1 .. Len(cores) : cores[i] # cpu) => verdict = Elsewhere

(* Why: the inductive invariant.  A run has passed every core before its   *)
(* next instruction, and stands at a return because of its core.           *)
PassedCores ==
    /\ verdict = NoVerdict =>
          /\ 1 < ip /\ ip < ProgramLength => acc = cpu
          /\ ip = ProgramLength => acc = Elsewhere
    /\ \A i \in 1 .. Len(cores) :
          /\ ip > 2 * i + 1 => cores[i] # cpu
          /\ ip = 2 * i + 1 => cores[i] = cpu

IInv == TypeOK /\ PassedCores /\ SteersToIndex

(* The program, run an instruction at a time, implements the table: every  *)
(* run ends, if it does, in the one verdict that the table gives, and      *)
(* nothing of it is seen before (steer.go:36-50).                          *)
ImplementsTable == Table!Spec
=============================================================================
