--------------------------- MODULE SteeringProofs ---------------------------
(***************************************************************************)
(* The steering program maps every reader core to its socket, for every    *)
(* set of reader cores, however sparse, on a machine of any size; and a    *)
(* CheckAlignment that finds nothing has not overlooked a packet.          *)
(***************************************************************************)
EXTENDS AlignmentProperties, CPUSetProofs

USE CPUAssumption

(* A list of cores is a sequence of at least one natural number, without   *)
(* duplicates.                                                             *)
LEMMA ListFacts ==
    ASSUME NEW list \in Lists(CPU)
    PROVE  /\ Len(list) \in Nat \ {0} /\ DOMAIN list = 1 .. Len(list)
           /\ \A i \in 1 .. Len(list) : list[i] \in CPU /\ list[i] \in Nat
           /\ \A i, j \in 1 .. Len(list) : list[i] = list[j] => i = j
<1>1. PICK n \in 1 .. Cardinality(CPU) : list \in [1 .. n -> CPU]
  BY DEF Lists
<1>2. n \in Nat \ {0} /\ Len(list) = n /\ DOMAIN list = 1 .. n
  BY <1>1
<1>3. \A i, j \in 1 .. n : i < j => list[i] < list[j]
  BY <1>2 DEF Lists
<1>4. \A i \in 1 .. n : list[i] \in CPU /\ list[i] \in Nat
  BY <1>1
<1> QED
  BY <1>2, <1>3, <1>4

(* What stands at each place of the program.                               *)
LEMMA ProgramFacts ==
    ASSUME cores \in Lists(CPU), ip \in 1 .. ProgramLength
    PROVE  \/ ip = 1 /\ Insn = [Code |-> "ld cpu", Jt |-> 0, Jf |-> 0, K |-> 0]
           \/ \E i \in 1 .. Len(cores) :
                 \/ /\ ip = 2 * i
                    /\ Insn = [Code |-> "jeq k", Jt |-> 0, Jf |-> 1, K |-> cores[i]]
                 \/ /\ ip = 2 * i + 1
                    /\ Insn = [Code |-> "ret k", Jt |-> 0, Jf |-> 0, K |-> i - 1]
           \/ /\ ip = 2 * Len(cores) + 2
              /\ Insn = [Code |-> "mod k", Jt |-> 0, Jf |-> 0, K |-> Len(cores)]
           \/ /\ ip = 2 * Len(cores) + 3
              /\ Insn = [Code |-> "ret a", Jt |-> 0, Jf |-> 0, K |-> 0]
<1> DEFINE n == Len(cores)
<1>1. n \in Nat \ {0} /\ ip \in Nat /\ ip \in 1 .. 2 * n + 3
  BY ListFacts DEF ProgramLength
<1>0. Insn = CASE ip = 1                 -> bpfInsn("ld cpu", 0, 0, 0)
               [] ip = ProgramLength - 1 -> bpfInsn("mod k", 0, 0, Spread)
               [] ip = ProgramLength     -> bpfInsn("ret a", 0, 0, 0)
               [] OTHER                  -> PairAt(ip)
  BY DEF Insn, buildSteerProgram
<1>2. CASE ip = 1
  <2>1. ip # ProgramLength - 1 /\ ip # ProgramLength
    BY <1>1, <1>2 DEF ProgramLength
  <2>2. Insn = [Code |-> "ld cpu", Jt |-> 0, Jf |-> 0, K |-> 0]
    BY <1>0, <1>2, <2>1 DEF bpfInsn
  <2> QED
    BY <1>2, <2>2
<1>3. CASE ip = 2 * n + 2
  <2>1. ip = ProgramLength - 1 /\ ip # ProgramLength /\ ip # 1
    BY <1>1, <1>3 DEF ProgramLength
  <2>2. Insn = [Code |-> "mod k", Jt |-> 0, Jf |-> 0, K |-> Len(cores)]
    BY <1>0, <2>1 DEF Spread, bpfInsn
  <2> QED
    BY <1>3, <2>2
<1>4. CASE ip = 2 * n + 3
  <2>1. ip = ProgramLength /\ ip # ProgramLength - 1 /\ ip # 1
    BY <1>1, <1>4 DEF ProgramLength
  <2>2. Insn = [Code |-> "ret a", Jt |-> 0, Jf |-> 0, K |-> 0]
    BY <1>0, <2>1 DEF bpfInsn
  <2> QED
    BY <1>4, <2>2
<1>5. CASE ip \in 2 .. 2 * n + 1
  <2>1. Insn = PairAt(ip)
    <3>1. ip # 1 /\ ip # ProgramLength - 1 /\ ip # ProgramLength
      BY <1>1, <1>5 DEF ProgramLength
    <3> QED
      BY <1>0, <3>1
  <2>2. CASE ip % 2 = 0
    <3>1. ip \div 2 \in 1 .. n /\ ip = 2 * (ip \div 2)
      BY <1>1, <1>5, <2>2
    <3>2. Insn = [Code |-> "jeq k", Jt |-> 0, Jf |-> 1, K |-> cores[ip \div 2]]
      BY <2>1, <2>2 DEF PairAt, Compare, bpfInsn
    <3> QED
      BY <3>1, <3>2
  <2>3. CASE ip % 2 # 0
    <3>1. ip \div 2 \in 1 .. n /\ ip = 2 * (ip \div 2) + 1
      BY <1>1, <1>5, <2>3
    <3>2. Insn = [Code |-> "ret k", Jt |-> 0, Jf |-> 0, K |-> (ip \div 2) - 1]
      BY <2>1, <2>3 DEF PairAt, bpfInsn
    <3> QED
      BY <3>1, <3>2
  <2> QED
    BY <2>2, <2>3
<1>6. ip = 1 \/ ip \in 2 .. 2 * n + 1 \/ ip = 2 * n + 2 \/ ip = 2 * n + 3
  BY <1>1
<1> QED
  BY <1>2, <1>3, <1>4, <1>5, <1>6

LEMMA InitIInv == Init => IInv
<1> SUFFICES ASSUME Init PROVE IInv
  OBVIOUS
<1>1. Len(cores) \in Nat \ {0}
  BY ListFacts DEF Init
<1> QED
  BY <1>1 DEF Init, IInv, TypeOK, PassedCores, SteersToIndex, ProgramLength, NoVerdict

(* What one instruction does, by its kind and then by its place.           *)
LEMMA RunEffect ==
    ASSUME Run
    PROVE  /\ verdict = NoVerdict /\ UNCHANGED <<cores, cpu>>
           /\ Insn.Code = "ld cpu" => acc' = cpu /\ ip' = ip + 1 /\ UNCHANGED verdict
           /\ Insn.Code = "jeq k" =>
                 /\ ip' = ip + 1 + (IF acc = Insn.K THEN Insn.Jt ELSE Insn.Jf)
                 /\ UNCHANGED <<acc, verdict>>
           /\ Insn.Code = "mod k" => acc' = acc % Insn.K /\ ip' = ip + 1 /\ UNCHANGED verdict
           /\ Insn.Code = "ret k" => verdict' = Insn.K /\ UNCHANGED <<ip, acc>>
           /\ Insn.Code = "ret a" => verdict' = acc /\ UNCHANGED <<ip, acc>>
BY DEF Run, LdAbsW, JeqK, ModK, RetK, RetA, Running

LEMMA PlaceEffect ==
    ASSUME cores \in Lists(CPU), ip \in 1 .. ProgramLength, Run
    PROVE  \/ ip = 1 /\ acc' = cpu /\ ip' = ip + 1 /\ UNCHANGED verdict
           \/ \E i \in 1 .. Len(cores) :
                 \/ /\ ip = 2 * i
                    /\ ip' = ip + 1 + (IF acc = cores[i] THEN 0 ELSE 1)
                    /\ UNCHANGED <<acc, verdict>>
                 \/ /\ ip = 2 * i + 1
                    /\ verdict' = i - 1
                    /\ UNCHANGED <<ip, acc>>
           \/ /\ ip = 2 * Len(cores) + 2
              /\ acc' = acc % Len(cores) /\ ip' = ip + 1
              /\ UNCHANGED verdict
           \/ /\ ip = 2 * Len(cores) + 3
              /\ verdict' = acc
              /\ UNCHANGED <<ip, acc>>
<1>1. ASSUME NEW i \in 1 .. Len(cores), ip = 2 * i,
             Insn = [Code |-> "jeq k", Jt |-> 0, Jf |-> 1, K |-> cores[i]]
      PROVE  ip' = ip + 1 + (IF acc = cores[i] THEN 0 ELSE 1) /\ UNCHANGED <<acc, verdict>>
  <2>1. Insn.Code = "jeq k" /\ Insn.Jt = 0 /\ Insn.Jf = 1 /\ Insn.K = cores[i]
    BY <1>1
  <2> QED
    BY <2>1, RunEffect
<1>2. ASSUME NEW i \in 1 .. Len(cores), ip = 2 * i + 1,
             Insn = [Code |-> "ret k", Jt |-> 0, Jf |-> 0, K |-> i - 1]
      PROVE  verdict' = i - 1 /\ UNCHANGED <<ip, acc>>
  <2>1. Insn.Code = "ret k" /\ Insn.K = i - 1
    BY <1>2
  <2> QED
    BY <2>1, RunEffect
<1>3. ASSUME Insn = [Code |-> "mod k", Jt |-> 0, Jf |-> 0, K |-> Len(cores)]
      PROVE  acc' = acc % Len(cores) /\ ip' = ip + 1 /\ UNCHANGED verdict
  <2>1. Insn.Code = "mod k" /\ Insn.K = Len(cores)
    BY <1>3
  <2> QED
    BY <2>1, RunEffect
<1>4. ASSUME Insn = [Code |-> "ret a", Jt |-> 0, Jf |-> 0, K |-> 0]
      PROVE  verdict' = acc /\ UNCHANGED <<ip, acc>>
  <2>1. Insn.Code = "ret a"
    BY <1>4
  <2> QED
    BY <2>1, RunEffect
<1>5. ASSUME Insn = [Code |-> "ld cpu", Jt |-> 0, Jf |-> 0, K |-> 0]
      PROVE  acc' = cpu /\ ip' = ip + 1 /\ UNCHANGED verdict
  <2>1. Insn.Code = "ld cpu"
    BY <1>5
  <2> QED
    BY <2>1, RunEffect
<1> QED
  BY <1>1, <1>2, <1>3, <1>4, <1>5, ProgramFacts

LEMMA ElsewhereRange ==
    ASSUME cores \in Lists(CPU), cpu \in CPU
    PROVE  Elsewhere \in 0 .. Len(cores) - 1
<1>1. Len(cores) \in Nat \ {0} /\ cpu \in Nat
  BY ListFacts
<1> QED
  BY <1>1 DEF Elsewhere

LEMMA RunStep == ASSUME IInv, Run PROVE IInv'
<1> DEFINE n == Len(cores)
<1>1. /\ cores \in Lists(CPU) /\ cpu \in CPU /\ cpu \in Nat /\ acc \in Nat
      /\ ip \in 1 .. 2 * n + 3 /\ ip \in Nat
      /\ n \in Nat \ {0} /\ ProgramLength = 2 * n + 3
  BY ListFacts DEF IInv, TypeOK, ProgramLength
<1>2. \A i, j \in 1 .. n : cores[i] = cores[j] => i = j
  BY <1>1, ListFacts
<1>3. /\ verdict = NoVerdict /\ cores' = cores /\ cpu' = cpu
      /\ ProgramLength' = 2 * n + 3 /\ Elsewhere' = Elsewhere
  BY <1>1, RunEffect DEF ProgramLength, Elsewhere
<1>4. /\ 1 < ip /\ ip < 2 * n + 3 => acc = cpu
      /\ ip = 2 * n + 3 => acc = Elsewhere
      /\ \A i \in 1 .. n : /\ ip > 2 * i + 1 => cores[i] # cpu
                           /\ ip = 2 * i + 1 => cores[i] = cpu
  BY <1>1, <1>3 DEF IInv, PassedCores
(* A step of a run that goes on: the next instruction and the accumulator. *)
<1>5. ASSUME verdict' = verdict, acc' \in Nat, ip' \in 1 .. 2 * n + 3,
             1 < ip' /\ ip' < 2 * n + 3 => acc' = cpu,
             ip' = 2 * n + 3 => acc' = Elsewhere,
             \A i \in 1 .. n : /\ ip' > 2 * i + 1 => cores[i] # cpu
                               /\ ip' = 2 * i + 1 => cores[i] = cpu
      PROVE  IInv'
  BY <1>1, <1>3, <1>5 DEF IInv, TypeOK, PassedCores, SteersToIndex
(* A step that ends one.                                                   *)
<1>6. ASSUME verdict' \in 0 .. n - 1, UNCHANGED <<acc, ip>>,
             \A i \in 1 .. n : cores[i] = cpu => verdict' = i - 1,
             (\A i \in 1 .. n : cores[i] # cpu) => verdict' = Elsewhere
      PROVE  IInv'
  <2>1. verdict' # NoVerdict
    BY <1>1, <1>6 DEF NoVerdict
  <2> QED
    BY <1>1, <1>3, <1>4, <1>6, <2>1 DEF IInv, TypeOK, PassedCores, SteersToIndex
<1>7. CASE ip = 1 /\ acc' = cpu /\ ip' = ip + 1 /\ UNCHANGED verdict
  <2>1. ip' = 2 /\ acc' = cpu /\ verdict' = verdict
    BY <1>7
  <2> QED
    BY <1>1, <1>5, <2>1
<1>8. ASSUME NEW k \in 1 .. n, ip = 2 * k, UNCHANGED <<acc, verdict>>,
             ip' = ip + 1 + (IF acc = cores[k] THEN 0 ELSE 1)
      PROVE  IInv'
  <2>1. acc = cpu /\ \A i \in 1 .. n : i < k => cores[i] # cpu
    BY <1>1, <1>4, <1>8
  <2>2. ip' = IF cores[k] = cpu THEN 2 * k + 1 ELSE 2 * k + 2
    BY <1>1, <1>8, <2>1
  <2>3. ip' \in 1 .. 2 * n + 3 /\ 1 < ip' /\ ip' < 2 * n + 3
    BY <1>1, <2>2
  <2>4. \A i \in 1 .. n : /\ ip' > 2 * i + 1 => cores[i] # cpu
                          /\ ip' = 2 * i + 1 => cores[i] = cpu
    BY <1>1, <2>1, <2>2
  <2> QED
    BY <1>1, <1>5, <1>8, <2>1, <2>3, <2>4
<1>9. ASSUME NEW k \in 1 .. n, ip = 2 * k + 1, verdict' = k - 1, UNCHANGED <<ip, acc>>
      PROVE  IInv'
  <2>1. cores[k] = cpu
    BY <1>4, <1>9
  <2>2. \A i \in 1 .. n : cores[i] = cpu => i = k
    BY <1>2, <2>1
  <2> QED
    BY <1>1, <1>6, <1>9, <2>1, <2>2
<1>10. CASE ip = 2 * n + 2 /\ acc' = acc % n /\ ip' = ip + 1 /\ UNCHANGED verdict
  <2>1. acc = cpu /\ \A i \in 1 .. n : cores[i] # cpu
    BY <1>1, <1>4, <1>10
  <2>2. acc' = Elsewhere /\ Elsewhere \in 0 .. n - 1
    BY <1>1, <1>10, <2>1, ElsewhereRange DEF Elsewhere
  <2>3. ip' = 2 * n + 3 /\ acc' \in Nat /\ verdict' = verdict
    BY <1>1, <1>10, <2>2
  <2> QED
    BY <1>1, <1>5, <2>1, <2>2, <2>3
<1>11. CASE ip = 2 * n + 3 /\ verdict' = acc /\ UNCHANGED <<ip, acc>>
  <2>1. acc = Elsewhere /\ \A i \in 1 .. n : cores[i] # cpu
    BY <1>1, <1>4, <1>11
  <2>2. Elsewhere \in 0 .. n - 1
    BY <1>1, ElsewhereRange
  <2> QED
    BY <1>6, <1>11, <2>1, <2>2
<1> QED
  BY <1>1, <1>7, <1>8, <1>9, <1>10, <1>11, PlaceEffect

LEMMA ReceiveStep == ASSUME IInv, Receive PROVE IInv'
<1>1. cores \in Lists(CPU) /\ Len(cores) \in Nat \ {0}
  BY ListFacts DEF IInv, TypeOK
<1> QED
  BY <1>1 DEF Receive, IInv, TypeOK, PassedCores, SteersToIndex, ProgramLength

THEOREM SteeringInvariant == Spec => []IInv
<1>1. IInv /\ [Next]_vars => IInv'
  <2> SUFFICES ASSUME IInv, [Next]_vars PROVE IInv'
    OBVIOUS
  <2>1. CASE UNCHANGED vars
    BY <2>1 DEF vars, IInv, TypeOK, PassedCores, SteersToIndex, ProgramLength, Elsewhere
  <2> QED
    BY <2>1, RunStep, ReceiveStep DEF Next
<1> QED
  BY <1>1, InitIInv, PTL DEF Spec

(* Whatever the reader cores are, a packet received on the i-th of them    *)
(* goes to the i-th socket, and every other packet to a socket of the      *)
(* group.                                                                  *)
THEOREM Steers == Spec => []SteersToIndex
<1>1. IInv => SteersToIndex
  BY DEF IInv
<1> QED
  BY <1>1, SteeringInvariant, PTL

(* In the table, a reader core is found at its one index.                  *)
LEMMA TableLookUp ==
    ASSUME cores \in Lists(CPU), cpu \in CPU, NEW v,
           \A i \in 1 .. Len(cores) : cores[i] = cpu => v = i - 1,
           (\A i \in 1 .. Len(cores) : cores[i] # cpu) => v = Elsewhere
    PROVE  v = SteeredTo(cores, cpu)
<1> DEFINE Index == CHOOSE i \in DOMAIN cores : cores[i] = cpu
<1>1. Len(cores) \in Nat \ {0} /\ DOMAIN cores = 1 .. Len(cores)
  BY ListFacts
<1>2. CASE \E i \in DOMAIN cores : cores[i] = cpu
  <2>1. Index \in DOMAIN cores /\ cores[Index] = cpu
    BY <1>2
  <2>2. v = Index - 1
    BY <1>1, <2>1
  <2>3. SteeredTo(cores, cpu) = Index - 1
    BY <1>2 DEF SteeredTo
  <2> QED
    BY <2>2, <2>3
<1>3. CASE ~ \E i \in DOMAIN cores : cores[i] = cpu
  <2>1. SteeredTo(cores, cpu) = cpu % Len(cores)
    BY <1>3 DEF SteeredTo
  <2>2. v = Elsewhere
    BY <1>1, <1>3
  <2> QED
    BY <2>1, <2>2 DEF Elsewhere
<1> QED
  BY <1>2, <1>3

(* An instruction is a stutter of the table, or the return that looks up.  *)
LEMMA RunImplements ==
    ASSUME IInv, IInv', Run
    PROVE  Table!LookUp \/ UNCHANGED Table!vars
<1>1. verdict = NoVerdict /\ cores' = cores /\ cpu' = cpu
  BY RunEffect
<1>2. CASE verdict' = verdict
  BY <1>1, <1>2 DEF Table!vars
<1>3. CASE verdict' # verdict
  <2>1. verdict' # NoVerdict
    BY <1>1, <1>3
  <2>2. /\ \A i \in 1 .. Len(cores) : cores[i] = cpu => verdict' = i - 1
        /\ (\A i \in 1 .. Len(cores) : cores[i] # cpu) => verdict' = Elsewhere
    BY <1>1, <2>1 DEF IInv, SteersToIndex, Elsewhere
  <2>3. cores \in Lists(CPU) /\ cpu \in CPU
    BY DEF IInv, TypeOK
  <2>4. verdict' = SteeredTo(cores, cpu)
    BY <2>2, <2>3, TableLookUp
  <2> QED
    BY <1>1, <2>4 DEF Table!LookUp, Table!NoVerdict, Table!SteeredTo, NoVerdict, SteeredTo
<1> QED
  BY <1>2, <1>3

(* The program implements the table: whatever the cores and their number,  *)
(* every run shows nothing until its one verdict, which is the table's.    *)
THEOREM SteeringImplementsTable == Spec => ImplementsTable
<1>1. Init => Table!Init
  BY DEF Init, Table!Init, Table!Lists, Table!NoVerdict, Lists, NoVerdict,
         Cardinality, Table!Cardinality
<1>2. IInv /\ IInv' /\ [Next]_vars => [Table!Next]_(Table!vars)
  <2> SUFFICES ASSUME IInv, IInv', [Next]_vars PROVE [Table!Next]_(Table!vars)
    OBVIOUS
  <2>1. CASE Run
    BY <2>1, RunImplements DEF Table!Next
  <2>2. CASE Receive
    BY <2>2 DEF Receive, Table!Next, Table!Receive, Table!NoVerdict, NoVerdict
  <2>3. CASE UNCHANGED vars
    BY <2>3 DEF vars, Table!vars
  <2> QED
    BY <2>1, <2>2, <2>3 DEF Next
<1> QED
  BY <1>1, <1>2, SteeringInvariant, PTL DEF Spec, ImplementsTable, Table!Spec

-----------------------------------------------------------------------------
(* CheckAlignment                                                          *)

(* A check and a rewrite leave the steering alone: what follows from Spec  *)
(* follows from AlignSpec.                                                 *)
THEOREM CheckingSteers == AlignSpec => Spec
<1>1. AlignInit => Init
  BY DEF AlignInit
<1>2. ASSUME [AlignNext]_alignVars PROVE [Next]_vars
  <2>1. CASE Check
    BY <2>1 DEF Check, CheckStep, CountQueues, CheckDevice, ReadInterrupts, ReadAffinity, EndOfIRQs
  <2>2. CASE AffinityChange
    BY <2>2 DEF AffinityChange
  <2>3. CASE Next
    BY <2>3
  <2>4. CASE UNCHANGED alignVars
    BY <2>4 DEF alignVars
  <2> QED
    BY <1>2, <2>1, <2>2, <2>3, <2>4 DEF AlignNext
<1> QED
  BY <1>1, <1>2, PTL DEF AlignSpec, Spec

LEMMA ListIsOrdered ==
    ASSUME NEW list \in Lists(CPU)
    PROVE  list \in Seq(Nat) /\ list \in Seq(Int) /\ Ascends(list)
<1>1. PICK n \in 1 .. Cardinality(CPU) : list \in [1 .. n -> CPU]
  BY DEF Lists
<1>6. n \in Nat
  BY <1>1
<1>7. DOMAIN list = 1 .. n
  BY <1>1
<1>8. \A i \in 1 .. n : list[i] \in CPU
  BY <1>1
<1>2. n \in Nat /\ DOMAIN list = 1 .. n /\ \A i \in 1 .. n : list[i] \in Nat
  BY <1>6, <1>7, <1>8
<1>3. list = [i \in 1 .. n |-> list[i]]
  BY <1>1
<1>4. list \in [1 .. n -> Nat] /\ list \in [1 .. n -> Int]
  BY <1>2, <1>3
<1>5. list \in Seq(Nat) /\ list \in Seq(Int)
  BY <1>2, <1>4
<1> QED
  BY <1>5 DEF Lists, Ascends

(* The interrupts to read are those matched, each once.                    *)
LEMMA MatchedFacts ==
    ASSUME NEW lines \in SUBSET Line
    PROVE  /\ Matched(lines) \subseteq Irq
           /\ parseInterruptsIRQs(lines) \in Seq(Irq)
           /\ ToSet(parseInterruptsIRQs(lines)) = Matched(lines)
<1>1. PICK S : S = Matched(lines)
  OBVIOUS
<1>2. S \subseteq Irq /\ S \subseteq Int /\ IsFiniteSet(S)
  <2>1. S \subseteq Irq
    BY <1>1 DEF Matched, Line
  <2>2. S \subseteq Int
    BY <2>1, AlignmentAssumption
  <2>3. IsFiniteSet(S)
    BY <2>1, AlignmentAssumption, FS_Subset
  <2> QED
    BY <2>1, <2>2, <2>3
<1>3. PICK n \in Nat : n = Cardinality(S)
  BY <1>2, FS_CardinalityType
<1>4. PICK list : list \in [1 .. n -> S] /\ IsInjective(list) /\ list = SetToSeq(S)
  <2>1. \E f : f \in [1 .. n -> S] /\ IsInjective(f)
    <3>1. ExistsBijection(1 .. n, S)
      BY <1>2, <1>3, FS_CountingElements, FS_CardinalityType
    <3>2. PICK f \in Bijection(1 .. n, S) : TRUE
      BY <3>1 DEF ExistsBijection
    <3> QED
      BY <3>2 DEF Bijection, Injection
  <2> QED
    BY <1>3, <2>1 DEF SetToSeq
<1>5. list \in Seq(Int) /\ DOMAIN list = 1 .. n /\ Len(list) = n
  <2>1. \A k \in 1 .. n : list[k] \in Int
    BY <1>2, <1>4
  <2>2. list = [k \in 1 .. n |-> list[k]]
    BY <1>4
  <2>3. list \in [1 .. n -> Int]
    BY <2>1, <2>2
  <2> QED
    BY <2>3
<1>6. Injects(list)
  BY <1>4, <1>5 DEF IsInjective, Injects
<1>7. ToSet(list) = S
  <2>1. ToSet(list) \in SUBSET S
    BY <1>4, <1>5 DEF ToSet
  <2>2. Cardinality(ToSet(list)) = n
    BY <1>5, <1>6, ListSize
  <2> QED
    BY <1>2, <1>3, <2>1, <2>2, FS_Subset
<1>8. PICK irqsOf : irqsOf = parseInterruptsIRQs(lines)
  OBVIOUS
<1>9. irqsOf \in Seq(Int) /\ ToSet(irqsOf) = S
  BY <1>1, <1>4, <1>5, <1>6, <1>7, <1>8, SortedFacts DEF parseInterruptsIRQs, Is
<1>10. irqsOf \in Seq(Irq)
  <2>1. PICK m \in Nat : m = Len(irqsOf) /\ DOMAIN irqsOf = 1 .. m
    BY <1>9
  <2>2. \A k \in 1 .. m : irqsOf[k] \in Irq
    BY <1>2, <1>9, <2>1 DEF ToSet
  <2>3. irqsOf = [k \in 1 .. m |-> irqsOf[k]]
    BY <1>9, <2>1
  <2>4. irqsOf \in [1 .. m -> Irq]
    BY <2>2, <2>3
  <2> QED
    BY <2>4
<1> QED
  BY <1>1, <1>2, <1>8, <1>9, <1>10

(* The records of the report.                                              *)
LEMMA FindingIsText ==
    ASSUME NEW kind \in Kinds, NEW when
    PROVE  Finding(kind, when) \in SUBSET Kinds /\ (when => Finding(kind, when) = {kind})
BY DEF Finding

LEMMA FoundMore ==
    ASSUME rep \in Report, NEW findings \in SUBSET Kinds, Find(findings)
    PROVE  /\ rep' \in Report
           /\ rep'.Misaligned = rep.Misaligned \cup findings
           /\ rep'.RSSQueues = rep.RSSQueues /\ rep'.IRQAffinity = rep.IRQAffinity
BY DEF Find, Report

LEMMA AlignInitInv == AlignInit => AlignInv
<1> SUFFICES ASSUME AlignInit PROVE AlignInv
  OBVIOUS
<1>1. PICK m \in Machine : host = m[1] /\ affinity = m[2]
  BY DEF AlignInit
<1>2. host \in Host /\ affinity \in [Irq -> Text \cup {Unreadable}]
  BY <1>1, AlignmentAssumption
<1>3. /\ step = "queues" /\ irqs = <<>> /\ failed = 0
      /\ rep = [RSSQueues |-> 0, Misaligned |-> {}, IRQAffinity |-> [irq \in Irq |-> Unreadable]]
      /\ seen = [irq \in Irq |-> Unreadable]
  BY DEF AlignInit
<1>4. rep \in Report
  <2>1. [irq \in Irq |-> Unreadable] \in [Irq -> Seq(Int) \cup {Unreadable}]
    OBVIOUS
  <2> QED
    BY <1>3, <2>1 DEF Report
<1>5. AlignTypes
  BY <1>2, <1>3, <1>4 DEF AlignTypes
<1>6. ReadSofar
  BY <1>3 DEF ReadSofar
<1> QED
  BY <1>5, <1>6 DEF AlignInv

LEMMA CountQueuesStep ==
    ASSUME AlignInv, IInv, CountQueues
    PROVE  AlignInv'
<1>1. /\ step = "queues" /\ step' = "device"
      /\ UNCHANGED <<host, affinity, irqs, failed, seen, cores>>
  BY DEF CountQueues, CheckStep, files, vars
<1>2. AlignTypes /\ host.rx \in Nat \cup {Unreadable} /\ rep \in Report /\ Unreadable \notin Nat
  BY AlignmentAssumption DEF AlignInv, AlignTypes, Host
<1>3. Len(cores) \in Nat
  BY ListFacts DEF IInv, TypeOK
<1>4. PICK queues, kind, found :
          /\ queues = IF host.rx = Unreadable THEN rep.RSSQueues ELSE host.rx
          /\ kind = IF host.rx = Unreadable THEN "no queues" ELSE "uneven"
          /\ found = IF host.rx # Len(cores) THEN {kind} ELSE {}
  OBVIOUS
<1>5. queues \in Nat /\ found \in SUBSET Kinds
  <2>1. rep.RSSQueues \in Nat
    BY <1>2 DEF Report
  <2>2. "no queues" \in Kinds /\ "uneven" \in Kinds
    BY DEF Kinds
  <2>3. kind \in Kinds
    BY <1>4, <2>2
  <2> QED
    BY <1>2, <1>4, <2>1, <2>3
<1>6. rep' = [rep EXCEPT !.RSSQueues = queues, !.Misaligned = rep.Misaligned \cup found]
  BY <1>4 DEF CountQueues, Finding
<1>7. /\ rep' \in Report /\ rep'.RSSQueues = queues /\ rep'.Misaligned = rep.Misaligned \cup found
  BY <1>2, <1>5, <1>6 DEF Report
<1>8. AlignTypes'
  BY <1>1, <1>2, <1>7 DEF AlignTypes
<1>9. ASSUME rep'.Misaligned = {}
      PROVE  rep'.RSSQueues = Len(cores)
  <2>1. found = {}
    BY <1>7, <1>9
  <2>2. host.rx = Len(cores)
    BY <1>4, <2>1
  <2>3. host.rx # Unreadable
    BY <1>2, <1>3, <2>2
  <2> QED
    BY <1>4, <1>7, <2>2, <2>3
<1>10. ReadSofar'
  BY <1>1, <1>9 DEF ReadSofar
<1> QED
  BY <1>8, <1>10 DEF AlignInv

LEMMA CheckDeviceStep ==
    ASSUME AlignInv, CheckDevice
    PROVE  AlignInv'
<1>1. /\ step = "device" /\ step' = "interrupts"
      /\ UNCHANGED <<host, affinity, irqs, failed, seen, cores>>
  BY DEF CheckDevice, CheckStep, files, vars
<1>2. PICK found \in SUBSET Kinds : Find(found)
  <2>1. "virtual" \in Kinds
    BY DEF Kinds
  <2> QED
    BY <2>1, FindingIsText DEF CheckDevice
<1>3. /\ rep' \in Report /\ rep'.Misaligned = rep.Misaligned \cup found
      /\ rep'.RSSQueues = rep.RSSQueues
  BY <1>2, FoundMore DEF AlignInv, AlignTypes
<1>4. AlignTypes'
  BY <1>1, <1>3 DEF AlignInv, AlignTypes
<1>5. ReadSofar'
  BY <1>1, <1>3 DEF AlignInv, ReadSofar
<1> QED
  BY <1>4, <1>5 DEF AlignInv

LEMMA ReadInterruptsStep ==
    ASSUME AlignInv, ReadInterrupts
    PROVE  AlignInv'
<1>1. step = "interrupts" /\ UNCHANGED <<host, affinity, failed, seen, cores>>
  BY DEF ReadInterrupts, CheckStep, files, vars
<1>2. rep \in Report /\ host.interrupts \in (SUBSET Line) \cup {Unreadable}
  BY DEF AlignInv, AlignTypes, Host
<1>3. CASE /\ step' = "done" /\ host.interrupts = Unreadable /\ irqs' = irqs
           /\ Find({"no interrupts"})
  <2>4. "no interrupts" \in Kinds
    BY DEF Kinds
  <2>5. {"no interrupts"} \in SUBSET Kinds
    BY <2>4
  <2>6. /\ rep' \in Report
        /\ rep'.Misaligned = rep.Misaligned \cup {"no interrupts"}
    BY <1>2, <1>3, <2>5, FoundMore
  <2>1. rep' \in Report /\ rep'.Misaligned # {}
    BY <2>6
  <2>2. AlignTypes'
    BY <1>1, <1>3, <2>1 DEF AlignInv, AlignTypes
  <2>3. ReadSofar'
    BY <1>3, <2>1 DEF ReadSofar
  <2> QED
    BY <2>2, <2>3 DEF AlignInv
<1>4. CASE /\ step' = "irqs" /\ host.interrupts # Unreadable
           /\ irqs' = parseInterruptsIRQs(host.interrupts)
           /\ Find(Finding("no match", irqs' = <<>>))
  <2>1. host.interrupts \in SUBSET Line
    BY <1>2, <1>4
  <2>2. irqs' \in Seq(Irq) /\ ToSet(irqs') = Matched(host.interrupts)
    BY <1>4, <2>1, MatchedFacts
  <2>3. PICK found \in SUBSET Kinds : Find(found) /\ (irqs' = <<>> => found # {})
    <3>1. "no match" \in Kinds
      BY DEF Kinds
    <3> QED
      BY <1>4, <3>1, FindingIsText
  <2>4. /\ rep' \in Report /\ rep'.Misaligned = rep.Misaligned \cup found
        /\ rep'.RSSQueues = rep.RSSQueues
    BY <1>2, <2>3, FoundMore
  <2>5. AlignTypes'
    BY <1>1, <1>4, <2>2, <2>4 DEF AlignInv, AlignTypes
  <2>6. irqs' # <<>> => ToSet(irqs') # {}
    BY <2>2 DEF ToSet
  <2>7. rep'.Misaligned = {} => Matched(host.interrupts) # {} /\ rep.Misaligned = {}
    BY <2>2, <2>3, <2>4, <2>6
  <2>8. rep.Misaligned = {} => rep.RSSQueues = Len(cores)
    BY <1>1 DEF AlignInv, ReadSofar
  <2>9. ReadSofar'
    BY <1>1, <1>4, <2>2, <2>4, <2>7, <2>8 DEF ReadSofar
  <2> QED
    BY <2>5, <2>9 DEF AlignInv
<1> QED
  BY <1>3, <1>4 DEF ReadInterrupts, CheckStep

LEMMA HeadAndTail ==
    ASSUME NEW X, NEW s \in Seq(X), s # <<>>
    PROVE  /\ Head(s) \in X /\ Tail(s) \in Seq(X)
           /\ ToSet(s) = {Head(s)} \cup ToSet(Tail(s))
<1>1. PICK n \in Nat : n = Len(s) /\ DOMAIN s = 1 .. n
  OBVIOUS
<1>2. n # 0 /\ Head(s) = s[1] /\ 1 \in 1 .. n
  BY <1>1
<1>10. Tail(s) \in Seq(X)
  OBVIOUS
<1>3. PICK t \in Seq(X) : t = Tail(s)
  BY <1>10
<1>4. PICK m \in Nat : m = n - 1
  BY <1>2
<1>5. DOMAIN t = 1 .. m /\ \A k \in 1 .. m : t[k] = s[k + 1]
  BY <1>1, <1>2, <1>3, <1>4
<1>6. ASSUME NEW c \in ToSet(s)
      PROVE  c \in {Head(s)} \cup ToSet(t)
  <2>1. PICK k \in 1 .. n : s[k] = c
    BY <1>1 DEF ToSet
  <2>2. CASE k = 1
    BY <1>2, <2>1, <2>2
  <2>3. CASE k # 1
    <3>1. k - 1 \in 1 .. m /\ (k - 1) + 1 = k
      BY <1>4, <2>3
    <3>2. t[k - 1] = c
      BY <1>5, <2>1, <3>1
    <3> QED
      BY <1>5, <3>1, <3>2 DEF ToSet
  <2> QED
    BY <2>2, <2>3
<1>7. ASSUME NEW c \in ToSet(t)
      PROVE  c \in ToSet(s)
  <2>1. PICK k \in 1 .. m : t[k] = c
    BY <1>5 DEF ToSet
  <2>2. k + 1 \in 1 .. n /\ s[k + 1] = c
    BY <1>4, <1>5, <2>1
  <2> QED
    BY <1>1, <2>2 DEF ToSet
<1>8. Head(s) \in ToSet(s) /\ Head(s) \in X
  BY <1>1, <1>2 DEF ToSet
<1>9. ToSet(s) = {Head(s)} \cup ToSet(t)
  BY <1>6, <1>7, <1>8
<1> QED
  BY <1>3, <1>8, <1>9

(* What the check read of one interrupt, and where that leaves the others. *)
LEMMA ReadAffinityStep ==
    ASSUME AlignInv, ReadAffinity
    PROVE  AlignInv'
<1>1. /\ step = "irqs" /\ step' = "irqs" /\ irqs # <<>> /\ irqs' = Tail(irqs)
      /\ UNCHANGED <<host, affinity, cores>>
  BY DEF ReadAffinity, CheckStep, files, vars
<1>2. /\ irqs \in Seq(Irq) /\ rep \in Report /\ failed \in Nat
      /\ affinity \in [Irq -> Text \cup {Unreadable}] /\ seen \in [Irq -> Text \cup {Unreadable}]
      /\ host.interrupts # Unreadable /\ ToSet(irqs) \subseteq Matched(host.interrupts)
  BY <1>1 DEF AlignInv, AlignTypes, ReadSofar
<1>3. PICK irq \in Irq, rest \in Seq(Irq) :
          irq = Head(irqs) /\ rest = Tail(irqs) /\ ToSet(irqs) = {irq} \cup ToSet(rest)
  <2>1. PICK s \in Seq(Irq) : s = irqs /\ s # <<>>
    BY <1>1, <1>2
  <2>2. Head(s) \in Irq /\ Tail(s) \in Seq(Irq) /\ ToSet(s) = {Head(s)} \cup ToSet(Tail(s))
    BY <2>1, HeadAndTail
  <2> QED
    BY <2>1, <2>2
<1>4. PICK text \in Text \cup {Unreadable} : text = affinity[irq]
  BY <1>2
<1>5. PICK set : set = IF text = Unreadable THEN ParseError ELSE ParseCPUSet(text)
  OBVIOUS
<1>6. seen' = [seen EXCEPT ![irq] = text]
  BY <1>3, <1>4 DEF ReadAffinity
<1>7. \/ set = ParseError /\ failed' = OneMoreFailed /\ UNCHANGED rep
      \/ /\ set # ParseError
         /\ rep' = [rep EXCEPT
               !.IRQAffinity[irq] = set,
               !.Misaligned       = @ \cup Finding("outside", Difference(set, cores) # <<>>)]
         /\ UNCHANGED failed
  BY <1>3, <1>4, <1>5 DEF ReadAffinity
<1>8. /\ seen' \in [Irq -> Text \cup {Unreadable}] /\ seen'[irq] = text
      /\ \A other \in Irq : other # irq => seen'[other] = seen[other]
  BY <1>2, <1>6
<1>9. irqs' \in Seq(Irq) /\ ToSet(irqs') \subseteq Matched(host.interrupts)
  BY <1>1, <1>2, <1>3
<1>10. CASE set = ParseError /\ failed' = OneMoreFailed /\ UNCHANGED rep
  <2>1. failed' \in Nat /\ failed' # 0
    BY <1>2, <1>10 DEF OneMoreFailed
  <2>2. AlignTypes'
    BY <1>1, <1>8, <1>9, <1>10, <2>1 DEF AlignInv, AlignTypes
  <2>3. ReadSofar'
    BY <1>1, <1>9, <1>10, <2>1 DEF AlignInv, ReadSofar
  <2> QED
    BY <2>2, <2>3 DEF AlignInv
<1>11. CASE /\ set # ParseError
            /\ rep' = [rep EXCEPT
                  !.IRQAffinity[irq] = set,
                  !.Misaligned       = @ \cup Finding("outside", Difference(set, cores) # <<>>)]
            /\ UNCHANGED failed
  <2>1. text # Unreadable /\ text \in Seq(Element) /\ set = ParseCPUSet(text)
    BY <1>4, <1>5, <1>11, AlignmentAssumption
  <2>2. set \in Seq(Int)
    BY <1>11, <2>1, ParseFacts
  <2>3. PICK found \in SUBSET Kinds :
            /\ found = Finding("outside", Difference(set, cores) # <<>>)
            /\ found = {} => Difference(set, cores) = <<>>
    <3>1. "outside" \in Kinds
      BY DEF Kinds
    <3>2. Finding("outside", Difference(set, cores) # <<>>) \in SUBSET Kinds
      BY <3>1, FindingIsText
    <3>3. Difference(set, cores) # <<>> =>
              Finding("outside", Difference(set, cores) # <<>>) = {"outside"}
      BY DEF Finding
    <3> QED
      BY <3>2, <3>3
  <2>4. PICK read : read = rep.IRQAffinity
    OBVIOUS
  <2>5. read \in [Irq -> Seq(Int) \cup {Unreadable}]
    BY <1>2, <2>4 DEF Report
  <2>6. rep' = [rep EXCEPT !.IRQAffinity = [read EXCEPT ![irq] = set],
                           !.Misaligned  = rep.Misaligned \cup found]
    BY <1>2, <1>11, <2>3, <2>4 DEF Report
  <2>7. /\ rep' = [RSSQueues |-> rep.RSSQueues, Misaligned |-> rep.Misaligned \cup found,
                   IRQAffinity |-> [read EXCEPT ![irq] = set]]
    BY <1>2, <2>6 DEF Report
  <2>8. /\ rep'.RSSQueues = rep.RSSQueues /\ rep'.Misaligned = rep.Misaligned \cup found
        /\ rep'.IRQAffinity = [read EXCEPT ![irq] = set]
    BY <2>7
  <2>9. rep' \in Report
    <3>1. [read EXCEPT ![irq] = set] \in [Irq -> Seq(Int) \cup {Unreadable}]
      BY <2>2, <2>5
    <3>2. rep.RSSQueues \in Nat /\ rep.Misaligned \cup found \in SUBSET Kinds
      BY <1>2 DEF Report
    <3> QED
      BY <2>7, <3>1, <3>2 DEF Report
  <2>10. /\ rep'.IRQAffinity[irq] = set
         /\ \A other \in Irq : other # irq => rep'.IRQAffinity[other] = rep.IRQAffinity[other]
    BY <2>4, <2>5, <2>8
  <2>11. AlignTypes'
    BY <1>1, <1>8, <1>9, <1>11, <2>9 DEF AlignInv, AlignTypes
  <2>12. ASSUME rep'.Misaligned = {}
         PROVE  rep.Misaligned = {} /\ Difference(set, cores) = <<>>
    BY <2>3, <2>8, <2>12
  <2>13. ASSUME rep'.Misaligned = {}, failed' = 0,
                NEW other \in Matched(host.interrupts) \ ToSet(irqs')
         PROVE  Agrees(other)'
    <3>1. CASE other = irq
      BY <1>1, <1>8, <1>11, <2>1, <2>10, <2>12, <2>13, <3>1 DEF Agrees
    <3>2. CASE other # irq
      <4>1. other \in Matched(host.interrupts) \ ToSet(irqs)
        BY <1>1, <1>3, <2>13, <3>2
      <4>2. Agrees(other)
        BY <1>1, <1>11, <2>12, <2>13, <4>1 DEF AlignInv, ReadSofar
      <4>3. other \in Irq
        BY <1>2, <4>1, MatchedFacts DEF AlignInv, AlignTypes, Host
      <4> QED
        BY <1>1, <1>8, <2>10, <3>2, <4>2, <4>3 DEF Agrees
    <3> QED
      BY <3>1, <3>2
  <2>14. rep.Misaligned = {} => rep.RSSQueues = Len(cores) /\ Matched(host.interrupts) # {}
    BY <1>1 DEF AlignInv, ReadSofar
  <2>15. ReadSofar'
    BY <1>1, <1>2, <1>9, <2>8, <2>12, <2>13, <2>14 DEF ReadSofar
  <2> QED
    BY <2>11, <2>15 DEF AlignInv
<1> QED
  BY <1>7, <1>10, <1>11

LEMMA EndOfIRQsStep ==
    ASSUME AlignInv, EndOfIRQs
    PROVE  AlignInv'
<1>1. /\ step = "irqs" /\ step' = "done" /\ irqs = <<>>
      /\ UNCHANGED <<host, affinity, irqs, failed, seen, cores>>
  BY DEF EndOfIRQs, CheckStep, files, vars
<1>2. PICK found \in SUBSET Kinds : Find(found) /\ (failed > 0 => found # {})
  <2>1. "partial" \in Kinds
    BY DEF Kinds
  <2> QED
    BY <2>1, FindingIsText DEF EndOfIRQs
<1>3. /\ rep' \in Report /\ rep'.Misaligned = rep.Misaligned \cup found
      /\ rep'.RSSQueues = rep.RSSQueues /\ rep'.IRQAffinity = rep.IRQAffinity
  BY <1>2, FoundMore DEF AlignInv, AlignTypes
<1>4. AlignTypes'
  BY <1>1, <1>3 DEF AlignInv, AlignTypes
<1>5. rep'.Misaligned = {} => failed = 0 /\ rep.Misaligned = {}
  BY <1>2, <1>3 DEF AlignInv, AlignTypes
<1>6. \A irq : Agrees(irq) => Agrees(irq)'
  BY <1>1, <1>3 DEF Agrees
<1>7. ReadSofar'
  BY <1>1, <1>3, <1>5, <1>6 DEF AlignInv, ReadSofar
<1> QED
  BY <1>4, <1>7 DEF AlignInv

(* The check is not touched, whatever becomes of the files.                *)
LEMMA CheckUntouched ==
    ASSUME AlignInv, UNCHANGED <<host, step, irqs, failed, rep, seen, cores>>,
           affinity' \in [Irq -> Text \cup {Unreadable}]
    PROVE  AlignInv'
<1>1. AlignTypes'
  BY DEF AlignInv, AlignTypes
<1>2. \A irq : Agrees(irq) => Agrees(irq)'
  BY DEF Agrees
<1>3. ReadSofar'
  BY <1>2 DEF AlignInv, ReadSofar
<1> QED
  BY <1>1, <1>3 DEF AlignInv

(* Why silence can be trusted: the inductive invariant.                    *)
THEOREM AlignmentInvariant == AlignSpec => []AlignInv
<1>1. ASSUME IInv, AlignInv, [AlignNext]_alignVars PROVE AlignInv'
  <2>1. affinity \in [Irq -> Text \cup {Unreadable}]
    BY <1>1 DEF AlignInv, AlignTypes
  <2>2. CASE Check
    BY <1>1, <2>2, CountQueuesStep, CheckDeviceStep, ReadInterruptsStep, ReadAffinityStep,
       EndOfIRQsStep DEF Check
  <2>3. CASE AffinityChange
    <3>1. /\ UNCHANGED <<host, step, irqs, failed, rep, seen, cores>>
          /\ affinity' \in [Irq -> Text \cup {Unreadable}]
      BY <2>1, <2>3 DEF AffinityChange, check, vars
    <3> QED
      BY <1>1, <3>1, CheckUntouched
  <2>4. CASE Next /\ UNCHANGED <<files, check>>
    <3>1. UNCHANGED cores
      BY <2>4, RunEffect DEF Next, Receive
    <3>2. UNCHANGED <<host, affinity, step, irqs, failed, rep, seen>>
      BY <2>4 DEF files, check
    <3> QED
      BY <1>1, <2>1, <3>1, <3>2, CheckUntouched
  <2>5. CASE UNCHANGED alignVars
    <3>1. UNCHANGED <<host, affinity, step, irqs, failed, rep, seen, cores>>
      BY <2>5 DEF alignVars, files, check, vars
    <3> QED
      BY <1>1, <2>1, <3>1, CheckUntouched
  <2> QED
    BY <1>1, <2>2, <2>3, <2>4, <2>5 DEF AlignNext
<1> QED
  BY <1>1, AlignInitInv, CheckingSteers, SteeringInvariant, PTL DEF AlignSpec

(* What the kernel means by a text is what ParseCPUSet makes of it.        *)
LEMMA DenotedIsParsed ==
    ASSUME NEW text \in Text, ParseCPUSet(text) # ParseError
    PROVE  /\ ParseCPUSet(text) \in Seq(Int) /\ Ascends(ParseCPUSet(text))
           /\ ToSet(ParseCPUSet(text)) = Denoted(text)
<1>1. text \in Seq(Element) /\ text # Unreadable
  BY AlignmentAssumption
<1>2. ParseCPUSet(text) \in Seq(Int) /\ Is(ParseCPUSet(text), Covered(text))
  BY <1>1, ParseFacts
<1>3. Denoted(text) = Covered(text)
  BY <1>1 DEF Denoted, Covered
<1> QED
  BY <1>2, <1>3 DEF Is, Ascends

LEMMA SilenceFromInv ==
    ASSUME IInv, AlignInv
    PROVE  SilentMeansLocal
<1> SUFFICES ASSUME step = "done", rep.Misaligned = {}
             PROVE  /\ Matched(host.interrupts) # {} /\ rep.RSSQueues = Len(cores)
                    /\ \A irq \in Matched(host.interrupts) :
                          /\ rep.IRQAffinity[irq] # Unreadable
                          /\ cpu \in Denoted(seen[irq]) /\ verdict # NoVerdict
                                => cores[verdict + 1] = cpu
  BY DEF SilentMeansLocal
<1>1. /\ rep.RSSQueues = Len(cores) /\ host.interrupts # Unreadable
      /\ Matched(host.interrupts) # {} /\ failed = 0 /\ irqs = <<>>
      /\ \A irq \in Matched(host.interrupts) \ ToSet(irqs) : Agrees(irq)
  BY DEF AlignInv, ReadSofar
<1>2. ToSet(irqs) = {}
  BY <1>1 DEF ToSet
<1>3. cores \in Lists(CPU) /\ cores \in Seq(Int) /\ Ascends(cores)
  BY ListIsOrdered DEF IInv, TypeOK
<1>4. ASSUME NEW irq \in Matched(host.interrupts)
      PROVE  /\ rep.IRQAffinity[irq] # Unreadable
             /\ cpu \in Denoted(seen[irq]) /\ verdict # NoVerdict => cores[verdict + 1] = cpu
  <2>1. /\ seen[irq] # Unreadable /\ ParseCPUSet(seen[irq]) # ParseError
        /\ rep.IRQAffinity[irq] = ParseCPUSet(seen[irq])
        /\ Difference(ParseCPUSet(seen[irq]), cores) = <<>>
    BY <1>1, <1>2 DEF Agrees
  <2>2. irq \in Irq
    BY <1>1, MatchedFacts DEF AlignInv, AlignTypes, Host
  <2>3. PICK text \in Text : text = seen[irq]
    BY <2>1, <2>2 DEF AlignInv, AlignTypes
  <2>4. PICK set \in Seq(Int) :
            set = ParseCPUSet(text) /\ Ascends(set) /\ ToSet(set) = Denoted(text)
    BY <2>1, <2>3, DenotedIsParsed
  <2>5. rep.IRQAffinity[irq] # Unreadable
    BY <2>1, <2>3, <2>4, AlignmentAssumption
  <2>6. ToSet(set) \ ToSet(cores) = {}
    <3>1. Is(Difference(set, cores), ToSet(set) \ ToSet(cores))
      BY <1>3, <2>4, DifferenceFacts
    <3>2. Difference(set, cores) = <<>>
      BY <2>1, <2>3, <2>4
    <3>3. ToSet(<<>>) = {}
      BY DEF ToSet
    <3> QED
      BY <3>1, <3>2, <3>3 DEF Is
  <2>7. ASSUME cpu \in Denoted(seen[irq]), verdict # NoVerdict
        PROVE  cores[verdict + 1] = cpu
    <3>1. cpu \in ToSet(cores)
      BY <2>3, <2>4, <2>6, <2>7
    <3>2. PICK n \in Nat : n = Len(cores) /\ DOMAIN cores = 1 .. n
      BY <1>3
    <3>3. PICK i \in 1 .. n : cores[i] = cpu
      BY <3>1, <3>2 DEF ToSet
    <3>4. verdict = i - 1
      BY <2>7, <3>2, <3>3 DEF IInv, SteersToIndex
    <3> QED
      BY <3>3, <3>4
  <2> QED
    BY <2>5, <2>7
<1> QED
  BY <1>1, <1>4

(* A report without findings means that steering is local: a packet of an  *)
(* interrupt that stayed where the check saw it goes to the reader on the  *)
(* packet's own core, on every machine (diag.go:9-11).                     *)
THEOREM SilenceIsLocal == AlignSpec => []SilentMeansLocal
BY SilenceFromInv, AlignmentInvariant, CheckingSteers, SteeringInvariant, PTL

(* The lists of cpuset.go are sets, for all lists of cores.                *)
THEOREM CoreSetsAlways == AlignSpec => []CoreSetsAreSets
<1>1. ASSUME IInv PROVE CoreSetsAreSets
  <2>1. /\ cores \in Seq(Nat) /\ cores \in Seq(Int) /\ Ascends(cores)
    BY <1>1, ListIsOrdered DEF IInv, TypeOK
  <2>2. ASSUME NEW o \in Lists(CPU) \cup {<<>>}
        PROVE  /\ Is(Intersect(cores, o), ToSet(cores) \cap ToSet(o))
               /\ Is(Difference(cores, o), ToSet(cores) \ ToSet(o))
               /\ Is(Union(cores, o), ToSet(cores) \cup ToSet(o))
               /\ Equal(cores, o) <=> ToSet(cores) = ToSet(o)
    <3>1. o \in Seq(Int) /\ Ascends(o)
      <4>1. CASE o = <<>>
        <5>1. <<>> \in Seq(Int) /\ Ascends(<<>>)
          BY DEF Ascends
        <5> QED
          BY <4>1, <5>1
      <4>2. CASE o \in Lists(CPU)
        BY <4>2, ListIsOrdered
      <4> QED
        BY <4>1, <4>2
    <3>2. Is(Intersect(cores, o), ToSet(cores) \cap ToSet(o))
      BY <2>1, <3>1, IntersectFacts
    <3>3. Is(Difference(cores, o), ToSet(cores) \ ToSet(o))
      BY <2>1, <3>1, DifferenceFacts
    <3>4. Is(Union(cores, o), ToSet(cores) \cup ToSet(o))
      BY <2>1, <3>1, UnionFacts
    <3>5. Equal(cores, o) <=> ToSet(cores) = ToSet(o)
      BY <2>1, <3>1, EqualFacts
    <3> QED
      BY <3>2, <3>3, <3>4, <3>5
  <2>3. /\ ParseCPUSet(String(cores)) = cores
        /\ ParseCPUSet(Reverse(String(cores)) \o String(cores)) = cores
    BY <2>1, TextIsTheSet
  <2> QED
    BY <2>2, <2>3 DEF CoreSetsAreSets
<1> QED
  BY <1>1, CheckingSteers, SteeringInvariant, PTL
=============================================================================
