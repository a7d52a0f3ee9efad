----------------------------- MODULE EchoProofs -----------------------------
(***************************************************************************)
(* udpecho: the packets that the steering program saw are read on the core *)
(* that received them, every packet is accounted for, and the report adds  *)
(* up, for any number of readers, cores and packets.                       *)
(***************************************************************************)
EXTENDS EchoProperties, SumProofs

USE EchoAssumption

(* What the reader cores are, and where the program and Pin lead.          *)
LEMMA CoreFacts ==
    ASSUME cores \in CoreLists
    PROVE  /\ Len(cores) = Readers /\ DOMAIN cores = 1 .. Readers
           /\ \A k \in 1 .. Readers : cores[k] \in CPU
           /\ \A i \in Socket : Target(i) \in CPU
           /\ \A c \in CPU : SteeredTo(cores, c) \in Socket
           /\ \A c \in CPU : c \in Range(cores) => Target(SteeredTo(cores, c)) = c
<1>1. PICK n \in 1 .. Cardinality(CPU) : cores \in [1 .. n -> CPU]
  BY DEF Lists
<1>2. Len(cores) = Readers /\ DOMAIN cores = 1 .. Readers /\ n = Readers
  BY <1>1
<1>3. \A k \in 1 .. Readers : cores[k] \in CPU
  BY <1>1, <1>2
<1>4. \A i \in Socket : Target(i) = cores[i + 1] /\ i + 1 \in 1 .. Readers
  <2> SUFFICES ASSUME NEW i \in Socket
               PROVE  Target(i) = cores[i + 1] /\ i + 1 \in 1 .. Readers
    OBVIOUS
  <2>1. i \in Nat /\ i < Readers /\ i % Readers = i
    BY DEF Socket
  <2> QED
    BY <2>1, <1>2 DEF Target
<1>5. ASSUME NEW c \in CPU, ~\E k \in DOMAIN cores : cores[k] = c
      PROVE  SteeredTo(cores, c) \in Socket /\ c \notin Range(cores)
  <2>1. SteeredTo(cores, c) = c % Readers
    BY <1>2, <1>5 DEF SteeredTo
  <2>2. c % Readers \in 0 .. Readers - 1
    OBVIOUS
  <2> QED
    BY <1>5, <2>1, <2>2 DEF Socket, Range
<1>6. ASSUME NEW c \in CPU, \E k \in DOMAIN cores : cores[k] = c
      PROVE  SteeredTo(cores, c) \in Socket /\ cores[SteeredTo(cores, c) + 1] = c
  <2> DEFINE at == CHOOSE k \in DOMAIN cores : cores[k] = c
  <2>1. at \in 1 .. Readers /\ cores[at] = c
    BY <1>2, <1>6
  <2>2. SteeredTo(cores, c) = at - 1
    BY <1>6 DEF SteeredTo
  <2> HIDE DEF at
  <2>3. at - 1 \in Socket /\ (at - 1) + 1 = at
    BY <2>1 DEF Socket
  <2> QED
    BY <2>1, <2>2, <2>3
<1>7. \A c \in CPU : SteeredTo(cores, c) \in Socket
  BY <1>5, <1>6
<1>8. \A c \in CPU : c \in Range(cores) => Target(SteeredTo(cores, c)) = c
  BY <1>4, <1>5, <1>6
<1> QED
  BY <1>2, <1>3, <1>4, <1>7, <1>8

LEMMA InitEInv == Init => EInv
<1> SUFFICES ASSUME Init PROVE EInv
  OBVIOUS
<1>1. TypeOK
  <2>1. /\ 0 \in Socket /\ <<>> \in Seq(Socket) /\ Len(<<>>) = 0
        /\ <<>> \in Seq(Packet) /\ lines \in Seq([n: Nat, cpus: SUBSET CPU])
    BY DEF Init, Socket
  <2>2. queue \in [Socket -> Seq(Packet)] /\ \A s \in Socket : Len(queue[s]) = 0
    BY <2>1 DEF Init
  <2>3. held \in [Socket -> Packet \cup {NoPacket}]
    BY DEF Init
  <2>4. hist \in [Socket -> [CPU -> Nat]] /\ counts \in [Socket -> Nat]
    BY DEF Init
  <2>5. lastCPU \in [Socket -> CPU \cup {NoCPU}] /\ thread \in [Socket -> CPU \cup {Anywhere}]
    BY DEF Init
  <2> QED
    BY <2>1, <2>2, <2>3, <2>4, <2>5 DEF Init, TypeOK
<1>2. GroupInOrder /\ LinesInStep /\ SpawnedInOrder
  BY DEF Init, GroupInOrder, LinesInStep, SpawnedInOrder
<1>3. SteeredGoHome
  BY DEF Init, SteeredGoHome, NoPacket
<1>4. RunningArePinned /\ KnownCPUs
  BY DEF Init, RunningArePinned, KnownCPUs
<1> QED
  BY <1>1, <1>2, <1>3, <1>4 DEF EInv

-----------------------------------------------------------------------------
(* What a step leaves alone                                                *)

LEMMA LinesInRange ==
    ASSUME EInv
    PROVE  \A k \in DOMAIN lines : lines[k].cpus \subseteq CPU
<1> DEFINE Line == [n: Nat, cpus: SUBSET CPU]
<1>1. lines \in Seq(Line)
  BY DEF EInv, TypeOK
<1>2. \A k \in DOMAIN lines : lines[k] \in Line
  <2> HIDE DEF Line
  <2> QED
    BY <1>1
<1> QED
  BY <1>2

LEMMA GroupKept ==
    ASSUME EInv, UNCHANGED <<config, setup>> PROVE GroupInOrder'
BY DEF EInv, GroupInOrder, config, setup

LEMMA LinesKept ==
    ASSUME EInv, UNCHANGED <<setup, report>> PROVE LinesInStep'
BY DEF EInv, LinesInStep, setup, report

LEMMA PacketsKept ==
    ASSUME EInv, UNCHANGED <<config, attached, queue, held, pc>> PROVE SteeredGoHome'
BY DEF EInv, SteeredGoHome, Home, config

LEMMA SpawnedKept ==
    ASSUME EInv, UNCHANGED <<main, next, pc>> PROVE SpawnedInOrder'
BY DEF EInv, SpawnedInOrder

LEMMA PinsKept ==
    ASSUME EInv, UNCHANGED <<config, pc, thread>> PROVE RunningArePinned'
BY DEF EInv, RunningArePinned, Target, config

LEMMA KnownKept ==
    ASSUME EInv, UNCHANGED <<config, attached, lastCPU, hist, early, lines>> PROVE KnownCPUs'
BY DEF EInv, KnownCPUs, Knows, config

-----------------------------------------------------------------------------
(* The kernel                                                              *)

(* A steered packet goes to the socket of its core: the group is complete  *)
(* and in the order of the sockets.                                        *)
LEMMA DestIsHome ==
    ASSUME EInv, NEW c \in CPU, NEW s \in Dest(c)
    PROVE  s \in Socket /\ (attached => SteeredTo(cores, c) = s)
<1>1. cores \in CoreLists /\ group \in Seq(Socket)
  BY DEF EInv, TypeOK
<1>2. SteeredTo(cores, c) \in Socket
  BY <1>1, CoreFacts
<1>3. s \in Socket
  BY <1>1, <1>2 DEF Dest, Range, Socket
<1>4. ASSUME attached PROVE SteeredTo(cores, c) = s
  <2>1. Len(group) = Readers /\ SteeredTo(cores, c) + 1 \in 1 .. Len(group)
    BY <1>2, <1>4 DEF EInv, GroupInOrder, Socket
  <2>2. group[SteeredTo(cores, c) + 1] = SteeredTo(cores, c)
    BY <1>1, <1>2, <2>1 DEF EInv, GroupInOrder, Socket
  <2>3. s = group[SteeredTo(cores, c) + 1]
    BY <1>2, <1>4, <2>1 DEF Dest, Socket
  <2> QED
    BY <2>2, <2>3
<1> QED
  BY <1>3, <1>4

LEMMA DeliverStep == ASSUME EInv, NEW c \in CPU, Deliver(c) PROVE EInv'
<1>0. /\ UNCHANGED <<config, setup, reader, report>>
      /\ TypeOK
  BY DEF Deliver, EInv
<1>1. GroupInOrder' /\ LinesInStep' /\ SpawnedInOrder' /\ RunningArePinned'
  BY <1>0, GroupKept, LinesKept, SpawnedKept, PinsKept DEF setup, reader
<1>2. PICK s \in Dest(c) :
         \/ /\ Fits(s)
            /\ queue' = [queue EXCEPT ![s] = Append(@, [cpu |-> c, steered |-> attached])]
            /\ lastCPU' = [lastCPU EXCEPT ![s] = c]
            /\ early' = IF attached THEN early ELSE [early EXCEPT ![s] = @ \cup {c}]
            /\ UNCHANGED dropped
         \/ /\ dropped' = dropped + 1
            /\ UNCHANGED <<queue, lastCPU, early>>
  BY DEF Deliver
<1>3. s \in Socket /\ (attached => SteeredTo(cores, c) = s)
  BY DestIsHome
<1>4. arrived' = arrived + 1 /\ arrived' \in 0 .. MaxPackets /\ arrived \in Nat
  BY <1>0 DEF Deliver, TypeOK
<1>5. cores' = cores /\ flags' = flags /\ attached' = attached /\ held' = held /\ pc' = pc
      /\ hist' = hist
  BY <1>0 DEF config, setup, reader
<1>6. CASE UNCHANGED <<queue, lastCPU, early>> /\ dropped' = dropped + 1
  <2>1. TypeOK'
    <3>1. dropped' \in 0 .. arrived'
      BY <1>0, <1>4, <1>6 DEF TypeOK
    <3> QED
      BY <1>0, <1>4, <1>6, <3>1 DEF TypeOK, config, setup, reader, report
  <2>2. SteeredGoHome' /\ KnownCPUs'
    BY <1>0, <1>5, <1>6, PacketsKept, KnownKept DEF report
  <2> QED
    BY <1>1, <2>1, <2>2 DEF EInv
<1>7. CASE /\ Fits(s)
           /\ queue' = [queue EXCEPT ![s] = Append(@, [cpu |-> c, steered |-> attached])]
           /\ lastCPU' = [lastCPU EXCEPT ![s] = c]
           /\ early' = IF attached THEN early ELSE [early EXCEPT ![s] = @ \cup {c}]
           /\ UNCHANGED dropped
  <2> DEFINE p == [cpu |-> c, steered |-> attached]
  <2>0. queue \in [Socket -> Seq(Packet)] /\ p \in Packet /\ queue[s] \in Seq(Packet)
    BY <1>0, <1>3 DEF TypeOK, Packet
  <2>1. /\ queue'[s] = Append(queue[s], p)
        /\ \A i \in Socket \ {s} : queue'[i] = queue[i]
    BY <1>3, <1>7, <2>0
  <2>2. /\ Len(queue'[s]) = Len(queue[s]) + 1 /\ Len(queue[s]) \in Nat
        /\ queue'[s][Len(queue[s]) + 1] = p
        /\ \A k \in 1 .. Len(queue[s]) : queue'[s][k] = queue[s][k]
    <3> HIDE DEF p
    <3> QED
      BY <2>0, <2>1
  <2>3. TypeOK'
    <3>1. queue' \in [Socket -> Seq(Packet)]
      <4>1. Append(queue[s], p) \in Seq(Packet)
        BY <2>0
      <4> QED
        BY <1>7, <2>0, <4>1
    <3>2. \A i \in Socket : Len(queue'[i]) <= QueueCap
      BY <1>0, <1>3, <1>7, <2>1, <2>2 DEF TypeOK, Fits
    <3>3. lastCPU' \in [Socket -> CPU \cup {NoCPU}]
      BY <1>0, <1>3, <1>7 DEF TypeOK
    <3>4. dropped' \in 0 .. arrived'
      BY <1>0, <1>4, <1>7 DEF TypeOK
    <3> QED
      BY <1>0, <1>4, <3>1, <3>2, <3>3, <3>4 DEF TypeOK, config, setup, reader, report
  <2>4. SteeredGoHome'
    <3>1. ASSUME NEW i \in Socket, NEW k \in 1 .. Len(queue'[i])
          PROVE  Home(queue[i][k], i)'
      <4>1. CASE i = s /\ k = Len(queue[s]) + 1
        BY <1>3, <1>5, <2>2, <4>1 DEF Home
      <4>2. CASE ~(i = s /\ k = Len(queue[s]) + 1)
        <5>1. k \in 1 .. Len(queue[i]) /\ queue'[i][k] = queue[i][k]
          BY <2>1, <2>2, <4>2
        <5>2. Home(queue[i][k], i)
          BY <5>1 DEF EInv, SteeredGoHome
        <5> QED
          BY <1>5, <5>1, <5>2 DEF Home
      <4> QED
        BY <4>1, <4>2
    <3>2. \A i \in Socket : held'[i].steered =>
             Home(held[i], i)' /\ pc'[i] \in {"count", "sample", "send"}
      BY <1>5 DEF EInv, SteeredGoHome, Home
    <3> QED
      BY <3>1, <3>2 DEF SteeredGoHome
  <2>5. KnownCPUs'
    <3>0. early \in [Socket -> SUBSET CPU]
      BY DEF EInv, KnownCPUs
    <3>1. early' \in [Socket -> SUBSET CPU] /\ \A i \in Socket : early[i] \subseteq early'[i]
      BY <1>3, <1>7, <3>0
    <3>2. \A i \in Socket, e \in CPU : Knows(i, e) => Knows(i, e)'
      BY <1>5, <3>1 DEF Knows
    <3>3. Knows(s, c)'
      BY <1>3, <1>5, <1>7, <3>0 DEF Knows
    <3>4. \A i \in Socket : lastCPU'[i] # NoCPU => Knows(i, lastCPU[i])'
      <4>1. lastCPU'[s] = c /\ \A i \in Socket \ {s} : lastCPU'[i] = lastCPU[i]
        BY <1>0, <1>3, <1>7 DEF TypeOK
      <4>2. ASSUME NEW i \in Socket \ {s}, lastCPU'[i] # NoCPU PROVE Knows(i, lastCPU[i])'
        <5>1. Knows(i, lastCPU[i]) /\ lastCPU[i] \in CPU
          BY <1>0, <4>1, <4>2 DEF EInv, KnownCPUs, TypeOK
        <5> QED
          BY <1>5, <3>1, <4>1, <5>1 DEF Knows
      <4>3. Knows(s, lastCPU[s])'
        BY <1>3, <1>5, <1>7, <3>0, <4>1 DEF Knows
      <4> QED
        BY <4>1, <4>2, <4>3
    <3> QED
      <4>1. \A k \in DOMAIN lines : k - 1 \in Socket
        <5>1. next \in 0 .. Readers - 1 /\ main \notin {"done", "fatal"}
              /\ main \in {"build", "bind", "attach", "spawn", "serve", "load",
                           "format", "done", "fatal"}
          BY <1>0 DEF TypeOK, Deliver, Up, Socket
        <5>2. lines = <<>> \/ Len(lines) = next \/ Len(lines) = next + 1
          BY <5>1 DEF EInv, LinesInStep
        <5>3. Len(lines) <= Readers
          BY <5>1, <5>2
        <5>4. DOMAIN lines = 1 .. Len(lines)
          <6> DEFINE Line == [n: Nat, cpus: SUBSET CPU]
          <6>1. lines \in Seq(Line)
            BY <1>0 DEF TypeOK
          <6> HIDE DEF Line
          <6> QED
            BY <6>1
        <5> QED
          BY <5>3, <5>4 DEF Socket
      <4>2. lines' = lines
        BY <1>0 DEF report
      <4>3. \A k \in DOMAIN lines : \A e \in lines[k].cpus : Knows(k - 1, e)'
        BY <3>2, <4>1, LinesInRange DEF EInv, KnownCPUs
      <4>4. \A k \in DOMAIN lines' : \A e \in lines'[k].cpus : Knows(k - 1, e)'
        BY <4>2, <4>3
      <4>5. \A i \in Socket, e \in CPU : hist'[i][e] > 0 => Knows(i, e)'
        BY <1>5, <3>2 DEF EInv, KnownCPUs
      <4> QED
        BY <3>1, <3>4, <4>4, <4>5 DEF KnownCPUs
  <2> QED
    BY <1>1, <2>3, <2>4, <2>5 DEF EInv
<1> QED
  BY <1>2, <1>6, <1>7

-----------------------------------------------------------------------------
(* The main goroutine                                                      *)

(* A step of main that moves no packet and no reader keeps their part of   *)
(* the invariant.                                                          *)
LEMMA MainKeeps ==
    ASSUME EInv, UNCHANGED <<config, attached, kernel, pc, thread, held, hist, early>>
    PROVE  /\ SteeredGoHome' /\ RunningArePinned'
           /\ UNCHANGED lines => KnownCPUs'
BY PacketsKept, PinsKept, KnownKept DEF kernel

LEMMA FatalStep ==
    ASSUME EInv, main' = "fatal",
           UNCHANGED <<config, next, group, attached, kernel, reader, report, early>>
    PROVE  EInv'
<1>1. TypeOK'
  BY DEF EInv, TypeOK, config, kernel, reader, report
<1>2. GroupInOrder' /\ LinesInStep' /\ SpawnedInOrder'
  BY DEF EInv, GroupInOrder, LinesInStep, SpawnedInOrder, config, reader, report
<1> QED
  BY <1>1, <1>2, MainKeeps DEF EInv, reader, report

LEMMA BuildStep == ASSUME EInv, BuildPlan PROVE EInv'
<1>1. TypeOK'
  BY DEF EInv, TypeOK, BuildPlan, config, kernel, reader, report
<1>2. GroupInOrder' /\ LinesInStep' /\ SpawnedInOrder'
  BY DEF EInv, GroupInOrder, LinesInStep, SpawnedInOrder, BuildPlan, config, reader, report
<1> QED
  BY <1>1, <1>2, MainKeeps DEF EInv, BuildPlan, reader, report

(* The counter of a loop over the readers stays in range.                  *)
LEMMA LoopFacts ==
    ASSUME EInv, NEW step, NextOr(step)
    PROVE  /\ next \in Socket /\ next' \in Socket
           /\ \/ next + 1 < Readers /\ next' = next + 1 /\ main' = main
              \/ next + 1 = Readers /\ next' = 0 /\ main' = step
<1>1. next \in 0 .. Readers - 1
  BY DEF EInv, TypeOK, Socket
<1> QED
  BY <1>1 DEF NextOr, Socket

LEMMA BindStep == ASSUME EInv, BindSocket PROVE EInv'
<1>0. /\ main = "bind" /\ group' = Append(group, next) /\ NextOr("attach")
      /\ UNCHANGED <<config, attached, kernel, reader, report, base, early>>
      /\ TypeOK /\ group \in Seq(Socket) /\ Len(group) = next
      /\ ~attached
  BY DEF BindSocket, Joined, EInv, TypeOK, GroupInOrder, Socket
<1>1. /\ next \in Socket /\ next' \in Socket /\ next \in Nat
      /\ \/ next + 1 < Readers /\ next' = next + 1 /\ main' = "bind"
         \/ next + 1 = Readers /\ next' = 0 /\ main' = "attach"
  BY <1>0, LoopFacts DEF Socket
<1>2. group' \in Seq(Socket) /\ Len(group') = next + 1
  BY <1>0, <1>1
<1>3. TypeOK'
  <2>1. Len(group') <= Readers
    BY <1>1, <1>2 DEF Socket
  <2>2. main' \in {"bind", "attach"}
    BY <1>1
  <2> QED
    BY <1>0, <1>1, <1>2, <2>1, <2>2 DEF TypeOK, config, kernel, reader, report
<1>4. GroupInOrder'
  <2>1. \A k \in DOMAIN group' : group'[k] = k - 1
    BY <1>0, <1>1, <1>2 DEF EInv, GroupInOrder
  <2> QED
    BY <1>0, <1>1, <1>2, <2>1 DEF GroupInOrder
<1>5. LinesInStep' /\ SpawnedInOrder'
  BY <1>0, <1>1 DEF EInv, LinesInStep, SpawnedInOrder, report, reader
<1> QED
  BY <1>0, <1>3, <1>4, <1>5, MainKeeps DEF EInv, reader, report

(* The program is attached to the complete group, before any packet was    *)
(* steered.                                                                *)
LEMMA AttachStep == ASSUME EInv, AttachSteering PROVE EInv'
<1>0. /\ main = "attach" /\ main' = "spawn" /\ attached' = steerOn
      /\ UNCHANGED <<config, next, group, kernel, reader, report, base, early>>
      /\ TypeOK /\ ~attached /\ Len(group) = Readers
  BY DEF AttachSteering, EInv, GroupInOrder
<1>1. TypeOK'
  BY <1>0 DEF TypeOK, steerOn, config, kernel, reader, report
<1>2. GroupInOrder' /\ LinesInStep' /\ SpawnedInOrder'
  BY <1>0 DEF EInv, GroupInOrder, LinesInStep, SpawnedInOrder, TypeOK, Socket,
              steerOn, config, report, reader
<1>3. SteeredGoHome' /\ KnownCPUs'
  <2>1. SteeredGoHome'
    BY <1>0 DEF EInv, SteeredGoHome, Home, config, kernel, reader
  <2>2. lines = <<>>
    BY <1>0 DEF EInv, LinesInStep
  <2> QED
    BY <1>0, <2>1, <2>2 DEF EInv, KnownCPUs, Knows, config, kernel, reader, report
<1> QED
  BY <1>0, <1>1, <1>2, <1>3, PinsKept DEF EInv, reader

LEMMA SpawnStep == ASSUME EInv, SpawnReader PROVE EInv'
<1>0. /\ main = "spawn" /\ pc' = [pc EXCEPT ![next] = "start"] /\ NextOr("serve")
      /\ UNCHANGED <<config, group, attached, kernel, thread, held, counts, hist>>
      /\ UNCHANGED <<report, base, early>>
      /\ TypeOK
  BY DEF SpawnReader, Spawned, EInv
<1>1. /\ next \in Socket /\ next' \in Socket
      /\ main' = "spawn" \/ (main' = "serve" /\ next' = 0)
  BY <1>0, LoopFacts
<1>2. TypeOK'
  BY <1>0, <1>1 DEF TypeOK, config, kernel, report
<1>3. GroupInOrder' /\ LinesInStep'
  BY <1>0, <1>1 DEF EInv, GroupInOrder, LinesInStep, config, report
<1>2a. /\ pc[next] = "none"
      /\ \A i \in Socket \ {next} : pc'[i] = pc[i]
  <2>1. next \in Nat
    BY <1>1 DEF Socket
  <2> QED
    BY <1>0, <1>1, <2>1 DEF EInv, SpawnedInOrder, TypeOK
<1>4. SpawnedInOrder'
  <2>1. CASE main' = "spawn" /\ next' = next + 1
    <3>1. \A i \in Socket : i >= next' => i # next /\ i >= next
      BY <1>1, <2>1 DEF Socket
    <3> QED
      BY <1>0, <1>2a, <2>1, <3>1 DEF EInv, SpawnedInOrder
  <2> QED
    BY <1>0, <2>1, LoopFacts DEF SpawnedInOrder
<1>5. SteeredGoHome'
  <2>1. \A i \in Socket : held[i].steered => i # next
    BY <1>2a DEF EInv, SteeredGoHome
  <2> QED
    BY <1>0, <1>2a, <2>1 DEF EInv, SteeredGoHome, Home, config, kernel
<1>6. RunningArePinned'
  BY <1>0, <1>1 DEF EInv, RunningArePinned, Target, TypeOK, config
<1>7. KnownCPUs'
  BY <1>0, KnownKept DEF kernel, report
<1> QED
  BY <1>2, <1>3, <1>4, <1>5, <1>6, <1>7 DEF EInv

LEMMA SignalStep == ASSUME EInv, Signal PROVE EInv'
<1>0. /\ main = "serve" /\ main' = "load" /\ next = 0
      /\ UNCHANGED <<config, next, group, attached, kernel, reader, report, early>>
  BY DEF Signal, EInv, LinesInStep
<1>1. TypeOK'
  BY <1>0 DEF EInv, TypeOK, config, kernel, reader, report
<1>2. GroupInOrder' /\ LinesInStep' /\ SpawnedInOrder'
  BY <1>0 DEF EInv, GroupInOrder, LinesInStep, SpawnedInOrder, config, reader, report
<1> QED
  BY <1>0, <1>1, <1>2, MainKeeps DEF EInv, reader, report

LEMMA LoadStep == ASSUME EInv, LoadCount PROVE EInv'
<1> DEFINE line == [n |-> counts[next], cpus |-> {}]
<1>0. /\ main = "load" /\ main' = "format" /\ lines' = Append(lines, line)
      /\ UNCHANGED <<config, next, group, attached, kernel, reader, total, base, early>>
      /\ TypeOK /\ Len(lines) = next
  BY DEF LoadCount, EInv, LinesInStep
<1>1. lines \in Seq([n: Nat, cpus: SUBSET CPU]) /\ line \in [n: Nat, cpus: SUBSET CPU]
  BY <1>0 DEF TypeOK
<1>2. lines' \in Seq([n: Nat, cpus: SUBSET CPU]) /\ Len(lines') = next + 1
  <2> HIDE DEF line
  <2> QED
    BY <1>0, <1>1
<1>3. TypeOK'
  BY <1>0, <1>2 DEF TypeOK, config, kernel, reader
<1>4. GroupInOrder' /\ LinesInStep' /\ SpawnedInOrder'
  BY <1>0, <1>2 DEF EInv, GroupInOrder, LinesInStep, SpawnedInOrder, config, reader
<1>5. KnownCPUs'
  <2>1. KnownCPUs /\ UNCHANGED <<cores, attached, lastCPU, hist, early>>
    BY <1>0 DEF EInv, config, kernel, reader
  <2>2. \A k \in DOMAIN lines' : lines'[k].cpus # {} => k \in DOMAIN lines /\ lines'[k] = lines[k]
    <3>1. \A k \in DOMAIN lines' :
            (k \in DOMAIN lines /\ lines'[k] = lines[k]) \/ lines'[k] = line
      <4> HIDE DEF line
      <4> QED
        BY <1>0, <1>1
    <3> QED
      BY <3>1
  <2> QED
    BY <2>1, <2>2 DEF KnownCPUs, Knows
<1> QED
  BY <1>0, <1>3, <1>4, <1>5, MainKeeps DEF EInv, reader

LEMMA FormatStep == ASSUME EInv, FormatHistogram PROVE EInv'
<1> DEFINE Line == [n: Nat, cpus: SUBSET CPU]
           seen == {c \in CPU : hist[next][c] > 0}
<1>0. /\ main = "format" /\ lines' = [lines EXCEPT ![next + 1].cpus = seen]
      /\ total' = total + lines[next + 1].n
      /\ \/ next + 1 < Readers /\ next' = next + 1 /\ main' = "load"
         \/ next + 1 >= Readers /\ next' = 0 /\ main' = "done"
      /\ UNCHANGED <<config, group, attached, kernel, reader, base, early>>
      /\ TypeOK /\ Len(lines) = next + 1 /\ next \in 0 .. Readers - 1
      /\ lines \in Seq(Line)
  <2>1. /\ TypeOK /\ Len(lines) = next + 1 /\ next \in 0 .. Readers - 1
        /\ lines \in Seq(Line)
    BY DEF FormatHistogram, EInv, LinesInStep, TypeOK, Socket
  <2> QED
    BY <2>1 DEF FormatHistogram, Addend
<1>1. next' \in Socket /\ main' \in {"load", "done"}
  BY <1>0 DEF Socket
<1>2. next + 1 \in DOMAIN lines /\ lines[next + 1] \in Line
  <2> HIDE DEF Line
  <2> QED
    BY <1>0
<1>3. total' \in Nat
  <2>1. total \in Nat /\ lines[next + 1].n \in Nat
    BY <1>0, <1>2 DEF TypeOK
  <2>2. total' = total + lines[next + 1].n
    BY <1>0
  <2> QED
    BY <2>1, <2>2
<1>4. lines' \in Seq(Line) /\ Len(lines') = next + 1
  <2>1. [lines[next + 1] EXCEPT !.cpus = seen] \in Line
    BY <1>2
  <2>2. lines' = [lines EXCEPT ![next + 1] = [lines[next + 1] EXCEPT !.cpus = seen]]
    BY <1>0
  <2> HIDE DEF Line, seen
  <2> QED
    BY <1>0, <1>2, <2>1, <2>2
<1>5. TypeOK'
  BY <1>0, <1>1, <1>3, <1>4 DEF TypeOK, config, kernel, reader
<1>6. GroupInOrder' /\ LinesInStep' /\ SpawnedInOrder'
  BY <1>0, <1>4 DEF EInv, GroupInOrder, LinesInStep, SpawnedInOrder, config, reader
<1>7. KnownCPUs'
  <2>1. KnownCPUs /\ UNCHANGED <<cores, attached, lastCPU, hist, early>>
    BY <1>0 DEF EInv, config, kernel, reader
  <2>2. \A k \in DOMAIN lines' :
          k \in DOMAIN lines /\ lines'[k].cpus = IF k = next + 1 THEN seen ELSE lines[k].cpus
    <3>1. \A k \in DOMAIN lines : lines[k] \in Line
      <4> HIDE DEF Line
      <4> QED
        BY <1>0
    <3> HIDE DEF seen
    <3> QED
      BY <1>0, <1>2, <3>1
  <2>3. \A c \in seen : Knows(next, c)
    BY <1>0, <2>1 DEF KnownCPUs, Socket
  <2>4. \A k \in DOMAIN lines' : \A c \in lines'[k].cpus : Knows(k - 1, c)
    <3> HIDE DEF seen
    <3> TAKE k \in DOMAIN lines'
    <3>1. CASE k = next + 1
      <4>1. k - 1 = next
        BY <1>0, <3>1 DEF Socket
      <4>2. lines'[k].cpus = seen
        BY <2>2, <3>1
      <4> QED
        BY <2>3, <4>1, <4>2
    <3>2. CASE k # next + 1
      <4>1. k \in DOMAIN lines /\ lines'[k].cpus = lines[k].cpus
        BY <2>2, <3>2
      <4> QED
        BY <2>1, <4>1 DEF KnownCPUs
    <3> QED
      BY <3>1, <3>2
  <2> QED
    BY <2>1, <2>4 DEF KnownCPUs, Knows
<1> QED
  BY <1>0, <1>5, <1>6, <1>7, MainKeeps DEF EInv, reader

-----------------------------------------------------------------------------
(* A reader                                                                *)

(* What every step of reader i leaves alone: the step of another.          *)
LEMMA StepOfReader ==
    ASSUME EInv, NEW i \in Socket, UNCHANGED <<config, setup, report>>,
           pc[i] # "none", NEW step, Go(i, step)
    PROVE  /\ GroupInOrder' /\ LinesInStep' /\ SpawnedInOrder'
           /\ cores' = cores /\ flags' = flags /\ attached' = attached
           /\ pc'[i] = step /\ \A r \in Socket \ {i} : pc'[r] = pc[r]
<1>1. pc'[i] = step /\ \A r \in Socket \ {i} : pc'[r] = pc[r]
  BY DEF EInv, TypeOK, Go
<1>2. SpawnedInOrder'
  BY <1>1 DEF EInv, SpawnedInOrder, setup
<1> QED
  BY <1>1, <1>2, GroupKept, LinesKept DEF config, setup

LEMMA StartStep == ASSUME EInv, NEW i \in Socket, Start(i) PROVE EInv'
<1>0. /\ UNCHANGED <<config, setup, report, base, early>> /\ pc[i] = "start" /\ Go(i, "read")
      /\ thread' = [thread EXCEPT ![i] = IF flags.pin THEN Target(i) ELSE Anywhere]
      /\ UNCHANGED <<kernel, held, counts, hist>>
      /\ TypeOK
  BY DEF Start, PinnedTo, At, EInv
<1>1. /\ GroupInOrder' /\ LinesInStep' /\ SpawnedInOrder'
      /\ cores' = cores /\ flags' = flags /\ attached' = attached
      /\ pc'[i] = "read" /\ \A r \in Socket \ {i} : pc'[r] = pc[r]
  BY <1>0, StepOfReader
<1>2. Target(i) \in CPU
  BY <1>0, CoreFacts DEF TypeOK
<1>3. TypeOK'
  <2>1. thread' \in [Socket -> CPU \cup {Anywhere}]
    BY <1>0, <1>2 DEF TypeOK
  <2>2. pc' \in [Socket -> {"none", "start", "read", "count", "sample", "send", "gone"}]
    BY <1>0 DEF TypeOK, Go
  <2> QED
    BY <1>0, <2>1, <2>2 DEF TypeOK, config, setup, kernel, report
<1>4. SteeredGoHome'
  BY <1>0, <1>1 DEF EInv, SteeredGoHome, Home, kernel
<1>5. RunningArePinned'
  BY <1>0, <1>1 DEF EInv, RunningArePinned, Target, TypeOK
<1>6. KnownCPUs'
  BY <1>0, <1>1, KnownKept DEF kernel, report
<1> QED
  BY <1>1, <1>3, <1>4, <1>5, <1>6 DEF EInv

LEMMA ReadStep == ASSUME EInv, NEW i \in Socket, Read(i) PROVE EInv'
<1>0. /\ UNCHANGED <<config, setup, report, base, early>> /\ pc[i] = "read" /\ Go(i, "count")
      /\ queue[i] # <<>>
      /\ held' = [held EXCEPT ![i] = Head(queue[i])]
      /\ queue' = [queue EXCEPT ![i] = Tail(@)]
      /\ UNCHANGED <<lastCPU, arrived, dropped, thread, counts, hist>>
      /\ TypeOK /\ queue \in [Socket -> Seq(Packet)] /\ queue[i] \in Seq(Packet)
  BY DEF Read, At, EInv, TypeOK
<1>1. /\ GroupInOrder' /\ LinesInStep' /\ SpawnedInOrder'
      /\ cores' = cores /\ flags' = flags /\ attached' = attached
      /\ pc'[i] = "count" /\ \A r \in Socket \ {i} : pc'[r] = pc[r]
  BY <1>0, StepOfReader
<1>2. /\ Head(queue[i]) = queue[i][1] /\ Head(queue[i]) \in Packet
      /\ 1 \in 1 .. Len(queue[i])
      /\ Tail(queue[i]) \in Seq(Packet) /\ Len(Tail(queue[i])) = Len(queue[i]) - 1
      /\ \A k \in 1 .. Len(Tail(queue[i])) :
            k + 1 \in 1 .. Len(queue[i]) /\ Tail(queue[i])[k] = queue[i][k + 1]
  BY <1>0
<1>3. /\ queue'[i] = Tail(queue[i]) /\ held'[i] = Head(queue[i])
      /\ \A r \in Socket \ {i} : queue'[r] = queue[r] /\ held'[r] = held[r]
  BY <1>0 DEF TypeOK
<1>4. TypeOK'
  <2>1. queue' \in [Socket -> Seq(Packet)]
    BY <1>0, <1>2
  <2>2. \A s \in Socket : Len(queue'[s]) <= QueueCap
    BY <1>0, <1>2, <1>3 DEF TypeOK
  <2>3. held' \in [Socket -> Packet \cup {NoPacket}]
    BY <1>0, <1>2 DEF TypeOK
  <2>4. pc' \in [Socket -> {"none", "start", "read", "count", "sample", "send", "gone"}]
    BY <1>0 DEF TypeOK, Go
  <2> QED
    BY <1>0, <2>1, <2>2, <2>3, <2>4 DEF TypeOK, config, setup, report
<1>5. SteeredGoHome'
  <2>1. \A r \in Socket : \A k \in 1 .. Len(queue[r]) : Home(queue[r][k], r)
    BY DEF EInv, SteeredGoHome
  <2>2. ASSUME NEW r \in Socket, NEW k \in 1 .. Len(queue'[r])
        PROVE  Home(queue[r][k], r)'
    <3>1. CASE r = i
      <4>1. Home(queue[i][k + 1], i) /\ queue'[i][k] = queue[i][k + 1]
        BY <1>2, <1>3, <2>1, <2>2, <3>1
      <4> QED
        BY <1>1, <3>1, <4>1 DEF Home
    <3>2. CASE r # i
      BY <1>1, <1>3, <2>1, <2>2, <3>2 DEF Home
    <3> QED
      BY <3>1, <3>2
  <2>3. ASSUME NEW r \in Socket, held'[r].steered
        PROVE  Home(held[r], r)' /\ pc'[r] \in {"count", "sample", "send"}
    <3>1. CASE r = i
      BY <1>1, <1>2, <1>3, <2>1, <3>1 DEF Home
    <3>2. CASE r # i
      BY <1>1, <1>3, <2>3, <3>2 DEF EInv, SteeredGoHome, Home
    <3> QED
      BY <3>1, <3>2
  <2> QED
    BY <2>2, <2>3 DEF SteeredGoHome
<1>6. RunningArePinned'
  BY <1>0, <1>1 DEF EInv, RunningArePinned, Target
<1>7. KnownCPUs'
  BY <1>0, <1>1, KnownKept DEF report
<1> QED
  BY <1>1, <1>4, <1>5, <1>6, <1>7 DEF EInv

LEMMA ReadFailsStep == ASSUME EInv, NEW i \in Socket, ReadFails(i) PROVE EInv'
<1>0. /\ UNCHANGED <<config, setup, report, base, early>> /\ pc[i] = "read" /\ Go(i, "gone")
      /\ thread' = [thread EXCEPT ![i] = Anywhere]
      /\ UNCHANGED <<kernel, held, counts, hist>>
      /\ TypeOK
  BY DEF ReadFails, At, EInv
<1>1. /\ GroupInOrder' /\ LinesInStep' /\ SpawnedInOrder'
      /\ cores' = cores /\ flags' = flags /\ attached' = attached
      /\ pc'[i] = "gone" /\ \A r \in Socket \ {i} : pc'[r] = pc[r]
  BY <1>0, StepOfReader
<1>2. TypeOK'
  <2>1. pc' \in [Socket -> {"none", "start", "read", "count", "sample", "send", "gone"}]
    BY <1>0 DEF TypeOK, Go
  <2> QED
    BY <1>0, <2>1 DEF TypeOK, config, setup, kernel, report
<1>3. SteeredGoHome'
  BY <1>0, <1>1 DEF EInv, SteeredGoHome, Home, kernel
<1>4. RunningArePinned'
  BY <1>0, <1>1 DEF EInv, RunningArePinned, Target, TypeOK
<1>5. KnownCPUs'
  BY <1>0, <1>1, KnownKept DEF kernel, report
<1> QED
  BY <1>1, <1>2, <1>3, <1>4, <1>5 DEF EInv

(* A reader that goes from one of its running steps to another keeps its   *)
(* packet and its core.                                                    *)
LEMMA RunningStep ==
    ASSUME EInv, NEW i \in Socket, UNCHANGED <<config, setup, report, kernel, thread, held>>,
           pc[i] \in {"count", "sample", "send"},
           NEW step \in {"count", "sample", "send"}, Go(i, step)
    PROVE  /\ GroupInOrder' /\ LinesInStep' /\ SpawnedInOrder'
           /\ SteeredGoHome' /\ RunningArePinned'
           /\ attached' = attached /\ cores' = cores
           /\ pc' \in [Socket -> {"none", "start", "read", "count", "sample", "send", "gone"}]
<1>1. /\ GroupInOrder' /\ LinesInStep' /\ SpawnedInOrder'
      /\ cores' = cores /\ flags' = flags /\ attached' = attached
      /\ pc'[i] = step /\ \A r \in Socket \ {i} : pc'[r] = pc[r]
  BY StepOfReader
<1>2. SteeredGoHome'
  BY <1>1 DEF EInv, SteeredGoHome, Home, kernel
<1>3. RunningArePinned'
  BY <1>1 DEF EInv, RunningArePinned, Target
<1>4. pc' \in [Socket -> {"none", "start", "read", "count", "sample", "send", "gone"}]
  BY DEF EInv, TypeOK, Go
<1> QED
  BY <1>1, <1>2, <1>3, <1>4

LEMMA CountStep == ASSUME EInv, NEW i \in Socket, Count(i) PROVE EInv'
<1>0. /\ UNCHANGED <<config, setup, report, base, early>> /\ pc[i] = "count"
      /\ counts' = [counts EXCEPT ![i] = @ + 1]
      /\ UNCHANGED <<kernel, thread, held, hist>>
      /\ TypeOK
  BY DEF Count, Counted, At, EInv
<1>1. PICK step \in {"sample", "send"} : Go(i, step)
  BY DEF Count
<1>2. /\ GroupInOrder' /\ LinesInStep' /\ SpawnedInOrder'
      /\ SteeredGoHome' /\ RunningArePinned'
      /\ attached' = attached /\ cores' = cores
      /\ pc' \in [Socket -> {"none", "start", "read", "count", "sample", "send", "gone"}]
  BY <1>0, <1>1, RunningStep
<1>3. counts' \in [Socket -> Nat]
  BY <1>0 DEF TypeOK
<1>4. TypeOK'
  BY <1>0, <1>2, <1>3 DEF TypeOK, config, setup, kernel, report
<1>5. KnownCPUs'
  BY <1>0, <1>2, KnownKept DEF kernel, report
<1> QED
  BY <1>2, <1>4, <1>5 DEF EInv

(* Also where there is nothing to increment.                               *)
LEMMA Bumped ==
    ASSUME NEW f \in [CPU -> Nat], NEW c
    PROVE  [f EXCEPT ![c] = f[c] + 1] \in [CPU -> Nat]
<1>1. CASE c \in CPU
  <2>1. f[c] + 1 \in Nat
    BY <1>1
  <2> QED
    BY <2>1
<1>2. CASE c \notin CPU
  BY <1>2
<1> QED
  BY <1>1, <1>2

(* The CPU that is recorded is the socket's, which it knows.               *)
LEMMA SampleStep == ASSUME EInv, NEW i \in Socket, Sample(i) PROVE EInv'
<1>0. /\ UNCHANGED <<config, setup, report, base, early>> /\ pc[i] = "sample" /\ Go(i, "send")
      /\ \/ hist' = [hist EXCEPT ![i][lastCPU[i]] = @ + 1]
         \/ UNCHANGED hist
      /\ UNCHANGED <<kernel, thread, held, counts>>
      /\ TypeOK /\ KnownCPUs
  BY DEF Sample, StatsOf, At, EInv
<1>1. /\ GroupInOrder' /\ LinesInStep' /\ SpawnedInOrder'
      /\ SteeredGoHome' /\ RunningArePinned'
      /\ attached' = attached /\ cores' = cores
      /\ pc' \in [Socket -> {"none", "start", "read", "count", "sample", "send", "gone"}]
  BY <1>0, RunningStep
<1>2. /\ hist \in [Socket -> [CPU -> Nat]]
      /\ \A r \in Socket, c \in CPU :
            hist'[r][c] = hist[r][c] \/ (r = i /\ c = lastCPU[i])
      /\ hist' \in [Socket -> [CPU -> Nat]]
  <2>1. hist \in [Socket -> [CPU -> Nat]]
    BY <1>0 DEF TypeOK
  <2>2. CASE UNCHANGED hist
    BY <2>1, <2>2
  <2>3. CASE hist' = [hist EXCEPT ![i][lastCPU[i]] = @ + 1]
    <3>1. hist' = [hist EXCEPT ![i] = [hist[i] EXCEPT ![lastCPU[i]] = hist[i][lastCPU[i]] + 1]]
      BY <2>3
    <3>2. [hist[i] EXCEPT ![lastCPU[i]] = hist[i][lastCPU[i]] + 1] \in [CPU -> Nat]
      <4>1. hist[i] \in [CPU -> Nat]
        BY <2>1
      <4> QED
        BY <4>1, Bumped
    <3> QED
      BY <2>1, <3>1, <3>2
  <2> QED
    BY <1>0, <2>1, <2>2, <2>3
<1>3. TypeOK'
  BY <1>0, <1>1, <1>2 DEF TypeOK, config, setup, kernel, report
<1>4. KnownCPUs'
  <2>1. lastCPU' = lastCPU /\ early' = early
    BY <1>0 DEF kernel
  <2>2. \A r \in Socket, c \in CPU : Knows(r, c)' = Knows(r, c)
    BY <1>1, <2>1 DEF Knows
  <2>3. \A r \in Socket : lastCPU[r] # NoCPU => Knows(r, lastCPU[r])'
    BY <1>0, <1>1, <2>1 DEF KnownCPUs, Knows
  <2>4. ASSUME NEW r \in Socket, NEW c \in CPU, hist'[r][c] > 0 PROVE Knows(r, c)
    <3>1. CASE hist'[r][c] = hist[r][c]
      BY <1>0, <2>4, <3>1 DEF KnownCPUs
    <3>2. CASE r = i /\ c = lastCPU[i]
      <4>1. c # NoCPU
        BY DEF NoCPU
      <4> QED
        BY <1>0, <3>2, <4>1 DEF KnownCPUs
    <3> QED
      BY <1>2, <3>1, <3>2
  <2> QED
    <3>1. \A k \in DOMAIN lines : \A c \in lines[k].cpus : Knows(k - 1, c)'
      BY <1>0, <1>1, <2>1 DEF KnownCPUs, Knows
    <3>2. lines' = lines
      BY <1>0 DEF report
    <3> QED
      BY <1>0, <2>1, <2>2, <2>3, <2>4, <3>1, <3>2 DEF KnownCPUs
<1> QED
  BY <1>1, <1>3, <1>4 DEF EInv

LEMMA SendStep == ASSUME EInv, NEW i \in Socket, Send(i) PROVE EInv'
<1>0. /\ UNCHANGED <<config, setup, report, base, early>> /\ pc[i] = "send" /\ Go(i, "read")
      /\ held' = [held EXCEPT ![i] = NoPacket]
      /\ UNCHANGED <<kernel, thread, counts, hist>>
      /\ TypeOK
  BY DEF Send, At, EInv
<1>1. /\ GroupInOrder' /\ LinesInStep' /\ SpawnedInOrder'
      /\ cores' = cores /\ flags' = flags /\ attached' = attached
      /\ pc'[i] = "read" /\ \A r \in Socket \ {i} : pc'[r] = pc[r]
  BY <1>0, StepOfReader
<1>2. TypeOK'
  <2>1. pc' \in [Socket -> {"none", "start", "read", "count", "sample", "send", "gone"}]
    BY <1>0 DEF TypeOK, Go
  <2>2. held' \in [Socket -> Packet \cup {NoPacket}]
    BY <1>0 DEF TypeOK
  <2> QED
    BY <1>0, <2>1, <2>2 DEF TypeOK, config, setup, kernel, report
<1>3. SteeredGoHome'
  <2>1. held'[i] = NoPacket /\ \A r \in Socket \ {i} : held'[r] = held[r]
    BY <1>0 DEF TypeOK
  <2>2. ~held'[i].steered
    BY <2>1 DEF NoPacket
  <2> QED
    BY <1>0, <1>1, <2>1, <2>2 DEF EInv, SteeredGoHome, Home, kernel
<1>4. RunningArePinned'
  BY <1>0, <1>1 DEF EInv, RunningArePinned, Target
<1>5. KnownCPUs'
  BY <1>0, <1>1, KnownKept DEF kernel, report
<1> QED
  BY <1>1, <1>2, <1>3, <1>4, <1>5 DEF EInv

-----------------------------------------------------------------------------
LEMMA NextEInv == EInv /\ [Next]_vars => EInv'
<1> SUFFICES ASSUME EInv, [Next]_vars PROVE EInv'
  OBVIOUS
<1>1. CASE Main
  BY <1>1, BuildStep, BindStep, AttachStep, SpawnStep, LoadStep, FormatStep DEF Main
<1>2. CASE SetupFails
  BY <1>2, FatalStep DEF SetupFails, Fatal
<1>3. CASE Signal
  BY <1>3, SignalStep
<1>4. CASE \E c \in CPU : Deliver(c)
  BY <1>4, DeliverStep
<1>5. CASE \E i \in Socket : Reader(i)
  BY <1>5, StartStep, ReadStep, CountStep, SampleStep, SendStep DEF Reader
<1>6. CASE \E i \in Socket : StartFails(i)
  BY <1>6, FatalStep DEF StartFails
<1>7. CASE \E i \in Socket : ReadFails(i)
  BY <1>7, ReadFailsStep
<1>8. CASE UNCHANGED vars
  <2>1. UNCHANGED <<config, setup, kernel, reader, report, early>>
    BY <1>8 DEF vars
  <2>2. TypeOK'
    BY <2>1 DEF EInv, TypeOK, config, setup, kernel, reader, report
  <2> QED
    BY <2>1, <2>2, GroupKept, LinesKept, SpawnedKept, MainKeeps
    DEF EInv, setup, reader, report
<1> QED
  BY <1>1, <1>2, <1>3, <1>4, <1>5, <1>6, <1>7, <1>8 DEF Next

(* The types, and why the two properties below hold: the group's order,    *)
(* the way of a steered packet and the pins of the readers, for any        *)
(* number of readers and packets (main.go:126-196).                        *)
THEOREM EchoInvariant == Spec => []EInv
<1> QED
  BY InitEInv, NextEInv, PTL DEF Spec

(* A steered packet of a reader's core is read on that core, whatever the  *)
(* reader cores are and wherever packets arrive between the steps of the   *)
(* set-up (main.go:131, 161-163).                                          *)
THEOREM ReadsAreAligned == Spec => []AlignedReads
<1>1. EInv => AlignedReads
  <2> SUFFICES ASSUME EInv, NEW i \in Socket, held[i].steered, held[i].cpu \in Range(cores)
               PROVE  thread[i] = held[i].cpu
    BY DEF AlignedReads
  <2>1. cores \in CoreLists /\ held[i] \in Packet
    BY DEF EInv, TypeOK, NoPacket
  <2>2. attached /\ SteeredTo(cores, held[i].cpu) = i /\ pc[i] \in {"count", "sample", "send"}
    BY DEF EInv, SteeredGoHome, Home
  <2>3. thread[i] = Target(i)
    BY <2>2 DEF EInv, GroupInOrder, RunningArePinned
  <2>4. Target(SteeredTo(cores, held[i].cpu)) = held[i].cpu
    BY <2>1, CoreFacts DEF Packet
  <2> QED
    BY <2>2, <2>3, <2>4
<1> QED
  BY <1>1, EchoInvariant, PTL

(* A histogram that names a CPU which is not steered to its socket names   *)
(* it because of a packet from before the program was attached             *)
(* (main.go:10-11, 186-192).                                               *)
THEOREM HistogramsShowLocality == Spec => []HistogramsAreLocal
<1>1. EInv => HistogramsAreLocal
  BY DEF EInv, KnownCPUs, Knows, HistogramsAreLocal
<1> QED
  BY <1>1, EchoInvariant, PTL

-----------------------------------------------------------------------------
(* The packets, added up over the sockets.                                 *)

Lengths(q) == [s \in Socket |-> Len(q[s])]
Uncounted(p) == [i \in Socket |-> IF p[i] = "count" THEN 1 ELSE 0]

LEMMA SocketsFinite == IsFiniteSet(Socket) /\ 0 \in Socket
<1>1. Readers - 1 \in Int
  OBVIOUS
<1> QED
  BY <1>1, FS_Interval DEF Socket

LEMMA EchoTypes ==
    ASSUME TypeOK
    PROVE  /\ arrived \in Int /\ dropped \in Int /\ next \in Socket
           /\ counts \in [Socket -> Nat] /\ queue \in [Socket -> Seq(Packet)]
           /\ pc \in [Socket -> {"none", "start", "read", "count", "sample", "send", "gone"}]
<1>1. arrived \in 0 .. MaxPackets /\ dropped \in 0 .. arrived
  BY DEF TypeOK
<1>2. arrived \in Int /\ dropped \in Int
  BY <1>1
<1> QED
  BY <1>2 DEF TypeOK

LEMMA CountsAreNumbers ==
    ASSUME TypeOK
    PROVE  \A i \in Socket : /\ counts[i] \in Nat /\ Lengths(queue)[i] \in Nat
                             /\ Uncounted(pc)[i] \in Nat
<1> SUFFICES ASSUME NEW i \in Socket
             PROVE  counts[i] \in Nat /\ Len(queue[i]) \in Nat
  BY DEF Lengths, Uncounted
<1>1. counts \in [Socket -> Nat] /\ queue \in [Socket -> Seq(Packet)]
  BY DEF TypeOK
<1>2. queue[i] \in Seq(Packet)
  BY <1>1
<1> QED
  BY <1>1, <1>2

LEMMA AccountedAsSums ==
    ASSUME counts \in [Socket -> Nat]
    PROVE  PacketsAccounted <=>
               arrived = dropped + SumFunctionOnSet(counts, Socket)
                           + SumFunctionOnSet(Lengths(queue), Socket)
                           + SumFunctionOnSet(Uncounted(pc), Socket)
<1>1. DOMAIN counts = Socket
  OBVIOUS
<1>2. DOMAIN Lengths(queue) = Socket /\ DOMAIN Uncounted(pc) = Socket
  BY DEF Lengths, Uncounted
<1> QED
  BY <1>1, <1>2 DEF PacketsAccounted, SumFunction, Lengths, Uncounted

LEMMA OneMoves ==
    ASSUME NEW f, NEW g, NEW s \in Socket, NEW k \in Int,
           \A i \in Socket : f[i] \in Nat /\ g[i] \in Nat,
           \A i \in Socket \ {s} : g[i] = f[i], g[s] = f[s] + k
    PROVE  SumFunctionOnSet(g, Socket) = SumFunctionOnSet(f, Socket) + k
BY SocketsFinite, SumGrows

LEMMA Balance ==
    ASSUME NEW m \in Int, NEW d \in Int, NEW x \in Int, NEW y \in Int, NEW z \in Int,
           NEW n \in Int, NEW e \in Int, NEW a \in Int, NEW b \in Int, NEW c \in Int,
           m = d + x + y + z, n - e = m - d + a + b + c
    PROVE  n = e + (x + a) + (y + b) + (z + c)
OBVIOUS

(* A step at one socket moves the three sums by what it moves there.       *)
LEMMA SumsMove ==
    ASSUME TypeOK, TypeOK', PacketsAccounted, NEW s \in Socket,
           NEW a \in Int, NEW b \in Int, NEW c \in Int,
           counts'[s] = counts[s] + a, Len(queue'[s]) = Len(queue[s]) + b,
           Uncounted(pc')[s] = Uncounted(pc)[s] + c,
           \A i \in Socket \ {s} : counts'[i] = counts[i],
           \A i \in Socket \ {s} : Len(queue'[i]) = Len(queue[i]),
           \A i \in Socket \ {s} : Uncounted(pc')[i] = Uncounted(pc)[i],
           arrived' - dropped' = arrived - dropped + a + b + c
    PROVE  PacketsAccounted'
<1> USE SocketsFinite
<1>1. \A i \in Socket : counts[i] \in Nat /\ Lengths(queue)[i] \in Nat /\ Uncounted(pc)[i] \in Nat
  BY CountsAreNumbers
<1>2. \A i \in Socket : /\ counts'[i] \in Nat /\ Lengths(queue')[i] \in Nat
                        /\ Uncounted(pc')[i] \in Nat
  <2>1. (\A i \in Socket : /\ counts[i] \in Nat /\ Lengths(queue)[i] \in Nat
                           /\ Uncounted(pc)[i] \in Nat)'
    BY CountsAreNumbers, PTL
  <2> QED
    BY <2>1 DEF Lengths, Uncounted
<1>3. /\ Lengths(queue')[s] = Lengths(queue)[s] + b
      /\ \A i \in Socket \ {s} : Lengths(queue')[i] = Lengths(queue)[i]
  BY DEF Lengths
<1>4. SumFunctionOnSet(counts', Socket) = SumFunctionOnSet(counts, Socket) + a
  <2>1. PICK f, g : f = counts /\ g = counts'
    OBVIOUS
  <2>2. /\ \A i \in Socket : f[i] \in Nat /\ g[i] \in Nat
        /\ \A i \in Socket \ {s} : g[i] = f[i]
    BY <2>1, <1>1, <1>2
  <2>3. g[s] = f[s] + a
    BY <2>1
  <2>4. SumFunctionOnSet(g, Socket) = SumFunctionOnSet(f, Socket) + a
    BY <2>2, <2>3, OneMoves
  <2> QED
    BY <2>1, <2>4
<1>5. SumFunctionOnSet(Lengths(queue'), Socket) = SumFunctionOnSet(Lengths(queue), Socket) + b
  <2>1. PICK f, g : f = Lengths(queue) /\ g = Lengths(queue')
    OBVIOUS
  <2>2. /\ \A i \in Socket : f[i] \in Nat /\ g[i] \in Nat
        /\ \A i \in Socket \ {s} : g[i] = f[i]
    BY <2>1, <1>1, <1>2, <1>3
  <2>3. g[s] = f[s] + b
    BY <2>1, <1>3
  <2>4. SumFunctionOnSet(g, Socket) = SumFunctionOnSet(f, Socket) + b
    BY <2>2, <2>3, OneMoves
  <2> QED
    BY <2>1, <2>4
<1>6. SumFunctionOnSet(Uncounted(pc'), Socket) = SumFunctionOnSet(Uncounted(pc), Socket) + c
  <2>1. PICK f, g : f = Uncounted(pc) /\ g = Uncounted(pc')
    OBVIOUS
  <2>2. /\ \A i \in Socket : f[i] \in Nat /\ g[i] \in Nat
        /\ \A i \in Socket \ {s} : g[i] = f[i]
    BY <2>1, <1>1, <1>2
  <2>3. g[s] = f[s] + c
    BY <2>1
  <2>4. SumFunctionOnSet(g, Socket) = SumFunctionOnSet(f, Socket) + c
    BY <2>2, <2>3, OneMoves
  <2> QED
    BY <2>1, <2>4
<1>7. /\ SumFunctionOnSet(counts, Socket) \in Nat
      /\ SumFunctionOnSet(Lengths(queue), Socket) \in Nat
      /\ SumFunctionOnSet(Uncounted(pc), Socket) \in Nat
  BY <1>1, SumNat
<1>8. arrived = dropped + SumFunctionOnSet(counts, Socket)
                  + SumFunctionOnSet(Lengths(queue), Socket)
                  + SumFunctionOnSet(Uncounted(pc), Socket)
  BY AccountedAsSums DEF TypeOK
<1>9. arrived \in Int /\ dropped \in Int /\ arrived' \in Int /\ dropped' \in Int
  <2>1. (arrived \in Int /\ dropped \in Int)'
    BY EchoTypes, PTL
  <2> QED
    BY <2>1, EchoTypes
<1>10. arrived' = dropped' + SumFunctionOnSet(counts', Socket)
                   + SumFunctionOnSet(Lengths(queue'), Socket)
                   + SumFunctionOnSet(Uncounted(pc'), Socket)
  <2> DEFINE x == SumFunctionOnSet(counts, Socket)
             y == SumFunctionOnSet(Lengths(queue), Socket)
             z == SumFunctionOnSet(Uncounted(pc), Socket)
  <2>1. arrived = dropped + x + y + z
    BY <1>8
  <2>2. x \in Int /\ y \in Int /\ z \in Int
    BY <1>7
  <2> HIDE DEF x, y, z
  <2>3. PICK m \in Int, d \in Int, n \in Int, e \in Int :
            m = arrived /\ d = dropped /\ n = arrived' /\ e = dropped'
    BY <1>9
  <2>4. m = d + x + y + z /\ n - e = m - d + a + b + c
    BY <2>1, <2>3
  <2>5. n = e + (x + a) + (y + b) + (z + c)
    BY <2>2, <2>4, Balance
  <2> QED
    BY <2>3, <2>5, <1>4, <1>5, <1>6 DEF x, y, z
<1>11. (PacketsAccounted <=> arrived = dropped + SumFunctionOnSet(counts, Socket)
           + SumFunctionOnSet(Lengths(queue), Socket)
           + SumFunctionOnSet(Uncounted(pc), Socket))'
  <2>1. TypeOK' => (counts \in [Socket -> Nat])'
    BY DEF TypeOK
  <2> QED
    BY <2>1, AccountedAsSums, PTL
<1> QED
  BY <1>10, <1>11 DEF Lengths, Uncounted

LEMMA AccountsKept ==
    ASSUME TypeOK, TypeOK', PacketsAccounted, UNCHANGED <<kernel, counts>>,
           \A i \in Socket : Uncounted(pc')[i] = Uncounted(pc)[i]
    PROVE  PacketsAccounted'
<1>1. counts \in [Socket -> Nat] /\ counts' = counts
  BY EchoTypes
<1>2. Uncounted(pc') = Uncounted(pc)
  BY DEF Uncounted
<1>3. Lengths(queue') = Lengths(queue) /\ arrived' = arrived /\ dropped' = dropped
  BY DEF kernel
<1>4. arrived = dropped + SumFunctionOnSet(counts, Socket)
                  + SumFunctionOnSet(Lengths(queue), Socket)
                  + SumFunctionOnSet(Uncounted(pc), Socket)
  BY <1>1, AccountedAsSums
<1>5. (PacketsAccounted <=> arrived = dropped + SumFunctionOnSet(counts, Socket)
           + SumFunctionOnSet(Lengths(queue), Socket)
           + SumFunctionOnSet(Uncounted(pc), Socket))'
  <2>1. (counts \in [Socket -> Nat])'
    BY <1>1
  <2> QED
    BY <2>1, AccountedAsSums, PTL
<1> QED
  BY <1>1, <1>2, <1>3, <1>4, <1>5 DEF Lengths, Uncounted

LEMMA DeliverAccounts ==
    ASSUME EInv, EInv', PacketsAccounted, NEW c \in CPU, Deliver(c)
    PROVE  PacketsAccounted'
<1>1. /\ TypeOK /\ TypeOK' /\ arrived \in Int /\ dropped \in Int
      /\ counts' = counts /\ pc' = pc /\ arrived' = arrived + 1
  BY EchoTypes DEF EInv, Deliver, reader
<1>2. \A i \in Socket : counts[i] \in Int /\ Len(queue[i]) \in Int /\ Uncounted(pc)[i] \in Int
  BY <1>1, CountsAreNumbers DEF Lengths
<1>3. Dest(c) \subseteq Socket
  BY DestIsHome DEF EInv
<1>4. PICK s \in Dest(c) :
         \/ /\ queue' = [queue EXCEPT ![s] = Append(@, [cpu |-> c, steered |-> attached])]
            /\ UNCHANGED dropped
         \/ /\ dropped' = dropped + 1
            /\ UNCHANGED queue
  BY DEF Deliver
<1>5. s \in Socket
  BY <1>3
<1>6. queue \in [Socket -> Seq(Packet)] /\ [cpu |-> c, steered |-> attached] \in Packet
  BY <1>1 DEF TypeOK, Packet
<1>7. CASE UNCHANGED dropped /\ queue' = [queue EXCEPT ![s] = Append(@, [cpu |-> c, steered |-> attached])]
  <2>1. queue'[s] = Append(queue[s], [cpu |-> c, steered |-> attached])
    BY <1>5, <1>6, <1>7
  <2>2. queue[s] \in Seq(Packet)
    BY <1>5, <1>6
  <2>3. Len(queue'[s]) = Len(queue[s]) + 1
    BY <2>1, <2>2, <1>6
  <2>4. \A i \in Socket \ {s} : Len(queue'[i]) = Len(queue[i])
    BY <1>6, <1>7
  <2>5. /\ counts'[s] = counts[s] + 0 /\ Uncounted(pc')[s] = Uncounted(pc)[s] + 0
        /\ arrived' - dropped' = arrived - dropped + 0 + 1 + 0
    BY <1>1, <1>2, <1>5, <1>7
  <2>6. 0 \in Int /\ 1 \in Int
    OBVIOUS
  <2> QED
    BY <2>3, <2>4, <2>5, <2>6, <1>1, <1>5, SumsMove
<1>8. CASE UNCHANGED queue /\ dropped' = dropped + 1
  <2>1. \A i \in Socket \ {s} : Len(queue'[i]) = Len(queue[i])
    BY <1>8
  <2>2. /\ counts'[s] = counts[s] + 0 /\ Uncounted(pc')[s] = Uncounted(pc)[s] + 0
        /\ Len(queue'[s]) = Len(queue[s]) + 0
        /\ arrived' - dropped' = arrived - dropped + 0 + 0 + 0
    BY <1>1, <1>2, <1>5, <1>8
  <2>3. 0 \in Int
    OBVIOUS
  <2> QED
    BY <2>1, <2>2, <2>3, <1>1, <1>5, SumsMove
<1> QED
  BY <1>4, <1>7, <1>8

LEMMA ReadAccounts ==
    ASSUME EInv, EInv', PacketsAccounted, NEW s \in Socket, Read(s)
    PROVE  PacketsAccounted'
<1>1. /\ TypeOK /\ TypeOK' /\ arrived \in Int /\ dropped \in Int
      /\ pc \in [Socket -> {"none", "start", "read", "count", "sample", "send", "gone"}]
      /\ queue \in [Socket -> Seq(Packet)]
  BY EchoTypes DEF EInv
<1>2. /\ pc[s] = "read" /\ pc' = [pc EXCEPT ![s] = "count"] /\ queue[s] # <<>>
      /\ queue' = [queue EXCEPT ![s] = Tail(@)]
      /\ arrived' = arrived /\ dropped' = dropped /\ counts' = counts
  BY DEF Read, At, Go
<1>3. \A i \in Socket : counts[i] \in Int /\ Len(queue[i]) \in Int
  BY <1>1, CountsAreNumbers DEF Lengths
<1>4. Uncounted(pc)[s] = 0 /\ Uncounted(pc')[s] = 1
  BY <1>1, <1>2 DEF Uncounted
<1>5. \A i \in Socket \ {s} : Uncounted(pc')[i] = Uncounted(pc)[i]
  BY <1>1, <1>2 DEF Uncounted
<1>6. queue[s] \in Seq(Packet) /\ queue'[s] = Tail(queue[s])
  BY <1>1, <1>2
<1>7. Len(queue'[s]) = Len(queue[s]) + (-1)
  <2>1. PICK q \in Seq(Packet) : q = queue[s]
    BY <1>6
  <2>2. Len(Tail(q)) = Len(q) - 1 /\ Len(q) \in Nat
    BY <2>1, <1>2
  <2> QED
    BY <2>1, <2>2, <1>6
<1>8. \A i \in Socket \ {s} : Len(queue'[i]) = Len(queue[i])
  BY <1>1, <1>2
<1>9. PICK a \in Int, b \in Int, c \in Int : a = 0 /\ b = -1 /\ c = 1
  OBVIOUS
<1>10. /\ counts'[s] = counts[s] + a /\ Uncounted(pc')[s] = Uncounted(pc)[s] + c
       /\ arrived' - dropped' = arrived - dropped + a + b + c
       /\ Len(queue'[s]) = Len(queue[s]) + b
  BY <1>1, <1>2, <1>3, <1>4, <1>7, <1>9
<1>11. \A i \in Socket \ {s} : counts'[i] = counts[i]
  BY <1>2
<1>12. a \in Int /\ b \in Int /\ c \in Int
  BY <1>9
<1> QED
  BY <1>1, <1>5, <1>8, <1>10, <1>11, <1>12, SumsMove

LEMMA CountAccounts ==
    ASSUME EInv, EInv', PacketsAccounted, NEW s \in Socket, Count(s)
    PROVE  PacketsAccounted'
<1>1. /\ TypeOK /\ TypeOK' /\ arrived \in Int /\ dropped \in Int
      /\ pc \in [Socket -> {"none", "start", "read", "count", "sample", "send", "gone"}]
      /\ counts \in [Socket -> Nat]
  BY EchoTypes DEF EInv
<1>2. PICK step \in {"sample", "send"} : pc' = [pc EXCEPT ![s] = step]
  BY DEF Count, Go
<1>3. /\ pc[s] = "count" /\ counts' = [counts EXCEPT ![s] = @ + 1]
      /\ queue' = queue /\ arrived' = arrived /\ dropped' = dropped
  BY DEF Count, Counted, At, kernel
<1>4. \A i \in Socket : Len(queue[i]) \in Int
  BY <1>1, CountsAreNumbers DEF Lengths
<1>5. Uncounted(pc)[s] = 1 /\ Uncounted(pc')[s] = 0
  BY <1>1, <1>2, <1>3 DEF Uncounted
<1>6. \A i \in Socket \ {s} : Uncounted(pc')[i] = Uncounted(pc)[i]
  BY <1>1, <1>2 DEF Uncounted
<1>7. \A i \in Socket \ {s} : counts'[i] = counts[i]
  BY <1>1, <1>3
<1>8. \A i \in Socket \ {s} : Len(queue'[i]) = Len(queue[i])
  BY <1>3
<1>9. counts'[s] = counts[s] + 1
  BY <1>1, <1>3
<1>10. PICK a \in Int, b \in Int, c \in Int : a = 1 /\ b = 0 /\ c = -1
  OBVIOUS
<1>11. /\ counts'[s] = counts[s] + a /\ Uncounted(pc')[s] = Uncounted(pc)[s] + c
       /\ arrived' - dropped' = arrived - dropped + a + b + c
       /\ Len(queue'[s]) = Len(queue[s]) + b
  BY <1>1, <1>3, <1>4, <1>5, <1>9, <1>10
<1>12. a \in Int /\ b \in Int /\ c \in Int
  BY <1>10
<1> QED
  BY <1>1, <1>6, <1>7, <1>8, <1>11, <1>12, SumsMove

(* No other step moves a packet.                                           *)
LEMMA OthersAccount ==
    ASSUME EInv, EInv', PacketsAccounted, UNCHANGED <<kernel, counts>>,
           \/ UNCHANGED pc
           \/ SpawnReader
           \/ \E i \in Socket : Start(i) \/ ReadFails(i) \/ Sample(i) \/ Send(i)
    PROVE  PacketsAccounted'
<1>1. /\ TypeOK /\ TypeOK' /\ next \in Socket
      /\ pc \in [Socket -> {"none", "start", "read", "count", "sample", "send", "gone"}]
  BY EchoTypes DEF EInv
<1>2. ASSUME NEW s \in Socket, pc[s] # "count",
             NEW step, step # "count", pc' = [pc EXCEPT ![s] = step]
      PROVE  \A i \in Socket : Uncounted(pc')[i] = Uncounted(pc)[i]
  BY <1>1, <1>2 DEF Uncounted
<1>3. CASE UNCHANGED pc
  BY <1>1, <1>3, AccountsKept
<1>4. CASE SpawnReader
  <2>1. pc[next] = "none" /\ pc' = [pc EXCEPT ![next] = "start"]
    BY <1>1, <1>4 DEF SpawnReader, Spawned, EInv, SpawnedInOrder, Socket
  <2> QED
    BY <2>1, <1>1, <1>2, AccountsKept
<1>5. CASE \E i \in Socket : Start(i) \/ ReadFails(i) \/ Sample(i) \/ Send(i)
  <2>1. PICK i \in Socket : Start(i) \/ ReadFails(i) \/ Sample(i) \/ Send(i)
    BY <1>5
  <2>2. pc[i] # "count"
    BY <2>1 DEF Start, ReadFails, Sample, Send, At
  <2>3. PICK step \in {"read", "gone", "send"} : pc' = [pc EXCEPT ![i] = step]
    BY <2>1 DEF Start, ReadFails, Sample, Send, Go
  <2> QED
    BY <2>2, <2>3, <1>1, <1>2, AccountsKept
<1> QED
  BY <1>3, <1>4, <1>5

LEMMA NextAccounts ==
    EInv /\ EInv' /\ PacketsAccounted /\ [Next]_vars => PacketsAccounted'
<1> SUFFICES ASSUME EInv, EInv', PacketsAccounted, [Next]_vars PROVE PacketsAccounted'
  OBVIOUS
<1>1. CASE Main
  <2>1. CASE SpawnReader
    BY <2>1, OthersAccount DEF SpawnReader
  <2>2. CASE Main /\ ~SpawnReader
    <3>1. UNCHANGED <<kernel, reader>>
      BY <2>2 DEF Main, BuildPlan, BindSocket, AttachSteering, LoadCount, FormatHistogram
    <3> QED
      BY <3>1, OthersAccount DEF reader
  <2> QED
    BY <1>1, <2>1, <2>2
<1>2. CASE \/ SetupFails \/ Signal \/ UNCHANGED vars
           \/ \E i \in Socket : StartFails(i)
  <2>1. UNCHANGED <<kernel, reader>>
    BY <1>2 DEF SetupFails, Fatal, Signal, StartFails, vars
  <2> QED
    BY <2>1, OthersAccount DEF reader
<1>3. CASE \E c \in CPU : Deliver(c)
  BY <1>3, DeliverAccounts
<1>4. CASE \E i \in Socket : Read(i)
  BY <1>4, ReadAccounts
<1>5. CASE \E i \in Socket : Count(i)
  BY <1>5, CountAccounts
<1>6. CASE \E i \in Socket : Start(i) \/ ReadFails(i) \/ Sample(i) \/ Send(i)
  <2>1. UNCHANGED <<kernel, counts>>
    BY <1>6 DEF Start, ReadFails, Sample, Send
  <2> QED
    BY <1>6, <2>1, OthersAccount
<1> QED
  BY <1>1, <1>2, <1>3, <1>4, <1>5, <1>6 DEF Next, Reader

(* Every packet is counted once, is still on its way, or was dropped at a  *)
(* full buffer, for any number of readers, whichever of them fail          *)
(* (main.go:179-196).                                                      *)
THEOREM EveryPacketAccounted == Spec => []PacketsAccounted
<1>1. Init => PacketsAccounted
  <2> SUFFICES ASSUME Init PROVE PacketsAccounted
    OBVIOUS
  <2>1. EInv
    BY InitEInv
  <2>2. /\ counts \in [Socket -> Nat] /\ \A i \in Socket : counts[i] = 0
        /\ arrived = 0 /\ dropped = 0
    BY DEF Init
  <2>3. \A i \in Socket : Lengths(queue)[i] = 0 /\ Uncounted(pc)[i] = 0
    BY DEF Init, Lengths, Uncounted
  <2>4. Cardinality(Socket) * 0 = 0
    BY SocketsFinite, FS_CardinalityType
  <2>5. /\ SumFunctionOnSet(counts, Socket) = 0
        /\ SumFunctionOnSet(Lengths(queue), Socket) = 0
        /\ SumFunctionOnSet(Uncounted(pc), Socket) = 0
    BY <2>2, <2>3, <2>4, SocketsFinite, SumConstant
  <2>6. PacketsAccounted <=>
            arrived = dropped + SumFunctionOnSet(counts, Socket)
                        + SumFunctionOnSet(Lengths(queue), Socket)
                        + SumFunctionOnSet(Uncounted(pc), Socket)
    BY <2>2, AccountedAsSums
  <2> QED
    BY <2>2, <2>5, <2>6
<1> QED
  BY <1>1, EchoInvariant, NextAccounts, PTL DEF Spec

-----------------------------------------------------------------------------
(* The report.                                                             *)

LEMMA LinesAre ==
    ASSUME TypeOK
    PROVE  /\ Len(lines) \in Nat /\ DOMAIN lines = 1 .. Len(lines)
           /\ \A k \in DOMAIN lines : lines[k] \in [n: Nat, cpus: SUBSET CPU]
           /\ \A k \in DOMAIN lines : lines[k].n \in Nat
<1>1. PICK Line : Line = [n: Nat, cpus: SUBSET CPU]
  OBVIOUS
<1>2. lines \in Seq(Line)
  BY <1>1 DEF TypeOK
<1>3. /\ Len(lines) \in Nat /\ DOMAIN lines = 1 .. Len(lines)
      /\ \A k \in DOMAIN lines : lines[k] \in Line
  BY <1>2
<1>4. \A k \in DOMAIN lines : lines[k] \in [n: Nat, cpus: SUBSET CPU]
  BY <1>1, <1>3
<1> QED
  BY <1>3, <1>4

(* A step that neither prints nor resets a counter, and that leaves the    *)
(* main goroutine where it is or takes it on before the report.            *)
LEMMA ReportKept ==
    ASSUME EInv, EInv', ReportInv, UNCHANGED <<report, base>>,
           \A i \in Socket : counts[i] <= counts'[i],
           \/ UNCHANGED <<main, next>>
           \/ main' = "fatal"
           \/ /\ main \in {"build", "bind", "attach", "spawn"}
              /\ main' \in {"build", "bind", "attach", "spawn", "serve"}
    PROVE  ReportInv'
<1>0. lines' = lines /\ total' = total /\ base' = base
  BY DEF report
<1>1. /\ \A i \in Socket : base[i] \in Nat /\ counts[i] \in Nat /\ counts'[i] \in Nat
      /\ Len(lines) \in Nat /\ DOMAIN lines = 1 .. Len(lines) /\ Len(lines) <= Readers
      /\ \A k \in DOMAIN lines : lines[k].n \in Nat
  <2>1. counts \in [Socket -> Nat] /\ counts' \in [Socket -> Nat]
    BY DEF EInv, TypeOK
  <2>2. TypeOK
    BY DEF EInv
  <2> QED
    BY <2>1, <2>2, LinesAre DEF ReportInv
<1>2. \A i \in Socket : base[i] <= counts'[i]
  BY <1>1 DEF ReportInv
<1>3. \A k \in DOMAIN lines : k - 1 \in Socket
  BY <1>1 DEF Socket
<1>4. \A k \in DOMAIN lines : base[k - 1] <= lines[k].n /\ lines[k].n <= counts'[k - 1]
  <2> SUFFICES ASSUME NEW k \in DOMAIN lines
               PROVE  base[k - 1] <= lines[k].n /\ lines[k].n <= counts'[k - 1]
    OBVIOUS
  <2>1. PICK s \in Socket : s = k - 1
    BY <1>3
  <2>2. base[s] <= lines[k].n /\ lines[k].n <= counts[s]
    BY <2>1 DEF ReportInv
  <2>3. lines[k].n \in Nat /\ counts[s] \in Nat /\ counts'[s] \in Nat /\ counts[s] <= counts'[s]
    BY <1>1
  <2>4. lines[k].n <= counts'[s]
    BY <2>2, <2>3
  <2> QED
    BY <2>1, <2>2, <2>4
<1>5. main' \in {"build", "bind", "attach", "spawn", "serve"} => total' = 0
  BY <1>0 DEF ReportInv
<1>6. main' \in {"load", "format", "done"} => main' = main /\ next' = next
  OBVIOUS
<1>7. main' \in {"load", "format"} => total' = SumFunction([k \in 1 .. next' |-> lines'[k].n])
  BY <1>0, <1>6 DEF ReportInv, Numbers
<1>8. main' = "done" => /\ Len(lines') = Readers
                        /\ total' = SumFunction([k \in 1 .. Readers |-> lines'[k].n])
  BY <1>0, <1>6 DEF ReportInv, Numbers
<1>9. base' \in [Socket -> Nat]
  BY <1>0 DEF ReportInv
<1> QED
  BY <1>0, <1>1, <1>2, <1>4, <1>5, <1>7, <1>8, <1>9 DEF ReportInv, Numbers

LEMMA CountersOnlyGrow ==
    ASSUME EInv,
           \/ UNCHANGED counts
           \/ \E i \in Socket : Count(i)
    PROVE  \A i \in Socket : counts[i] <= counts'[i]
<1>1. counts \in [Socket -> Nat]
  BY DEF EInv, TypeOK
<1>2. CASE UNCHANGED counts
  BY <1>1, <1>2
<1>3. CASE \E i \in Socket : Count(i)
  <2>1. PICK s \in Socket : counts' = [counts EXCEPT ![s] = @ + 1]
    BY <1>3 DEF Count, Counted
  <2> QED
    BY <1>1, <2>1
<1> QED
  BY <1>2, <1>3

LEMMA SignalReports ==
    ASSUME EInv, EInv', ReportInv, Signal
    PROVE  ReportInv'
<1>1. /\ main = "serve" /\ main' = "load" /\ base' = counts /\ counts' = counts
      /\ lines' = lines /\ total' = total /\ next' = next
  BY DEF Signal, reader, report
<1>2. counts \in [Socket -> Nat] /\ lines = <<>> /\ next = 0 /\ total = 0
  BY <1>1 DEF EInv, TypeOK, LinesInStep, ReportInv
<1>3. \A i \in Socket : base'[i] <= counts'[i]
  BY <1>1, <1>2
<1>4. SumFunction([k \in 1 .. 0 |-> lines[k].n]) = 0
  <2> DEFINE f == [k \in 1 .. 0 |-> lines[k].n]
  <2>1. DOMAIN f = {}
    OBVIOUS
  <2> HIDE DEF f
  <2> QED
    BY <2>1, SumEmpty DEF SumFunction
<1>5. Len(lines') = 0 /\ DOMAIN lines' = {}
  BY <1>1, <1>2
<1>6. total' = SumFunction([k \in 1 .. next' |-> lines'[k].n])
  BY <1>1, <1>2, <1>4
<1> QED
  BY <1>1, <1>2, <1>3, <1>5, <1>6 DEF ReportInv, Numbers

LEMMA LoadReports ==
    ASSUME EInv, EInv', ReportInv, LoadCount
    PROVE  ReportInv'
<1> DEFINE new == [n |-> counts[next], cpus |-> {}]
<1>1. /\ main = "load" /\ main' = "format" /\ lines' = Append(lines, new)
      /\ base' = base /\ counts' = counts /\ total' = total /\ next' = next
  BY DEF LoadCount, reader
<1>2. /\ counts \in [Socket -> Nat] /\ next \in Socket /\ Len(lines) = next
      /\ lines \in Seq([n: Nat, cpus: SUBSET CPU])
  BY <1>1 DEF EInv, TypeOK, LinesInStep
<1>3. new.n = counts[next] /\ new \in [n: Nat, cpus: SUBSET CPU]
  BY <1>2
<1>4. next \in Nat /\ next + 1 <= Readers
  BY <1>2 DEF Socket
<1> HIDE DEF new
<1>5. /\ Len(lines') = next + 1 /\ DOMAIN lines' = 1 .. next + 1
      /\ lines'[next + 1] = new
      /\ \A k \in 1 .. next : lines'[k] = lines[k] /\ k \in DOMAIN lines
  BY <1>1, <1>2, <1>3, <1>4
<1>6. ASSUME NEW k \in DOMAIN lines'
      PROVE  base'[k - 1] <= lines'[k].n /\ lines'[k].n <= counts'[k - 1]
  <2>1. CASE k = next + 1
    <3>1. k - 1 = next /\ lines'[k].n = counts[next]
      BY <2>1, <1>3, <1>4, <1>5
    <3>2. base[next] <= counts[next] /\ counts[next] \in Nat
      BY <1>2 DEF ReportInv
    <3> QED
      BY <3>1, <3>2, <1>1
  <2>2. CASE k # next + 1
    <3>1. k \in 1 .. next
      BY <2>2, <1>4, <1>5
    <3> QED
      BY <3>1, <1>1, <1>5 DEF ReportInv
  <2> QED
    BY <2>1, <2>2
<1>7. [k \in 1 .. next |-> lines'[k].n] = [k \in 1 .. next |-> lines[k].n]
  BY <1>5
<1>8. total' = SumFunction([k \in 1 .. next' |-> lines'[k].n])
  BY <1>1, <1>7 DEF ReportInv, Numbers
<1> QED
  BY <1>1, <1>4, <1>5, <1>6, <1>8 DEF ReportInv, Numbers

(* One summand more.                                                       *)
LEMMA SumExtends ==
    ASSUME NEW f, NEW g, NEW n \in Nat,
           \A k \in 1 .. n + 1 : f[k] \in Nat,
           DOMAIN g = 1 .. n, \A k \in 1 .. n : g[k] = f[k]
    PROVE  SumFunctionOnSet(f, 1 .. n + 1) = SumFunction(g) + f[n + 1]
<1>1. IsFiniteSet(1 .. n + 1) /\ IsFiniteSet(1 .. n)
  BY FS_Interval
<1>2. n + 1 \in 1 .. n + 1 /\ (1 .. n + 1) \ {n + 1} = 1 .. n
  OBVIOUS
<1>3. SumFunctionOnSet(f, 1 .. n + 1) = f[n + 1] + SumFunctionOnSet(f, 1 .. n)
  BY <1>1, <1>2, SumTake
<1>4. SumFunctionOnSet(g, 1 .. n) = SumFunctionOnSet(f, 1 .. n)
  BY <1>1, SumSame
<1>5. SumFunctionOnSet(f, 1 .. n) \in Nat /\ f[n + 1] \in Nat
  BY <1>1, <1>2, SumNat
<1> QED
  BY <1>3, <1>4, <1>5 DEF SumFunction

LEMMA FormatReports ==
    ASSUME EInv, EInv', ReportInv, FormatHistogram
    PROVE  ReportInv'
<1> DEFINE shown == {c \in CPU : hist[next][c] > 0}
<1>1. /\ main = "format" /\ lines' = [lines EXCEPT ![next + 1].cpus = shown]
      /\ total' = total + lines[next + 1].n
      /\ base' = base /\ counts' = counts
  BY DEF FormatHistogram, Addend, reader
<1> HIDE DEF shown
<1>2. /\ next \in Socket /\ Len(lines) = next + 1
      /\ lines \in Seq([n: Nat, cpus: SUBSET CPU])
  BY <1>1 DEF EInv, TypeOK, LinesInStep
<1>3. next \in Nat /\ next + 1 <= Readers
  BY <1>2 DEF Socket
<1>4. DOMAIN lines = 1 .. next + 1 /\ next + 1 \in DOMAIN lines
  BY <1>2, <1>3
<1>5. \A k \in DOMAIN lines : lines[k] \in [n: Nat, cpus: SUBSET CPU]
  BY LinesAre DEF EInv
<1>6. /\ Len(lines') = next + 1 /\ DOMAIN lines' = 1 .. next + 1
      /\ \A k \in 1 .. next + 1 : lines'[k].n = lines[k].n
  BY <1>1, <1>2, <1>4, <1>5
<1>7. \A k \in DOMAIN lines' : base'[k - 1] <= lines'[k].n /\ lines'[k].n <= counts'[k - 1]
  BY <1>1, <1>4, <1>6 DEF ReportInv
<1>8. total' = SumFunction([k \in 1 .. next + 1 |-> lines'[k].n])
  <2>1. PICK f : f = [k \in 1 .. next + 1 |-> lines'[k].n]
    OBVIOUS
  <2>2. PICK g : g = Numbers(next)
    OBVIOUS
  <2>3. /\ DOMAIN f = 1 .. next + 1 /\ DOMAIN g = 1 .. next
        /\ \A k \in 1 .. next + 1 : f[k] = lines[k].n /\ f[k] \in Nat
    BY <2>1, <2>2, <1>4, <1>5, <1>6 DEF Numbers
  <2>4. \A k \in 1 .. next : k \in 1 .. next + 1 /\ g[k] = lines[k].n
    BY <2>2, <1>3 DEF Numbers
  <2>5. SumFunctionOnSet(f, 1 .. next + 1) = SumFunction(g) + f[next + 1]
    <3>1. \A k \in 1 .. next : g[k] = f[k]
      BY <2>3, <2>4
    <3> QED
      BY <3>1, <2>3, <1>3, SumExtends
  <2>6. total = SumFunction(g)
    BY <2>2, <1>1 DEF ReportInv
  <2>7. f[next + 1] = lines[next + 1].n
    BY <2>3, <1>4
  <2> QED
    BY <2>1, <2>3, <2>5, <2>6, <2>7, <1>1 DEF SumFunction
<1>9. CASE next + 1 < Readers
  <2>1. next' = next + 1 /\ main' = "load"
    BY <1>9 DEF FormatHistogram
  <2> QED
    BY <2>1, <1>1, <1>3, <1>6, <1>7, <1>8 DEF ReportInv, Numbers
<1>10. CASE ~(next + 1 < Readers)
  <2>1. main' = "done" /\ next + 1 = Readers
    BY <1>10, <1>3 DEF FormatHistogram
  <2> QED
    BY <2>1, <1>1, <1>3, <1>6, <1>7, <1>8 DEF ReportInv, Numbers
<1> QED
  BY <1>9, <1>10

LEMMA NextReports ==
    EInv /\ EInv' /\ ReportInv /\ [Next]_vars => ReportInv'
<1> SUFFICES ASSUME EInv, EInv', ReportInv, [Next]_vars PROVE ReportInv'
  OBVIOUS
<1>1. CASE LoadCount
  BY <1>1, LoadReports
<1>2. CASE FormatHistogram
  BY <1>2, FormatReports
<1>3. CASE Signal
  BY <1>3, SignalReports
<1>4. CASE BuildPlan \/ BindSocket \/ AttachSteering \/ SpawnReader
  <2>1. /\ UNCHANGED <<report, base, counts>>
        /\ main \in {"build", "bind", "attach", "spawn"}
        /\ main' \in {"build", "bind", "attach", "spawn", "serve"}
    BY <1>4 DEF BuildPlan, BindSocket, AttachSteering, SpawnReader, NextOr, reader
  <2> QED
    BY <2>1, ReportKept, CountersOnlyGrow
<1>5. CASE SetupFails \/ \E i \in Socket : StartFails(i)
  <2>1. UNCHANGED <<report, base, counts>> /\ main' = "fatal"
    BY <1>5 DEF SetupFails, Fatal, StartFails, reader
  <2> QED
    BY <2>1, ReportKept, CountersOnlyGrow
<1>6. CASE (\E c \in CPU : Deliver(c)) \/ UNCHANGED vars
  <2>1. UNCHANGED <<report, base, counts, main, next>>
    BY <1>6 DEF Deliver, reader, setup, vars
  <2> QED
    BY <2>1, ReportKept, CountersOnlyGrow
<1>7. CASE \E i \in Socket : Reader(i) \/ ReadFails(i)
  <2>1. UNCHANGED <<report, base, main, next>>
    BY <1>7 DEF Reader, Start, Read, Count, Sample, Send, ReadFails, At, setup
  <2>2. UNCHANGED counts \/ \E i \in Socket : Count(i)
    BY <1>7 DEF Reader, Start, Read, Sample, Send, ReadFails
  <2> QED
    BY <2>1, <2>2, ReportKept, CountersOnlyGrow
<1> QED
  BY <1>1, <1>2, <1>3, <1>4, <1>5, <1>6, <1>7 DEF Next, Main

(* Every line lies between the counter at the signal and the counter now,  *)
(* and total is the sum of the lines, for any number of readers that go on *)
(* counting meanwhile (main.go:213-219).                                   *)
THEOREM ReportsAreConsistent == Spec => []ReportConsistent
<1>1. Init => ReportInv
  <2> SUFFICES ASSUME Init PROVE ReportInv
    OBVIOUS
  <2>1. /\ counts = [i \in Socket |-> 0] /\ base = counts /\ main = "build"
        /\ lines = <<>> /\ total = 0
    BY DEF Init
  <2>2. Len(lines) = 0 /\ DOMAIN lines = {}
    BY <2>1
  <2> QED
    BY <2>1, <2>2 DEF ReportInv
<1>2. EInv /\ ReportInv => ReportConsistent
  <2> SUFFICES ASSUME EInv, ReportInv PROVE ReportConsistent
    OBVIOUS
  <2>1. main = "done" => [k \in DOMAIN lines |-> lines[k].n] = Numbers(Readers)
    BY LinesAre DEF EInv, ReportInv, Numbers
  <2> QED
    BY <2>1 DEF ReportInv, ReportConsistent
<1> QED
  BY <1>1, <1>2, EchoInvariant, NextReports, PTL DEF Spec
=============================================================================
