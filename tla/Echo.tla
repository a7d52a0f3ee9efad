-------------------------------- MODULE Echo --------------------------------
(***************************************************************************)
(* example/udpecho: N sockets of one SO_REUSEPORT group, a reader          *)
(* goroutine per socket, pinned through a plan, packets steered by the     *)
(* CPU that received them, and the report printed at shutdown.             *)
(*                                                                         *)
(* Between any two steps of the main goroutine or of a reader the kernel   *)
(* may deliver a packet: the sockets receive from the moment of their      *)
(* bind, long before the steering program is attached or a reader runs.    *)
(* What the kernel does is external: reuseport selection by hash over the  *)
(* bound sockets until the program is attached, a bounded queue per        *)
(* socket, and SO_INCOMING_CPU as the CPU of the socket's last packet.     *)
(***************************************************************************)
EXTENDS SteerMap, Functions

CONSTANTS
    CPU,            \* the machine's CPUs
    Flags,          \* the settings of -pin, -steer and -cpustats considered
    Readers,        \* -readers
    CoreLists,      \* what plan.Cores("readers").List() may be
    QueueCap,       \* bound: packets that fit a socket's receive buffer
    SampleEvery,    \* the 64 of main.go:186
    MaxPackets      \* bound: packets that arrive

Socket == 0 .. Readers - 1

(* Planner gives the exclusive role as many cores as it asks for, or       *)
(* refuses the plan.                                                       *)
ASSUME EchoAssumption ==
    /\ CPU \subseteq Nat /\ IsFiniteSet(CPU) /\ Readers \in Nat \ {0}
    /\ CoreLists \subseteq Lists(CPU) /\ \A list \in CoreLists : Len(list) = Readers
    /\ Flags \subseteq [pin: BOOLEAN, steer: BOOLEAN, cpustats: BOOLEAN]
    /\ QueueCap \in Nat \ {0} /\ SampleEvery \in Nat \ {0} /\ MaxPackets \in Nat

VARIABLES
    flags,              \* -pin, -steer, -cpustats
    cores,              \* plan.Cores("readers").List()
    main, next,         \* the main goroutine: step, loop index
    group, attached,    \* the sockets in bind order; the program is attached
    queue, lastCPU,     \* per socket: packets, CPU of the last one
    arrived, dropped,
    pc, thread, held,   \* per reader: step, core of its thread, its packet
    counts, hist,       \* counts[i], stats[i].cpus
    lines, total,       \* the FINAL lines printed so far, and their sum
    base, early         \* history: see below

config == <<flags, cores>>
setup  == <<main, next, group, attached>>
kernel == <<queue, lastCPU, arrived, dropped>>
reader == <<pc, thread, held, counts, hist>>
report == <<lines, total>>
vars   == <<config, setup, kernel, reader, report, base, early>>

(* base is counts at the moment of the signal; early[s] are the CPUs of    *)
(* packets that reached socket s before the steering program was attached. *)

NoPacket == [cpu |-> -1, steered |-> FALSE]
Packet   == [cpu: CPU, steered: BOOLEAN]
NoCPU    == -1
Anywhere == -1      \* the core of a thread that is not pinned

-----------------------------------------------------------------------------
(* What the program relies on                                              *)

(* steerOn: steering needs the pinned cores.                               *)
steerOn == flags.steer /\ flags.pin

(* The sockets that may get a packet received on CPU c: once the program   *)
(* is attached, the one that Steering proves its verdict to be.            *)
Dest(c) ==
    IF attached /\ SteeredTo(cores, c) < Len(group)
    THEN {group[SteeredTo(cores, c) + 1]}
    ELSE Range(group)

(* Plan.Pin("readers", i).                                                 *)
Target(i) == cores[(i % Len(cores)) + 1]

(* The process runs: a Fatalf of any goroutine ends it, as main's return.  *)
Up == main \notin {"done", "fatal"}

-----------------------------------------------------------------------------
(* The kernel                                                              *)

Fits(s) == Len(queue[s]) < QueueCap

Deliver(c) ==
    /\ Up /\ group # <<>> /\ arrived < MaxPackets
    /\ arrived' = arrived + 1
    /\ \E s \in Dest(c) :
          \/ /\ Fits(s)
             /\ queue' = [queue EXCEPT ![s] = Append(@, [cpu |-> c, steered |-> attached])]
             /\ lastCPU' = [lastCPU EXCEPT ![s] = c]
             /\ early' = IF attached THEN early ELSE [early EXCEPT ![s] = @ \cup {c}]
             /\ UNCHANGED dropped
          \/ /\ ~Fits(s)
             /\ dropped' = dropped + 1
             /\ UNCHANGED <<queue, lastCPU, early>>
    /\ UNCHANGED <<config, setup, reader, report, base>>

-----------------------------------------------------------------------------
(* The main goroutine                                                      *)

(* Any failure of the set-up is fatal.                                     *)
Fatal(step) ==
    /\ main = step /\ main' = "fatal"
    /\ UNCHANGED <<config, next, group, attached, kernel, reader, report, base, early>>

SetupFails ==
    \/ flags.pin /\ Fatal("build")      \* Build or Apply
    \/ Fatal("bind")
    \/ steerOn /\ Fatal("attach")

BuildPlan ==
    /\ main = "build" /\ main' = "bind"
    /\ UNCHANGED <<config, next, group, attached, kernel, reader, report, base, early>>

(* One turn of a loop over the readers; after the last, on to step.        *)
NextOr(step) ==
    IF next + 1 < Readers THEN next' = next + 1 /\ UNCHANGED main
                          ELSE next' = 0 /\ main' = step

(* Mutant: the sockets join the group in the opposite order.               *)
Prepended == <<next>> \o group

(* The kernel's group is in the order of the binds.                        *)
Joined == Append(group, next)

BindSocket ==
    /\ main = "bind" /\ group' = Joined
    /\ NextOr("attach")
    /\ UNCHANGED <<config, attached, kernel, reader, report, base, early>>

AttachSteering ==
    /\ main = "attach" /\ main' = "spawn" /\ attached' = steerOn
    /\ UNCHANGED <<config, next, group, kernel, reader, report, base, early>>

(* Mutant: the loop starts at the second reader.                           *)
SpawnedButFirst == [pc EXCEPT ![next] = IF next = 0 THEN @ ELSE "start"]

Spawned == [pc EXCEPT ![next] = "start"]

SpawnReader ==
    /\ main = "spawn" /\ pc' = Spawned
    /\ NextOr("serve")
    /\ UNCHANGED <<config, group, attached, kernel, thread, held, counts, hist>>
    /\ UNCHANGED <<report, base, early>>

(* SIGINT or SIGTERM.  The progress line of every tick changes nothing.    *)
Signal ==
    /\ main = "serve" /\ main' = "load" /\ base' = counts
    /\ UNCHANGED <<config, next, group, attached, kernel, reader, report, early>>

(* n := counts[i].Load(), while the readers go on counting.                *)
LoadCount ==
    /\ main = "load" /\ main' = "format"
    /\ lines' = Append(lines, [n |-> counts[next], cpus |-> {}])
    /\ UNCHANGED <<config, next, group, attached, kernel, reader, total, base, early>>

(* Mutant: total adds the counter as it is now.                            *)
LoadedAgain == counts[next]

(* total += n                                                              *)
Addend == lines[next + 1].n

(* stats[i].format(), under its mutex, and the line is printed.            *)
FormatHistogram ==
    /\ main = "format"
    /\ lines' = [lines EXCEPT ![next + 1].cpus = {c \in CPU : hist[next][c] > 0}]
    /\ total' = total + Addend
    /\ IF next + 1 < Readers THEN next' = next + 1 /\ main' = "load"
                             ELSE next' = 0 /\ main' = "done"
    /\ UNCHANGED <<config, group, attached, kernel, reader, base, early>>

Main == \/ BuildPlan \/ BindSocket \/ AttachSteering \/ SpawnReader
        \/ LoadCount \/ FormatHistogram

-----------------------------------------------------------------------------
(* Reader i                                                                *)

At(i, step) == Up /\ pc[i] = step /\ UNCHANGED <<config, setup, report, base, early>>

Go(i, step) == pc' = [pc EXCEPT ![i] = step]

(* Mutant: every goroutine pins itself as the first thread of the role.    *)
PinnedAsFirst(i) == IF flags.pin THEN Target(0) ELSE Anywhere

(* The goroutine pins itself with the index it was started with.           *)
PinnedTo(i) == IF flags.pin THEN Target(i) ELSE Anywhere

Start(i) ==
    /\ At(i, "start") /\ Go(i, "read")
    /\ thread' = [thread EXCEPT ![i] = PinnedTo(i)]
    /\ UNCHANGED <<kernel, held, counts, hist>>

(* Pin or SyscallConn fails: log.Fatalf, whatever main is doing.           *)
StartFails(i) ==
    /\ Up /\ pc[i] = "start" /\ (flags.pin \/ flags.cpustats)
    /\ main' = "fatal"
    /\ UNCHANGED <<config, next, group, attached, kernel, reader, report, base, early>>

Read(i) ==
    /\ At(i, "read") /\ queue[i] # <<>> /\ Go(i, "count")
    /\ held' = [held EXCEPT ![i] = Head(queue[i])]
    /\ queue' = [queue EXCEPT ![i] = Tail(@)]
    /\ UNCHANGED <<lastCPU, arrived, dropped, thread, counts, hist>>

(* ReadFromUDP fails: the goroutine unpins and returns.  Its socket stays  *)
(* in the group.                                                           *)
ReadFails(i) ==
    /\ At(i, "read") /\ Go(i, "gone")
    /\ thread' = [thread EXCEPT ![i] = Anywhere]
    /\ UNCHANGED <<kernel, held, counts, hist>>

(* Mutant: the counter is bumped in the sampling branch only.              *)
CountedIfSampled(i) ==
    IF (counts[i] + 1) % SampleEvery = 0 THEN [counts EXCEPT ![i] = @ + 1] ELSE counts

Counted(i) == [counts EXCEPT ![i] = @ + 1]

(* counts[i] and the reader's own pkts move together.                      *)
Count(i) ==
    /\ At(i, "count") /\ counts' = Counted(i)
    /\ Go(i, IF flags.cpustats /\ counts'[i] % SampleEvery = 0 THEN "sample" ELSE "send")
    /\ UNCHANGED <<kernel, thread, held, hist>>

(* Mutant: every reader records in the first histogram.                    *)
FirstStats(i) == 0

StatsOf(i) == i

(* SO_INCOMING_CPU of the socket, unless getsockopt fails.                 *)
Sample(i) ==
    /\ At(i, "sample") /\ Go(i, "send")
    /\ \/ hist' = [hist EXCEPT ![StatsOf(i)][lastCPU[i]] = @ + 1]
       \/ UNCHANGED hist
    /\ UNCHANGED <<kernel, thread, held, counts>>

(* WriteToUDP, its error ignored.                                          *)
Send(i) ==
    /\ At(i, "send") /\ Go(i, "read")
    /\ held' = [held EXCEPT ![i] = NoPacket]
    /\ UNCHANGED <<kernel, thread, counts, hist>>

Reader(i) == Start(i) \/ Read(i) \/ Count(i) \/ Sample(i) \/ Send(i)

-----------------------------------------------------------------------------
Init ==
    /\ flags \in Flags
    /\ cores \in CoreLists
    /\ main = "build" /\ next = 0
    /\ group = <<>> /\ attached = FALSE
    /\ queue = [s \in Socket |-> <<>>] /\ lastCPU = [s \in Socket |-> NoCPU]
    /\ arrived = 0 /\ dropped = 0
    /\ pc = [i \in Socket |-> "none"] /\ thread = [i \in Socket |-> Anywhere]
    /\ held = [i \in Socket |-> NoPacket]
    /\ counts = [i \in Socket |-> 0] /\ hist = [i \in Socket |-> [c \in CPU |-> 0]]
    /\ lines = <<>> /\ total = 0
    /\ base = counts /\ early = [s \in Socket |-> {}]

Next ==
    \/ Main \/ SetupFails \/ Signal
    \/ \E c \in CPU : Deliver(c)
    \/ \E i \in Socket : Reader(i) \/ StartFails(i) \/ ReadFails(i)

Spec == Init /\ [][Next]_vars

(* The Go scheduler runs every goroutine that can run, and the netpoller   *)
(* wakes a reader whose socket has a packet.  No signal need ever come.    *)
FairSpec ==
    /\ Spec /\ WF_vars(Main)
    /\ \A i \in Socket : WF_vars(Reader(i))
=============================================================================
