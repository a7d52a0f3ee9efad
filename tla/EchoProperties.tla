--------------------------- MODULE EchoProperties ---------------------------
(***************************************************************************)
(* What udpecho owes to whoever measures with it.                          *)
(***************************************************************************)
EXTENDS Echo

(* Types, with the bound of the receive buffers and the order of the       *)
(* group.                                                                  *)
TypeOK ==
    /\ flags \in Flags /\ cores \in CoreLists
    /\ main \in {"build", "bind", "attach", "spawn", "serve", "load", "format",
                 "done", "fatal"}
    /\ next \in Socket /\ group \in Seq(Socket) /\ Len(group) <= Readers
    /\ attached \in BOOLEAN
    /\ queue \in [Socket -> Seq(Packet)] /\ \A s \in Socket : Len(queue[s]) <= QueueCap
    /\ lastCPU \in [Socket -> CPU \cup {NoCPU}]
    /\ arrived \in 0 .. MaxPackets /\ dropped \in 0 .. arrived
    /\ pc \in [Socket -> {"none", "start", "read", "count", "sample", "send", "gone"}]
    /\ thread \in [Socket -> CPU \cup {Anywhere}]
    /\ held \in [Socket -> Packet \cup {NoPacket}]
    /\ counts \in [Socket -> Nat] /\ hist \in [Socket -> [CPU -> Nat]]
    /\ lines \in Seq([n: Nat, cpus: SUBSET CPU]) /\ total \in Nat

(* The point of the whole library: a packet that the steering program saw  *)
(* and that a reader's core received is read by the reader whose thread is *)
(* pinned to that very core.  It takes the order of the binds, the index   *)
(* that the goroutine captures, the index that Pin maps to a core and the  *)
(* order of the program's comparisons to agree (main.go:131, 161-163).     *)
AlignedReads ==
    \A i \in Socket :
        held[i].steered /\ held[i].cpu \in Range(cores) => thread[i] = held[i].cpu

(* With steering, a reader's histogram names a CPU only if packets of that *)
(* CPU are steered to its socket, or reached it by hash in the window      *)
(* between the bind and the attach: the locality signal of main.go:10-11   *)
(* can be read off the FINAL lines, whichever moment format() prints.      *)
HistogramsAreLocal ==
    attached =>
        /\ \A i \in Socket, c \in CPU :
              hist[i][c] > 0 => c \in early[i] \/ SteeredTo(cores, c) = i
        /\ \A k \in DOMAIN lines : \A c \in lines[k].cpus :
              c \in early[k - 1] \/ SteeredTo(cores, c) = k - 1

(* Why they hold: the inductive invariant.  The group is in the order of   *)
(* the sockets, complete before the program is attached; a steered packet  *)
(* is only ever at the socket of its core; readers are spawned in order,   *)
(* and one that runs is pinned; and a CPU that a socket knows was steered  *)
(* to it or came early.                                                    *)
GroupInOrder ==
    /\ \A k \in DOMAIN group : group[k] = k - 1
    /\ main = "build" => group = <<>> /\ next = 0
    /\ main = "bind" => Len(group) = next
    /\ main \notin {"build", "bind", "fatal"} => Len(group) = Readers
    /\ attached => /\ main \notin {"build", "bind", "attach"}
                   /\ Len(group) = Readers /\ flags.pin

Home(p, s) == p.steered => attached /\ SteeredTo(cores, p.cpu) = s

SteeredGoHome ==
    \A i \in Socket :
        /\ \A k \in 1 .. Len(queue[i]) : Home(queue[i][k], i)
        /\ held[i].steered => Home(held[i], i) /\ pc[i] \in {"count", "sample", "send"}

SpawnedInOrder ==
    /\ main \in {"build", "bind", "attach"} => \A i \in Socket : pc[i] = "none"
    /\ main = "spawn" => \A i \in Socket : i >= next => pc[i] = "none"

RunningArePinned ==
    \A i \in Socket :
        flags.pin /\ pc[i] \in {"read", "count", "sample", "send"} => thread[i] = Target(i)

Knows(i, c) == c \in early[i] \/ (attached /\ SteeredTo(cores, c) = i)

KnownCPUs ==
    /\ early \in [Socket -> SUBSET CPU]
    /\ \A i \in Socket : lastCPU[i] # NoCPU => Knows(i, lastCPU[i])
    /\ \A i \in Socket, c \in CPU : hist[i][c] > 0 => Knows(i, c)
    /\ \A k \in DOMAIN lines : \A c \in lines[k].cpus : Knows(k - 1, c)

LinesInStep ==
    /\ main \in {"build", "bind", "attach", "spawn", "serve"} => lines = <<>>
    /\ main = "serve" => next = 0
    /\ main = "load" => Len(lines) = next
    /\ main = "format" => Len(lines) = next + 1

EInv ==
    /\ TypeOK /\ GroupInOrder /\ SteeredGoHome /\ SpawnedInOrder
    /\ RunningArePinned /\ KnownCPUs /\ LinesInStep

(* Every packet that arrived is counted, queued, about to be counted, or   *)
(* dropped at a full buffer, also while readers fail and die (main.go:     *)
(* 179-196).                                                               *)
PacketsAccounted ==
    arrived = dropped + SumFunction(counts)
                + SumFunction([s \in Socket |-> Len(queue[s])])
                + SumFunction([i \in Socket |-> IF pc[i] = "count" THEN 1 ELSE 0])

(* The report is read while the readers count on.  It never misses what    *)
(* was counted before the signal, never reports what was not counted, and  *)
(* its total is the sum of its lines (main.go:213-219).                    *)
ReportConsistent ==
    /\ \A k \in DOMAIN lines : base[k - 1] <= lines[k].n /\ lines[k].n <= counts[k - 1]
    /\ main = "done" =>
          Len(lines) = Readers
          /\ total = SumFunction([k \in DOMAIN lines |-> lines[k].n])

(* Why the report is consistent: the signal found no counter ahead, every  *)
(* line was read after it, and total is the sum of the lines printed.      *)
Numbers(m) == [k \in 1 .. m |-> lines[k].n]

ReportInv ==
    /\ base \in [Socket -> Nat] /\ \A i \in Socket : base[i] <= counts[i]
    /\ Len(lines) <= Readers
    /\ \A k \in DOMAIN lines : base[k - 1] <= lines[k].n /\ lines[k].n <= counts[k - 1]
    /\ main \in {"build", "bind", "attach", "spawn", "serve"} => total = 0
    /\ main \in {"load", "format"} => total = SumFunction(Numbers(next))
    /\ main = "done" => Len(lines) = Readers /\ total = SumFunction(Numbers(Readers))

(* No packet stays in a queue for ever, unless its reader has returned on  *)
(* a read error or the process has ended.                                  *)
QueuedAreRead ==
    \A i \in Socket : queue[i] # <<>> ~> (queue[i] = <<>> \/ pc[i] = "gone" \/ ~Up)
=============================================================================
