------------------------------ MODULE LoadGen ------------------------------
(***************************************************************************)
(* example/udploadgen: the lock-step loop, which sends a packet and waits  *)
(* for its echo, and the flood, in which one goroutine paces the sends,    *)
(* one goroutine per socket drains the echoes, and a lock-step loop on a   *)
(* socket of its own probes the latency.                                   *)
(*                                                                         *)
(* A socket has the number of its flow; the probe's comes last.  A packet  *)
(* is its sequence number, by which a lock-step loop knows its echo; the   *)
(* drains do not look at theirs, which are all Flood.  What is external:   *)
(* flight[f] holds the packets of socket f on their way to the server, on  *)
(* their way back and in the socket's buffer, in no order.  The network    *)
(* loses and duplicates them, and one that finds no server comes back as   *)
(* an error, which the next call on the socket returns and clears.         *)
(***************************************************************************)
EXTENDS Integers, FiniteSets, Bags, Functions

CONSTANTS
    Flows,              \* -flows
    Modes,              \* the settings of -mode considered
    MaxSeq,             \* bound per socket: packets of a lock-step loop
    MaxSamples,         \* the 1_000_000 of main.go:52
    Estimate,           \* sends expected of a lock-step loop, main.go:121
    Rate, Den,          \* -pps as a fraction of packets per tick
    BurstTicks,         \* the 4 of main.go:261
    Ticks,              \* ticks in -duration
    MaxSkip,            \* bound: ticks a slow pacer misses in a row, plus 1
    Delays,             \* how late, in ticks, main.go:268 may read the clock
    Width,              \* 2^64
    MaxDups, MaxFaults  \* bounds: packets duplicated; lost or refused

(* What main refuses to run without (main.go:77-91).                       *)
ASSUME LoadGenAssumption ==
    /\ Flows \in Nat \ {0} /\ Modes \subseteq {"lockstep", "flood"}
    /\ MaxSeq \in [0 .. Flows -> Nat] /\ MaxSamples \in Nat /\ Estimate \in Nat \ {0}
    /\ Rate \in Nat \ {0} /\ Den \in Nat \ {0}
    /\ BurstTicks \in Nat \ {0} /\ Ticks \in Nat \ {0} /\ MaxSkip \in Nat \ {0}
    /\ Delays \subseteq Nat /\ Width \in Nat \ {0}
    /\ MaxDups \in Nat /\ MaxFaults \in Nat

VARIABLES
    mode, main,             \* -mode; where the main goroutine is
    pc, seq, attempt,       \* per socket: its goroutine, last packet, reads
    result, misses, own,    \* per lock-step loop: flowResult; see below
    flight, sockErr,        \* per socket: see above; an error is pending
    dups, faults,
    start, now, todo, next, \* the pacer: clock read, tick, writes left, socket
    sent, recv,             \* the flood's counters
    closed, report

pacer   == <<start, now, todo, next, sent>>
network == <<flight, sockErr, dups, faults>>
history == <<misses, own>>
flow    == <<pc, seq, attempt, result, history>>
vars    == <<mode, main, flow, network, pacer, recv, closed, report>>

(* History: misses[f] counts the packets that loop f gave up because a     *)
(* read returned an error, which a deadline is; own[f] are the packets     *)
(* that it read when it counted an echo.                                   *)

Socket == 0 .. Flows
Probe  == Flows
Flood  == 0         \* the packet of a flood

Loops  == IF mode = "lockstep" THEN 0 .. Flows - 1 ELSE {Probe}
Drains == IF mode = "flood" THEN 0 .. Flows - 1 ELSE {}

NoReport == [sent |-> 0, recv |-> 0, lost |-> 0, ranks |-> <<0, 0, 0>>]

Least(m, n) == IF m < n THEN m ELSE n

-----------------------------------------------------------------------------
(* The network                                                             *)

Lose(f, s) ==
    /\ faults < MaxFaults /\ s \in BagToSet(flight[f])
    /\ flight' = [flight EXCEPT ![f] = @ (-) SetToBag({s})]
    /\ faults' = faults + 1
    /\ sockErr' \in {sockErr, [sockErr EXCEPT ![f] = TRUE]}
    /\ UNCHANGED <<mode, main, flow, dups, pacer, recv, closed, report>>

Duplicate(f, s) ==
    /\ dups < MaxDups /\ s \in BagToSet(flight[f])
    /\ flight' = [flight EXCEPT ![f] = @ (+) SetToBag({s})]
    /\ dups' = dups + 1
    /\ UNCHANGED <<mode, main, flow, sockErr, faults, pacer, recv, closed, report>>

(* A write returns the pending error or sends s.                           *)
WriteOK(f)   == ~sockErr[f]
Write(f, s)  ==
    /\ flight' = IF WriteOK(f) THEN [flight EXCEPT ![f] = @ (+) SetToBag({s})] ELSE flight
    /\ sockErr' = [sockErr EXCEPT ![f] = FALSE]
    /\ UNCHANGED <<dups, faults>>

(* A read returns a packet.                                                *)
Receive(f, s) ==
    /\ ~sockErr[f] /\ s \in BagToSet(flight[f])
    /\ flight' = [flight EXCEPT ![f] = @ (-) SetToBag({s})]
    /\ UNCHANGED <<sockErr, dups, faults>>

(* A read returns an error: the pending one, or why.                       *)
ReadError(f, why) ==
    /\ sockErr[f] \/ why
    /\ sockErr' = [sockErr EXCEPT ![f] = FALSE]
    /\ UNCHANGED <<flight, dups, faults>>

-----------------------------------------------------------------------------
(* runFlow: the lock-step loop on socket f                                 *)

(* Mutant: every loop may keep them all.                                   *)
SharedCap == MaxSamples

(* The room for samples: at most MaxSamples over all loops (main.go:52).   *)
PerFlowCap ==
    IF mode = "flood" THEN MaxSamples
    ELSE IF MaxSamples < Flows THEN 1 ELSE MaxSamples \div Flows

Cap == Least(Estimate, PerFlowCap)

At(f, step) ==
    /\ main \notin {"done", "fatal"} /\ f \in Loops /\ pc[f] = step
    /\ UNCHANGED <<mode, main, pacer, recv, closed, report>>

Goto(f, step) == pc' = [pc EXCEPT ![f] = step]

(* A failed dial ends the process, whatever the others are doing.          *)
Dial(f) ==
    /\ At(f, "dial") /\ Goto(f, "loop")
    /\ UNCHANGED <<seq, attempt, result, history, network>>

Send(f) ==
    /\ At(f, "loop") /\ seq[f] < MaxSeq[f]
    /\ seq' = [seq EXCEPT ![f] = @ + 1]
    /\ Write(f, seq'[f])
    /\ \/ /\ ~WriteOK(f)
          /\ UNCHANGED <<pc, attempt, result>>
       \/ /\ WriteOK(f)
          /\ result' = [result EXCEPT ![f].sent = @ + 1]
          /\ attempt' = [attempt EXCEPT ![f] = 0]
          /\ Goto(f, "read")
    /\ UNCHANGED history

Matches(f, s) == s = seq[f]

ReadEcho(f, s) ==
    /\ At(f, "read") /\ Receive(f, s) /\ Matches(f, s)
    /\ result' = [result EXCEPT ![f].recv = @ + 1,
                                ![f].rtts = IF @ < Cap THEN @ + 1 ELSE @]
    /\ own' = [own EXCEPT ![f] = @ \cup {s}]
    /\ Goto(f, "loop")
    /\ UNCHANGED <<seq, attempt, misses>>

(* Mutant: a stale packet ends the wait.                                   *)
OneRead == 1

MaxReads == 2

ReadStale(f, s) ==
    /\ At(f, "read") /\ Receive(f, s) /\ ~Matches(f, s)
    /\ attempt' = [attempt EXCEPT ![f] = @ + 1]
    /\ Goto(f, IF attempt'[f] < MaxReads THEN "read" ELSE "loop")
    /\ UNCHANGED <<seq, result, history>>

(* The deadline passes, anew for each read, or an error was pending.  A    *)
(* packet that arrives at that moment stays in the buffer.                 *)
ReadFails(f) ==
    /\ At(f, "read") /\ ReadError(f, TRUE)
    /\ misses' = [misses EXCEPT ![f] = @ + 1]
    /\ Goto(f, "loop")
    /\ UNCHANGED <<seq, attempt, result, own>>

(* The duration is over.                                                   *)
LoopEnds(f) ==
    /\ At(f, "loop") /\ Goto(f, "done")
    /\ UNCHANGED <<seq, attempt, result, history, network>>

Loop(f) ==
    \/ Dial(f) \/ Send(f) \/ ReadFails(f) \/ LoopEnds(f)
    \/ \E s \in BagToSet(flight[f]) : ReadEcho(f, s) \/ ReadStale(f, s)

-----------------------------------------------------------------------------
(* The drain goroutine of socket f                                         *)

DrainAt(f, step) ==
    /\ main \notin {"done", "fatal"} /\ f \in Drains /\ pc[f] = step
    /\ UNCHANGED <<mode, main, seq, attempt, result, history, pacer, closed, report>>

DrainRead(f) ==
    /\ DrainAt(f, "drain") /\ ~closed /\ Receive(f, Flood)
    /\ Goto(f, "count")
    /\ UNCHANGED recv

DrainCount(f) ==
    /\ DrainAt(f, "count") /\ Goto(f, "drain")
    /\ recv' = recv + 1
    /\ UNCHANGED network

(* Any error ends it, be it the close or one that passes.                  *)
DrainEnds(f) ==
    /\ DrainAt(f, "drain") /\ ReadError(f, closed)
    /\ Goto(f, "done")
    /\ UNCHANGED recv

Drain(f) == DrainRead(f) \/ DrainCount(f) \/ DrainEnds(f)

-----------------------------------------------------------------------------
(* floodSend: the pacer, which is the main goroutine                       *)

Ceiling(m, n) == (m + n - 1) \div n

MaxBurst == BurstTicks * Ceiling(Rate, Den)

(* Whole packets that the rate calls for in some ticks.                    *)
Due(ticks) == (Rate * ticks) \div Den

(* A run sends fewer packets than a uint64 counts.                         *)
ASSUME WidthAssumption == SumFunction(MaxSeq) < Width /\ Due(Ticks) < Width

(* uint64(pps * now.Sub(start).Seconds()): a whole negative number becomes *)
(* 0 or wraps, as the processor has it.                                    *)
Target(t) ==
    LET packets == IF t >= start THEN Due(t - start) ELSE -Due(start - t)
    IN  {packets % Width, IF packets < 0 THEN 0 ELSE packets}

(* Mutant: what was sent already is not taken off.                         *)
WholeTarget(target) == target

(* target - sent, which wraps too.                                         *)
Deficit(target) == (target - sent) % Width

(* A tick: the time it carries is that of the first one not yet received.  *)
(* A late pacer misses some.                                               *)
Tick ==
    /\ main = "pace" /\ todo = 0
    /\ now' \in now + 1 .. now + MaxSkip
    /\ \/ /\ now' >= start + Ticks
          /\ main' = "probe" /\ todo' = 0
       \/ /\ now' < start + Ticks
          /\ \E target \in Target(now') : todo' = Least(Deficit(target), MaxBurst)
          /\ UNCHANGED main
    /\ UNCHANGED <<mode, flow, network, start, next, sent, recv, closed, report>>

FloodWrite ==
    /\ main = "pace" /\ todo > 0
    /\ seq' = [seq EXCEPT ![next] = @ + 1]
    /\ Write(next, Flood)
    /\ sent' = IF WriteOK(next) THEN sent + 1 ELSE sent
    /\ todo' = todo - 1 /\ next' = (next + 1) % Flows
    /\ UNCHANGED <<mode, main, pc, attempt, result, history, start, now>>
    /\ UNCHANGED <<recv, closed, report>>

-----------------------------------------------------------------------------
(* main and runFlood                                                       *)

MainStep(from, to) ==
    /\ main = from /\ main' = to
    /\ UNCHANGED <<mode, seq, attempt, result, history, network, recv>>

Done(fs) == \A f \in fs : pc[f] = "done"

(* The goroutines are started; the ticker, and then the clock is read.     *)
Spawn ==
    /\ MainStep("spawn", IF mode = "flood" THEN "pace" ELSE "wait")
    /\ pc' = [f \in Socket |-> IF f \in Loops THEN "dial" ELSE
                                 IF f \in Drains THEN "drain" ELSE "done"]
    /\ start' \in Delays
    /\ UNCHANGED <<now, todo, next, sent, closed, report>>

DialFails ==
    /\ \/ main = "spawn" /\ mode = "flood"
       \/ main \notin {"done", "fatal"} /\ \E f \in Loops : pc[f] = "dial"
    /\ MainStep(main, "fatal")
    /\ UNCHANGED <<pc, pacer, closed, report>>

ProbeWait ==
    /\ MainStep("probe", "grace") /\ pc[Probe] = "done"
    /\ UNCHANGED <<pc, pacer, closed, report>>

(* Mutant: the sockets stay open.                                          *)
GraceOnly ==
    /\ MainStep("grace", "drain wait")
    /\ UNCHANGED <<closed, pc, pacer, report>>

(* The grace period, however long, and the sockets are closed.             *)
Close ==
    /\ MainStep("grace", "drain wait")
    /\ closed' = TRUE
    /\ UNCHANGED <<pc, pacer, report>>

(* The rank of the p-th percentile of n sorted samples, 0 if there is none.*)
percentile(n, p) == IF n = 0 THEN 0 ELSE Least((p * n) \div 100, n - 1) + 1

(* The RESULT line; lost is what the loss is computed from.                *)
Line(s, r, lost, samples) ==
    [sent |-> s, recv |-> r, lost |-> lost,
     ranks |-> [k \in 1 .. 3 |-> percentile(samples, <<50, 95, 99>>[k])]]

Total(field) == SumFunctionOnSet([f \in Socket |-> result[f][field]], Loops)

(* sent - recv of a uint64.                                                *)
ReportLockStep ==
    /\ MainStep("wait", "done") /\ Done(Loops)
    /\ report' = Line(Total("sent"), Total("recv"),
                      (Total("sent") - Total("recv")) % Width, Total("rtts"))
    /\ UNCHANGED <<pc, pacer, closed>>

(* Mutant: the drains are not waited for.                                  *)
NotWaiting == TRUE

Drained == Done(Drains)

(* The loss is computed in floating point.                                 *)
ReportFlood ==
    /\ MainStep("drain wait", "done") /\ Drained
    /\ report' = Line(sent, recv, sent - recv, result[Probe].rtts)
    /\ UNCHANGED <<pc, pacer, closed>>

Main == \/ Spawn \/ Tick \/ FloodWrite \/ ProbeWait \/ Close
        \/ ReportLockStep \/ ReportFlood

-----------------------------------------------------------------------------
Init ==
    /\ mode \in Modes /\ main = "spawn"
    /\ pc = [f \in Socket |-> "none"] /\ seq = [f \in Socket |-> 0]
    /\ attempt = [f \in Socket |-> 0]
    /\ result = [f \in Socket |-> [sent |-> 0, recv |-> 0, rtts |-> 0]]
    /\ misses = [f \in Socket |-> 0] /\ own = [f \in Socket |-> {}]
    /\ flight = [f \in Socket |-> EmptyBag] /\ sockErr = [f \in Socket |-> FALSE]
    /\ dups = 0 /\ faults = 0
    /\ start = 0 /\ now = 0 /\ todo = 0 /\ next = 0 /\ sent = 0
    /\ recv = 0 /\ closed = FALSE /\ report = NoReport

Next ==
    \/ Main \/ DialFails
    \/ \E f \in Socket : Loop(f) \/ Drain(f)
    \/ \E f \in Socket : \E s \in BagToSet(flight[f]) : Lose(f, s) \/ Duplicate(f, s)

Spec == Init /\ [][Next]_vars

(* Every goroutine that can run runs, deadlines pass and tickers tick.     *)
(* No packet need ever come back.                                          *)
FairSpec ==
    /\ Spec /\ WF_vars(Main)
    /\ \A f \in Socket : WF_vars(Loop(f)) /\ WF_vars(Drain(f))
=============================================================================
