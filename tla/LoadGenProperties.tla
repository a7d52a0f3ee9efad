------------------------- MODULE LoadGenProperties -------------------------
(***************************************************************************)
(* What the RESULT line of udploadgen may be trusted for.                  *)
(***************************************************************************)
EXTENDS LoadGen

(* Types, with the bounds on the samples (main.go:51-52, 122-128) and on   *)
(* the ranks of the percentiles (main.go:355-366).                         *)
TypeOK ==
    /\ mode \in Modes
    /\ main \in {"spawn", "pace", "probe", "grace", "drain wait", "wait", "done", "fatal"}
    /\ pc \in [Socket -> {"none", "dial", "loop", "read", "drain", "count", "done"}]
    /\ seq \in [Socket -> Nat] /\ attempt \in [Socket -> 0 .. 2]
    /\ result \in [Socket -> [sent: Nat, recv: Nat, rtts: Nat]]
    /\ Total("rtts") <= MaxSamples \/ Total("rtts") <= Flows
    /\ misses \in [Socket -> Nat]
    /\ \A f \in Socket : own[f] \subseteq 1 .. seq[f] /\ IsABag(flight[f])
    /\ sockErr \in [Socket -> BOOLEAN]
    /\ dups \in 0 .. MaxDups /\ faults \in 0 .. MaxFaults
    /\ start \in Nat /\ now \in Nat /\ todo \in 0 .. MaxBurst
    /\ next \in 0 .. Flows - 1 /\ sent \in Nat /\ recv \in Nat
    /\ closed \in BOOLEAN
    /\ \A k \in 1 .. 3 : report.ranks[k] \in 0 .. Total("rtts")

Waiting(f) == IF pc[f] = "read" THEN 1 ELSE 0

(* A lock-step loop's loss figure is honest in both directions.  It counts *)
(* a packet as received only when that packet's own echo was read, and     *)
(* only once, however late, stale or duplicated the packets it reads.  And *)
(* it does not run away: beside the packets whose read failed, it gives up *)
(* at most one more per such failure and per duplicate, because the second *)
(* read eats up the backlog that a late echo leaves (main.go:300-302).     *)
LossIsHonest ==
    \A f \in Loops :
        /\ result[f].recv <= Cardinality(own[f])
        /\ result[f].sent - result[f].recv - Waiting(f) <= 2 * misses[f] + dups

(* The pacer sends in turn on every socket.  Over the whole run it never   *)
(* sends more than one full burst per tick that passed, wrapped target or  *)
(* not.  And when its clock is read by the first tick, it is never ahead   *)
(* of the rate, however many ticks it misses (main.go:243-248, 277-282).   *)
(* A clock read later is left to NeverAheadOfTarget.                       *)
PacerHolds ==
    mode = "flood" =>
        /\ \A f, g \in Drains : seq[f] <= seq[g] + 1
        /\ sent + todo <= MaxBurst * now
        /\ start <= 1 /\ start <= now => sent + todo <= Due(now - start)

(* What the comment says of every run: "each tick sends whatever the       *)
(* cumulative target calls for, capped at a small burst bound so a slow    *)
(* stretch degrades to a lower achieved rate" (main.go:245-248).           *)
NeverAheadOfTarget ==
    mode = "flood" => sent + todo <= IF start <= now THEN Due(now - start) ELSE 0

(* What is still in the sockets or on its way, and what was read and not   *)
(* counted yet, per socket.                                                *)
Size(b)  == SumFunction(b)
OnTheWay == [f \in Socket |-> Size(flight[f])]
Counting == [f \in Socket |-> IF pc[f] = "count" THEN 1 ELSE 0]

(* The report comes last: nothing is counted after it, the unsigned loss   *)
(* of the lock-step mode does not wrap, and the loss of a flood is what    *)
(* did not come back: whatever a drain that ended early left unread and    *)
(* what the network lost, less what it repeated (main.go:215-232).  A      *)
(* refused write is no loss, since sent does not count it.                 *)
ReportIsFinal ==
    main = "done" =>
        /\ mode = "lockstep" =>
              /\ report.sent = Total("sent") /\ report.recv = Total("recv")
              /\ report.lost + report.recv = report.sent
        /\ mode = "flood" =>
              /\ report.sent = sent /\ report.recv = recv
              /\ LET left == SumFunctionOnSet(OnTheWay, Drains)
                 IN  left - dups <= report.lost /\ report.lost <= left + faults

-----------------------------------------------------------------------------
(* Why they hold: the inductive invariant                                  *)

(* Who runs when: the drains and the pacer only in a flood, nobody before  *)
(* main has started the goroutines.                                        *)
Control ==
    /\ DOMAIN flight = Socket /\ DOMAIN own = Socket
    /\ main \in {"pace", "probe", "grace", "drain wait"} => mode = "flood"
    /\ main = "wait" => mode = "lockstep"
    /\ \A f \in Loops : pc[f] \in {"none", "dial", "loop", "read", "done"}
    /\ \A f \in Drains : pc[f] \in {"none", "drain", "count", "done"}
    /\ main = "spawn" => /\ now = 0 /\ todo = 0 /\ sent = 0
                         /\ \A f \in Socket : pc[f] = "none"

Copies(b, s) == IF s \in DOMAIN b THEN b[s] ELSE 0

(* What loop f has given up without an error, the reads that its last      *)
(* packet had so far, and the packets on the way that are not that one.    *)
GivenUp(f) == result[f].sent - result[f].recv - Waiting(f) - misses[f]
Reads(f)   == IF pc[f] = "read" THEN attempt[f] ELSE 0
Stale(f)   == Size(flight[f]) - Copies(flight[f], seq[f])

(* Two stale packets were read for every packet given up without an error, *)
(* and a packet on the way is stale, a duplicate or still waited for.      *)
LoopKnows(f) ==
    /\ pc[f] = "read" => seq[f] \in 1 .. MaxSeq[f] \ own[f] /\ attempt[f] < 2
    /\ DOMAIN flight[f] \subseteq 1 .. seq[f]
    /\ result[f].recv <= Cardinality(own[f])
    /\ result[f].recv + Waiting(f) <= result[f].sent
    /\ result[f].sent <= seq[f] /\ seq[f] <= MaxSeq[f]
    /\ GivenUp(f) + Reads(f) + Size(flight[f]) <= misses[f] + dups + Waiting(f)
    /\ pc[f] = "read" => GivenUp(f) + Reads(f) + Stale(f) <= misses[f] + dups

(* The pacer has written once more on the sockets before next than on the  *)
(* others, keeps to a burst per tick, and is not ahead of its clock.       *)
PacerInTurn ==
    \A f, g \in Drains :
        seq[f] = seq[g] + (IF f < next THEN 1 ELSE 0) - (IF g < next THEN 1 ELSE 0)

PacerInTime ==
    /\ sent + todo <= MaxBurst * now
    /\ start <= 1 => \/ now = 0 /\ sent = 0 /\ todo = 0
                     \/ start <= now /\ sent + todo <= Due(now - start)

(* What a flood has sent has been counted, is about to be, or is on its    *)
(* way, but for what the network lost and repeated.                        *)
Counted == recv + SumFunctionOnSet(OnTheWay, Drains) + SumFunctionOnSet(Counting, Drains)

FloodCounted ==
    /\ \A f \in Drains : DOMAIN flight[f] \subseteq {Flood}
    /\ mode = "flood" => Counted <= sent + dups /\ sent <= Counted + faults

ReportMade ==
    IF main # "done" THEN report = NoReport
    ELSE IF mode = "lockstep"
         THEN report = Line(Total("sent"), Total("recv"),
                            Total("sent") - Total("recv"), Total("rtts"))
         ELSE /\ Drained
              /\ report = Line(sent, recv, sent - recv, result[Probe].rtts)

LInv ==
    /\ TypeOK /\ Control /\ \A f \in Socket : result[f].rtts <= Cap
    /\ \A f \in Loops : LoopKnows(f)
    /\ PacerInTurn /\ PacerInTime /\ FloodCounted /\ ReportMade

(* A run ends with a report or an error, also when no packet comes back.   *)
RunEnds == <>(main \in {"done", "fatal"})
=============================================================================
