---------------------------- MODULE LoadGenProofs ----------------------------
(***************************************************************************)
(* udploadgen: what the loss figures count, the pacer's rate and the final *)
(* report, for any number of flows, packets, duplicates and losses.        *)
(***************************************************************************)
EXTENDS LoadGenProperties, SumProofs

USE LoadGenAssumption

-----------------------------------------------------------------------------
(* Bags                                                                    *)

LEMMA PartFinite ==
    ASSUME NEW S, IsFiniteSet(S), NEW T, T \subseteq S
    PROVE  IsFiniteSet(T)
BY FS_Subset

LEMMA SizeNat ==
    ASSUME NEW b, IsABag(b), IsFiniteSet(DOMAIN b)
    PROVE  /\ Size(b) \in Nat
           /\ \A s : Copies(b, s) \in Nat /\ Copies(b, s) <= Size(b)
<1>1. \A s \in DOMAIN b : b[s] \in Nat /\ b[s] > 0
  BY DEF IsABag
<1>2. Size(b) \in Nat
  BY <1>1, SumNat DEF Size, SumFunction
<1>3. ASSUME NEW s \in DOMAIN b
      PROVE  b[s] \in Nat /\ b[s] <= Size(b)
  <2>1. Size(b) = b[s] + SumFunctionOnSet(b, DOMAIN b \ {s})
    BY <1>1, SumTake DEF Size, SumFunction
  <2>2. SumFunctionOnSet(b, DOMAIN b \ {s}) \in Nat
    <3>1. IsFiniteSet(DOMAIN b \ {s})
      BY PartFinite
    <3> QED
      BY <1>1, <3>1, SumNat
  <2> QED
    BY <1>1, <2>1, <2>2
<1> QED
  BY <1>2, <1>3 DEF Copies

LEMMA EmptyIs == IsABag(EmptyBag) /\ DOMAIN EmptyBag = {} /\ Size(EmptyBag) = 0
<1>1. DOMAIN EmptyBag = {}
  BY DEF EmptyBag, SetToBag
<1>2. IsABag(EmptyBag)
  BY DEF IsABag, EmptyBag, SetToBag
<1>3. Size(EmptyBag) = 0
  BY <1>1, SumEmpty DEF Size, SumFunction
<1> QED
  BY <1>1, <1>2, <1>3

LEMMA AddIs ==
    ASSUME NEW b, IsABag(b), NEW s
    PROVE  /\ IsABag(b (+) SetToBag({s}))
           /\ DOMAIN (b (+) SetToBag({s})) = DOMAIN b \cup {s}
           /\ \A t : Copies(b (+) SetToBag({s}), t) = Copies(b, t) + (IF t = s THEN 1 ELSE 0)
<1> DEFINE one == SetToBag({s})
           c   == [e \in DOMAIN b \cup {s} |-> Copies(b, e) + (IF e = s THEN 1 ELSE 0)]
<1>1. DOMAIN one = {s} /\ one[s] = 1
  BY DEF SetToBag
<1>2. \A e \in DOMAIN b : b[e] \in Nat /\ b[e] > 0
  BY DEF IsABag
<1>3. b (+) one = c
  <2>1. \A e \in DOMAIN b \cup {s} :
           (IF e \in DOMAIN b THEN b[e] ELSE 0) + (IF e \in DOMAIN one THEN one[e] ELSE 0)
               = Copies(b, e) + (IF e = s THEN 1 ELSE 0)
    BY <1>1 DEF Copies
  <2> QED
    BY <2>1, <1>1 DEF (+)
<1>4. \A e : Copies(b, e) \in Nat /\ (e \in DOMAIN b => Copies(b, e) > 0)
  BY <1>2 DEF Copies
<1>5. DOMAIN c = DOMAIN b \cup {s} /\ \A e \in DOMAIN c : c[e] \in Nat /\ c[e] > 0
  BY <1>4 DEF Copies
<1>6. IsABag(c)
  BY <1>5 DEF IsABag
<1>7. \A t : Copies(c, t) = Copies(b, t) + (IF t = s THEN 1 ELSE 0)
  BY <1>4, <1>5 DEF Copies
<1> QED
  BY <1>3, <1>5, <1>6, <1>7

LEMMA RemoveIs ==
    ASSUME NEW b, IsABag(b), NEW s \in DOMAIN b
    PROVE  /\ IsABag(b (-) SetToBag({s}))
           /\ DOMAIN (b (-) SetToBag({s})) \subseteq DOMAIN b
           /\ DOMAIN b \subseteq DOMAIN (b (-) SetToBag({s})) \cup {s}
           /\ \A t : Copies(b (-) SetToBag({s}), t) = Copies(b, t) - (IF t = s THEN 1 ELSE 0)
<1> DEFINE one  == SetToBag({s})
           left == [e \in DOMAIN b |-> b[e] - (IF e = s THEN 1 ELSE 0)]
           c    == [e \in {d \in DOMAIN b : left[d] > 0} |-> left[e]]
<1>1. DOMAIN one = {s} /\ one[s] = 1
  BY DEF SetToBag
<1>2. \A e \in DOMAIN b : b[e] \in Nat /\ b[e] > 0
  BY DEF IsABag
<1>3. b (-) one = c
  <2>1. \A e \in DOMAIN b :
           (IF e \in DOMAIN one THEN b[e] - one[e] ELSE b[e]) = b[e] - (IF e = s THEN 1 ELSE 0)
    BY <1>1, <1>2
  <2>2. [e \in DOMAIN b |-> IF e \in DOMAIN one THEN b[e] - one[e] ELSE b[e]] = left
    BY <2>1
  <2> HIDE DEF one, left
  <2>3. DOMAIN left = DOMAIN b
    BY DEF left
  <2> QED
    BY <2>2, <2>3 DEF (-)
<1>4. \A e \in DOMAIN b : left[e] = b[e] - (IF e = s THEN 1 ELSE 0) /\ left[e] \in Nat
  BY <1>2
<1>5. /\ DOMAIN c = {d \in DOMAIN b : left[d] > 0}
      /\ \A e \in DOMAIN c : c[e] = left[e]
  OBVIOUS
<1> HIDE DEF c, left
<1>6. IsABag(c)
  <2>1. c = [e \in DOMAIN c |-> c[e]]
    BY DEF c
  <2>2. \A e \in DOMAIN c : c[e] \in {n \in Nat : n > 0}
    BY <1>4, <1>5
  <2> QED
    BY <2>1, <2>2 DEF IsABag
<1>7. DOMAIN c \subseteq DOMAIN b /\ DOMAIN b \subseteq DOMAIN c \cup {s}
  BY <1>2, <1>4, <1>5
<1>8. ASSUME NEW t
      PROVE  Copies(c, t) = Copies(b, t) - (IF t = s THEN 1 ELSE 0)
  <2>1. CASE t \in DOMAIN c
    BY <2>1, <1>4, <1>5 DEF Copies
  <2>2. CASE t \notin DOMAIN c /\ t \in DOMAIN b
    <3>1. left[t] = 0
      BY <2>2, <1>4, <1>5
    <3> QED
      BY <3>1, <2>2, <1>2, <1>4 DEF Copies
  <2>3. CASE t \notin DOMAIN b
    <3>1. t \notin DOMAIN c
      BY <2>3, <1>7
    <3> QED
      BY <3>1, <2>3 DEF Copies
  <2> QED
    BY <2>1, <2>2, <2>3
<1> QED
  BY <1>3, <1>6, <1>7, <1>8

(* The size of a bag is that of one element's copies and of the others.    *)
LEMMA SizeSplits ==
    ASSUME NEW b, IsABag(b), IsFiniteSet(DOMAIN b), NEW s
    PROVE  Size(b) = Copies(b, s) + SumFunctionOnSet(b, DOMAIN b \ {s})
<1>1. \A t \in DOMAIN b : b[t] \in Nat /\ b[t] > 0
  BY DEF IsABag
<1>2. CASE s \in DOMAIN b
  BY <1>1, <1>2, SumTake DEF Size, SumFunction, Copies
<1>3. CASE s \notin DOMAIN b
  <2>1. DOMAIN b \ {s} = DOMAIN b
    BY <1>3
  <2>2. SumFunctionOnSet(b, DOMAIN b) \in Nat
    BY <1>1, SumNat
  <2> QED
    BY <1>3, <2>1, <2>2 DEF Size, SumFunction, Copies
<1> QED
  BY <1>2, <1>3

(* Two bags that differ only in the copies of one element.                 *)
LEMMA SizesDiffer ==
    ASSUME NEW b, IsABag(b), IsFiniteSet(DOMAIN b),
           NEW c, IsABag(c), IsFiniteSet(DOMAIN c),
           NEW s, DOMAIN b \ {s} = DOMAIN c \ {s},
           \A t : t # s => Copies(c, t) = Copies(b, t)
    PROVE  Size(c) - Copies(c, s) = Size(b) - Copies(b, s)
<1>1. /\ \A t \in DOMAIN b : b[t] \in Nat
      /\ \A t \in DOMAIN c : c[t] \in Nat
  BY DEF IsABag
<1>2. \A t \in DOMAIN b \ {s} : c[t] = b[t]
  BY DEF Copies
<1>3. IsFiniteSet(DOMAIN b \ {s})
  BY PartFinite
<1>4. /\ SumFunctionOnSet(c, DOMAIN b \ {s}) = SumFunctionOnSet(b, DOMAIN b \ {s})
      /\ SumFunctionOnSet(b, DOMAIN b \ {s}) \in Nat
  BY <1>1, <1>2, <1>3, SumSame, SumNat
<1>5. Size(b) = Copies(b, s) + SumFunctionOnSet(b, DOMAIN b \ {s})
  BY SizeSplits
<1>6. Size(c) = Copies(c, s) + SumFunctionOnSet(b, DOMAIN b \ {s})
  BY <1>4, SizeSplits
<1>7. Copies(b, s) \in Nat /\ Copies(c, s) \in Nat
  BY SizeNat
<1> QED
  BY <1>4, <1>5, <1>6, <1>7

LEMMA AddCounts ==
    ASSUME NEW b, IsABag(b), IsFiniteSet(DOMAIN b), NEW s
    PROVE  /\ Size(b (+) SetToBag({s})) = Size(b) + 1
           /\ IsFiniteSet(DOMAIN (b (+) SetToBag({s})))
<1> DEFINE c == b (+) SetToBag({s})
<1>1. /\ IsABag(c) /\ DOMAIN c = DOMAIN b \cup {s}
      /\ \A t : Copies(c, t) = Copies(b, t) + (IF t = s THEN 1 ELSE 0)
  BY AddIs
<1> HIDE DEF c
<1>2. IsFiniteSet(DOMAIN c)
  BY <1>1, FS_AddElement
<1>3. Size(b) \in Nat /\ Size(c) \in Nat /\ \A t : Copies(b, t) \in Nat
  BY <1>1, <1>2, SizeNat
<1>4. \A t : t # s => Copies(c, t) = Copies(b, t)
  BY <1>1, <1>3
<1>5. DOMAIN b \ {s} = DOMAIN c \ {s}
  BY <1>1
<1>6. Size(c) - Copies(c, s) = Size(b) - Copies(b, s)
  BY <1>1, <1>2, <1>4, <1>5, SizesDiffer
<1>7. Copies(c, s) = Copies(b, s) + 1
  BY <1>1
<1> QED
  BY <1>2, <1>3, <1>6, <1>7 DEF c

LEMMA RemoveCounts ==
    ASSUME NEW b, IsABag(b), IsFiniteSet(DOMAIN b), NEW s \in DOMAIN b
    PROVE  /\ Size(b (-) SetToBag({s})) = Size(b) - 1
           /\ IsFiniteSet(DOMAIN (b (-) SetToBag({s})))
<1> DEFINE c == b (-) SetToBag({s})
<1>1. /\ IsABag(c) /\ DOMAIN c \subseteq DOMAIN b /\ DOMAIN b \subseteq DOMAIN c \cup {s}
      /\ \A t : Copies(c, t) = Copies(b, t) - (IF t = s THEN 1 ELSE 0)
  BY RemoveIs
<1> HIDE DEF c
<1>2. IsFiniteSet(DOMAIN c)
  BY <1>1, PartFinite
<1>3. Size(b) \in Nat /\ Size(c) \in Nat /\ \A t : Copies(b, t) \in Nat
  BY <1>1, <1>2, SizeNat
<1>4. \A t : t # s => Copies(c, t) = Copies(b, t)
  BY <1>1, <1>3
<1>5. DOMAIN b \ {s} = DOMAIN c \ {s}
  BY <1>1
<1>6. Size(c) - Copies(c, s) = Size(b) - Copies(b, s)
  BY <1>1, <1>2, <1>4, <1>5, SizesDiffer
<1>7. Copies(c, s) = Copies(b, s) - 1
  BY <1>1
<1> QED
  BY <1>2, <1>3, <1>6, <1>7 DEF c

-----------------------------------------------------------------------------
(* The invariant in parts; what it says of the samples follows from them.  *)

Outcome == [sent: Nat, recv: Nat, rtts: Nat]
Step    == {"none", "dial", "loop", "read", "drain", "count", "done"}

FlowTypes ==
    /\ pc \in [Socket -> Step] /\ seq \in [Socket -> Nat]
    /\ attempt \in [Socket -> 0 .. 2] /\ result \in [Socket -> Outcome]
    /\ misses \in [Socket -> Nat] /\ \A f \in Socket : own[f] \subseteq 1 .. seq[f]

NetworkTypes ==
    /\ \A f \in Socket : IsABag(flight[f])
    /\ sockErr \in [Socket -> BOOLEAN]
    /\ dups \in 0 .. MaxDups /\ faults \in 0 .. MaxFaults

PacerTypes ==
    /\ start \in Nat /\ now \in Nat /\ todo \in 0 .. MaxBurst
    /\ next \in 0 .. Flows - 1 /\ sent \in Nat

MainTypes ==
    /\ mode \in Modes
    /\ main \in {"spawn", "pace", "probe", "grace", "drain wait", "wait", "done", "fatal"}
    /\ recv \in Nat /\ closed \in BOOLEAN

Parts ==
    /\ FlowTypes /\ NetworkTypes /\ PacerTypes /\ MainTypes
    /\ Control /\ \A f \in Socket : result[f].rtts <= Cap
    /\ \A f \in Loops : LoopKnows(f)
    /\ PacerInTurn /\ PacerInTime /\ FloodCounted /\ ReportMade

LEMMA Sockets ==
    /\ Loops \subseteq Socket /\ Drains \subseteq Socket /\ Loops \cap Drains = {}
    /\ IsFiniteSet(Socket) /\ IsFiniteSet(Loops) /\ IsFiniteSet(Drains)
    /\ mode = "flood" => Loops = {Probe} /\ Drains = 0 .. Flows - 1
<1>1. Loops \subseteq Socket /\ Drains \subseteq Socket /\ Loops \cap Drains = {}
  BY DEF Loops, Drains, Socket, Probe
<1>2. IsFiniteSet(Socket)
  <2>1. Flows \in Int /\ 0 \in Int
    OBVIOUS
  <2> QED
    BY <2>1, FS_Interval DEF Socket
<1>3. mode = "flood" => Loops = {Probe} /\ Drains = 0 .. Flows - 1
  BY DEF Loops, Drains
<1> QED
  BY <1>1, <1>2, <1>3, PartFinite

LEMMA CapIs ==
    /\ Cap \in Nat
    /\ mode = "flood" => Cap <= MaxSamples
    /\ mode # "flood" => Cap <= 1 \/ Flows * Cap <= MaxSamples
<1>1. MaxSamples \div Flows \in Nat /\ Flows * (MaxSamples \div Flows) <= MaxSamples
  OBVIOUS
<1>2. CASE mode = "flood"
  BY <1>2 DEF Cap, PerFlowCap, Least
<1>3. CASE mode # "flood" /\ MaxSamples < Flows
  BY <1>3 DEF Cap, PerFlowCap, Least
<1>4. CASE mode # "flood" /\ ~(MaxSamples < Flows)
  <2>1. PICK q \in Nat : q = MaxSamples \div Flows /\ Flows * q <= MaxSamples
    BY <1>1
  <2>2. PICK c \in Nat : c = Cap /\ c <= q
    <3>1. PerFlowCap = q
      BY <2>1, <1>4 DEF PerFlowCap
    <3>2. Cap = Least(Estimate, q)
      BY <3>1 DEF Cap
    <3>3. Least(Estimate, q) \in Nat /\ Least(Estimate, q) <= q
      BY DEF Least
    <3> QED
      BY <3>2, <3>3
  <2>3. Flows * c <= Flows * q
    BY <2>2
  <2>4. Flows * c \in Nat /\ Flows * q \in Nat
    OBVIOUS
  <2> QED
    BY <2>1, <2>2, <2>3, <2>4, <1>4
<1> QED
  BY <1>2, <1>3, <1>4

LEMMA SamplesBounded ==
    ASSUME result \in [Socket -> Outcome], \A f \in Socket : result[f].rtts <= Cap
    PROVE  /\ Total("rtts") \in Nat
           /\ Total("rtts") <= MaxSamples \/ Total("rtts") <= Flows
           /\ mode = "flood" => Total("rtts") = result[Probe].rtts
<1> DEFINE rtts == [f \in Socket |-> result[f]["rtts"]]
           caps == [f \in Socket |-> Cap]
<1>1. Total("rtts") = SumFunctionOnSet(rtts, Loops)
  BY DEF Total
<1>2. /\ \A f \in Socket : rtts[f] \in Nat /\ rtts[f] <= Cap
      /\ Probe \in Socket /\ rtts[Probe] = result[Probe].rtts
  BY DEF Outcome, Socket, Probe
<1>3. \A f \in Socket : caps[f] = Cap
  OBVIOUS
<1> HIDE DEF rtts, caps
<1>4. Cap \in Nat
  BY CapIs
<1>5. \A f \in Loops : rtts[f] \in Nat /\ caps[f] \in Nat /\ rtts[f] <= caps[f]
  BY <1>2, <1>3, <1>4, Sockets
<1>6. SumFunctionOnSet(rtts, Loops) <= SumFunctionOnSet(caps, Loops)
  BY <1>5, Sockets, SumMonotone
<1>7. SumFunctionOnSet(rtts, Loops) \in Nat
  BY <1>5, Sockets, SumNat
<1>8. SumFunctionOnSet(caps, Loops) = Cardinality(Loops) * Cap
  BY <1>3, <1>4, Sockets, SumConstant
<1>9. CASE mode = "flood"
  <2>1. Loops = {Probe}
    BY <1>9, Sockets
  <2>2. SumFunctionOnSet(rtts, {Probe}) = rtts[Probe] + SumFunctionOnSet(rtts, {Probe} \ {Probe})
    BY <2>1, <1>5, Sockets, SumTake
  <2>3. {Probe} \ {Probe} = {}
    OBVIOUS
  <2>4. SumFunctionOnSet(rtts, Loops) = rtts[Probe]
    <3>1. SumFunctionOnSet(rtts, {}) = 0
      BY SumEmpty
    <3>2. rtts[Probe] \in Nat
      BY <1>2
    <3>3. SumFunctionOnSet(rtts, {Probe} \ {Probe}) = 0
      BY <2>3, <3>1
    <3>4. SumFunctionOnSet(rtts, {Probe}) = rtts[Probe]
      BY <2>2, <3>2, <3>3
    <3> QED
      BY <2>1, <3>4
  <2>5. rtts[Probe] <= MaxSamples
    BY <1>2, <1>4, <1>9, CapIs
  <2> QED
    BY <2>4, <2>5, <1>1, <1>2
<1>10. CASE mode # "flood"
  <2>1. Cardinality(Loops) <= Flows /\ Cardinality(Loops) \in Nat
    <3>1. CASE mode = "lockstep"
      <4>1. Flows - 1 \in Int /\ 0 \in Int
        OBVIOUS
      <4>2. Cardinality(0 .. Flows - 1) = Flows
        BY <4>1, FS_Interval
      <4> QED
        BY <3>1, <4>2 DEF Loops
    <3>2. CASE mode # "lockstep"
      <4>1. Cardinality({Probe}) = 1
        BY FS_Singleton
      <4> QED
        BY <3>2, <4>1 DEF Loops
    <3> QED
      BY <3>1, <3>2
  <2>2. PICK n \in Nat : n = Cardinality(Loops) /\ n <= Flows
    BY <2>1
  <2>3. PICK t \in Nat : t = Total("rtts") /\ t <= n * Cap
    BY <2>2, <1>1, <1>6, <1>7, <1>8
  <2>4. n * Cap <= Flows * Cap
    BY <2>2, <1>4
  <2>5. n * Cap \in Nat /\ Flows * Cap \in Nat
    BY <1>4
  <2>6. t <= Flows * Cap
    BY <2>3, <2>4, <2>5
  <2>7. CASE Cap <= 1
    <3>1. Flows * Cap <= Flows
      BY <2>7, <1>4
    <3> QED
      BY <3>1, <2>3, <2>5, <2>6, <1>10
  <2>8. CASE Flows * Cap <= MaxSamples
    BY <2>8, <2>3, <2>5, <2>6, <1>10
  <2> QED
    BY <2>7, <2>8, <1>10, CapIs
<1> QED
  BY <1>9, <1>10

LEMMA RankBounded ==
    ASSUME NEW n \in Nat, NEW p \in 0 .. 100
    PROVE  percentile(n, p) \in 0 .. n
<1>1. (p * n) \div 100 \in Nat
  <2>1. p * n \in Nat
    OBVIOUS
  <2> QED
    BY <2>1
<1>2. PICK q \in Nat : q = (p * n) \div 100
  BY <1>1
<1> QED
  BY <1>2 DEF percentile, Least

LEMMA RanksBounded ==
    ASSUME Parts
    PROVE  \A k \in 1 .. 3 : report.ranks[k] \in 0 .. Total("rtts")
<1>1. /\ Total("rtts") \in Nat
      /\ mode = "flood" => Total("rtts") = result[Probe].rtts
  BY SamplesBounded DEF Parts, FlowTypes
<1>2. ASSUME NEW k \in 1 .. 3, NEW s, NEW r, NEW l
      PROVE  Line(s, r, l, Total("rtts")).ranks[k] \in 0 .. Total("rtts")
  <2>1. <<50, 95, 99>>[k] \in 0 .. 100
    OBVIOUS
  <2>2. Line(s, r, l, Total("rtts")).ranks[k] = percentile(Total("rtts"), <<50, 95, 99>>[k])
    BY DEF Line
  <2> QED
    BY <2>1, <2>2, <1>1, RankBounded
<1>3. ASSUME NEW k \in 1 .. 3
      PROVE  NoReport.ranks[k] \in 0 .. Total("rtts")
  BY <1>1 DEF NoReport
<1>4. mode = "lockstep" \/ mode = "flood"
  BY DEF Parts, MainTypes
<1>5. CASE main # "done"
  BY <1>3, <1>5 DEF Parts, ReportMade
<1>6. CASE main = "done" /\ mode = "lockstep"
  BY <1>2, <1>6 DEF Parts, ReportMade
<1>7. CASE main = "done" /\ mode = "flood"
  BY <1>1, <1>2, <1>7 DEF Parts, ReportMade
<1> QED
  BY <1>4, <1>5, <1>6, <1>7

LEMMA PartsAreLInv == Parts <=> LInv
<1>1. ASSUME Parts
      PROVE  LInv
  <2>1. Total("rtts") <= MaxSamples \/ Total("rtts") <= Flows
    BY <1>1, SamplesBounded DEF Parts, FlowTypes
  <2>2. \A k \in 1 .. 3 : report.ranks[k] \in 0 .. Total("rtts")
    BY <1>1, RanksBounded
  <2>3. TypeOK
    BY <1>1, <2>1, <2>2
    DEF Parts, FlowTypes, NetworkTypes, PacerTypes, MainTypes, TypeOK, Outcome, Step
  <2> QED
    BY <1>1, <2>3 DEF Parts, LInv
<1>2. ASSUME LInv
      PROVE  Parts
  BY <1>2 DEF Parts, FlowTypes, NetworkTypes, PacerTypes, MainTypes, TypeOK, LInv, Outcome, Step
<1> QED
  BY <1>1, <1>2

-----------------------------------------------------------------------------
(* The lock-step loops                                                     *)

HIDE LoadGenAssumption

LEMMA ModeStays ==
    ASSUME mode' = mode
    PROVE  Loops' = Loops /\ Drains' = Drains /\ Cap' = Cap
BY DEF Loops, Drains, Cap, PerFlowCap, Least

LEMMA LoopNumbers ==
    ASSUME Parts, NEW f \in Loops
    PROVE  /\ f \in Socket /\ f \notin Drains
           /\ pc[f] \in Step /\ seq[f] \in Nat /\ attempt[f] \in 0 .. 2
           /\ result[f].sent \in Nat /\ result[f].recv \in Nat /\ result[f].rtts \in Nat
           /\ result[f].rtts <= Cap
           /\ misses[f] \in Nat /\ dups \in Nat /\ own[f] \subseteq 1 .. seq[f]
           /\ MaxSeq[f] \in Nat
           /\ IsABag(flight[f]) /\ IsFiniteSet(DOMAIN flight[f])
           /\ Size(flight[f]) \in Nat
           /\ \A s : Copies(flight[f], s) \in Nat
           /\ LoopKnows(f)
<1>1. f \in Socket /\ f \notin Drains
  BY Sockets
<1>2. LoopKnows(f) /\ FlowTypes /\ NetworkTypes
  BY DEF Parts
<1>3. /\ pc[f] \in Step /\ seq[f] \in Nat /\ attempt[f] \in 0 .. 2
      /\ misses[f] \in Nat /\ own[f] \subseteq 1 .. seq[f]
  BY <1>1, <1>2 DEF FlowTypes
<1>4. /\ result[f].sent \in Nat /\ result[f].recv \in Nat /\ result[f].rtts \in Nat
      /\ result[f].rtts <= Cap
  BY <1>1, <1>2 DEF Parts, FlowTypes, Outcome
<1>5. IsABag(flight[f]) /\ dups \in Nat
  BY <1>1, <1>2 DEF NetworkTypes
<1>6. IsFiniteSet(DOMAIN flight[f])
  <2>1. IsFiniteSet(1 .. seq[f])
    <3>1. seq[f] \in Int /\ 1 \in Int
      BY <1>3
    <3> QED
      BY <3>1, FS_Interval
  <2> QED
    BY <2>1, <1>2, PartFinite DEF LoopKnows
<1>7. Size(flight[f]) \in Nat /\ \A s : Copies(flight[f], s) \in Nat
  BY <1>5, <1>6, SizeNat
<1>8. MaxSeq[f] \in Nat
  BY <1>1, LoadGenAssumption DEF Socket
<1> QED
  BY <1>1, <1>2, <1>3, <1>4, <1>5, <1>6, <1>7, <1>8

(* What a loop knows is about its own socket, and a duplicate elsewhere    *)
(* does not hurt it.                                                       *)
LEMMA LoopApart ==
    ASSUME Parts, NEW f \in Loops,
           seq'[f] = seq[f], result'[f] = result[f], own'[f] = own[f],
           misses'[f] = misses[f], flight'[f] = flight[f], attempt'[f] = attempt[f],
           pc'[f] = "read" <=> pc[f] = "read", dups' \in Nat, dups' >= dups
    PROVE  LoopKnows(f)'
<1>1. GivenUp(f)' = GivenUp(f) /\ Waiting(f)' = Waiting(f)
  BY DEF GivenUp, Waiting
<1>2. Reads(f)' = Reads(f) /\ Stale(f)' = Stale(f)
  BY DEF Reads, Stale
<1>3. /\ GivenUp(f) \in Int /\ Waiting(f) \in Nat /\ Reads(f) \in Nat /\ Stale(f) \in Int
      /\ Size(flight[f]) \in Nat /\ misses[f] \in Nat /\ dups \in Nat
  <2>1. Waiting(f) \in Nat
    BY DEF Waiting
  <2>2. GivenUp(f) \in Int /\ misses[f] \in Nat /\ dups \in Nat
    BY <2>1, LoopNumbers DEF GivenUp
  <2>3. Reads(f) \in Nat
    BY LoopNumbers DEF Reads
  <2>4. Stale(f) \in Int /\ Size(flight[f]) \in Nat
    <3>1. Size(flight[f]) \in Nat /\ Copies(flight[f], seq[f]) \in Nat
      BY LoopNumbers
    <3> QED
      BY <3>1 DEF Stale
  <2> QED
    BY <2>1, <2>2, <2>3, <2>4
<1>4. LoopKnows(f)
  BY DEF Parts
<1>5. /\ pc'[f] = "read" => seq'[f] \in 1 .. MaxSeq[f] \ own'[f] /\ attempt'[f] < 2
      /\ DOMAIN flight'[f] \subseteq 1 .. seq'[f]
      /\ result'[f].recv <= Cardinality(own'[f])
      /\ result'[f].recv + Waiting(f)' <= result'[f].sent
      /\ result'[f].sent <= seq'[f] /\ seq'[f] <= MaxSeq[f]
  BY <1>1, <1>4 DEF LoopKnows
<1>6. GivenUp(f)' + Reads(f)' + Size(flight'[f]) <= misses'[f] + dups' + Waiting(f)'
  BY <1>1, <1>2, <1>3, <1>4 DEF LoopKnows
<1>7. pc'[f] = "read" => GivenUp(f)' + Reads(f)' + Stale(f)' <= misses'[f] + dups'
  BY <1>1, <1>2, <1>3, <1>4 DEF LoopKnows
<1> QED
  BY <1>5, <1>6, <1>7 DEF LoopKnows

(* A step of loop f changes nothing but its own entries.                   *)
LEMMA LoopMoves ==
    ASSUME Parts, NEW f \in Loops,
           main \notin {"done", "fatal"}, pc[f] \in {"dial", "loop", "read"},
           UNCHANGED <<mode, main, pacer, recv, closed, report, dups, faults>>,
           NEW p \in {"loop", "read", "done"}, pc' = [pc EXCEPT ![f] = p],
           NEW n \in Nat, seq' = [seq EXCEPT ![f] = n], seq[f] <= n,
           NEW a \in 0 .. 2, attempt' = [attempt EXCEPT ![f] = a],
           NEW r \in Outcome, result' = [result EXCEPT ![f] = r], r.rtts <= Cap,
           NEW m \in Nat, misses' = [misses EXCEPT ![f] = m],
           DOMAIN own' = Socket, own'[f] \subseteq 1 .. n,
           DOMAIN flight' = Socket, IsABag(flight'[f]),
           \A g \in Socket \ {f} : own'[g] = own[g] /\ flight'[g] = flight[g],
           sockErr' \in [Socket -> BOOLEAN],
           LoopKnows(f)'
    PROVE  Parts'
<1>1. f \in Socket /\ f \notin Drains
  BY Sockets
<1>2. Loops' = Loops /\ Drains' = Drains /\ Cap' = Cap
  BY ModeStays
<1>3. Control /\ FlowTypes /\ NetworkTypes /\ PacerTypes /\ MainTypes
  BY DEF Parts
<1>4. FlowTypes'
  <2>1. pc' \in [Socket -> Step] /\ attempt' \in [Socket -> 0 .. 2]
    BY <1>3 DEF FlowTypes, Step
  <2>2. seq' \in [Socket -> Nat] /\ misses' \in [Socket -> Nat]
    BY <1>3 DEF FlowTypes
  <2>3. result' \in [Socket -> Outcome]
    BY <1>3 DEF FlowTypes
  <2>4. \A g \in Socket : own'[g] \subseteq 1 .. seq'[g]
    BY <1>3, <1>1 DEF FlowTypes, Control
  <2> QED
    BY <2>1, <2>2, <2>3, <2>4 DEF FlowTypes
<1>5. NetworkTypes'
  BY <1>3 DEF NetworkTypes, Control
<1>6. PacerTypes' /\ MainTypes'
  BY <1>3 DEF PacerTypes, MainTypes, pacer
<1>7. Control'
  <2>1. main # "spawn"
    BY <1>1, <1>3 DEF Control
  <2>2. pc' \in [Socket -> Step] /\ Loops \subseteq Socket /\ Drains \subseteq Socket
    BY <1>4, Sockets DEF FlowTypes
  <2>3. /\ \A g \in Loops : pc'[g] \in {"none", "dial", "loop", "read", "done"}
        /\ \A g \in Drains : pc'[g] \in {"none", "drain", "count", "done"}
    BY <2>2, <1>1, <1>3 DEF Control, FlowTypes
  <2>4. DOMAIN flight' = Socket /\ DOMAIN own' = Socket
    BY <1>3 DEF Control
  <2> QED
    BY <2>1, <2>3, <2>4, <1>2, <1>3 DEF Control, pacer
<1>8. (\A g \in Socket : result[g].rtts <= Cap)'
  BY <1>2, <1>3 DEF Parts, FlowTypes
<1>9. (\A g \in Loops : LoopKnows(g))'
  <2> SUFFICES ASSUME NEW g \in Loops, g # f
               PROVE  LoopKnows(g)'
    BY <1>2
  <2>1. g \in Socket
    BY Sockets
  <2>2. /\ seq'[g] = seq[g] /\ result'[g] = result[g] /\ own'[g] = own[g]
        /\ misses'[g] = misses[g] /\ flight'[g] = flight[g] /\ attempt'[g] = attempt[g]
        /\ pc'[g] = pc[g]
    BY <2>1, <1>3 DEF FlowTypes, Control
  <2>3. dups' \in Nat /\ dups' >= dups
    BY <1>3 DEF NetworkTypes
  <2> QED
    BY <2>2, <2>3, LoopApart
<1>10. \A g \in Drains : seq'[g] = seq[g] /\ pc'[g] = pc[g] /\ flight'[g] = flight[g]
  BY <1>1, <1>3, Sockets DEF FlowTypes, Control
<1>11. PacerInTurn'
  BY <1>2, <1>10 DEF Parts, PacerInTurn, pacer
<1>12. PacerInTime'
  BY DEF Parts, PacerInTime, Due, pacer
<1>13. FloodCounted'
  <2>1. FloodCounted
    BY DEF Parts
  <2>2. \A g \in Drains : OnTheWay'[g] = OnTheWay[g] /\ Counting'[g] = Counting[g]
    BY <1>10, Sockets DEF OnTheWay, Counting
  <2>3. SumFunctionOnSet(OnTheWay', Drains) = SumFunctionOnSet(OnTheWay, Drains)
    <3>1. PICK u, v : u = OnTheWay /\ v = OnTheWay'
      OBVIOUS
    <3> QED
      BY <3>1, <2>2, Sockets, SumSame
  <2>4. SumFunctionOnSet(Counting', Drains) = SumFunctionOnSet(Counting, Drains)
    <3>1. PICK u, v : u = Counting /\ v = Counting'
      OBVIOUS
    <3> QED
      BY <3>1, <2>2, Sockets, SumSame
  <2>5. \A g \in Drains' : DOMAIN flight'[g] \subseteq {Flood}
    BY <2>1, <1>2, <1>10 DEF FloodCounted
  <2>6. Counted' = Counted
    BY <2>3, <2>4, <1>2 DEF Counted
  <2> QED
    BY <2>1, <2>5, <2>6 DEF FloodCounted, pacer
<1>14. ReportMade'
  BY DEF Parts, ReportMade
<1> QED
  BY <1>4, <1>5, <1>6, <1>7, <1>8, <1>9, <1>11, <1>12, <1>13, <1>14 DEF Parts

LEMMA DialOrEndKeeps ==
    ASSUME Parts, NEW f \in Socket, Dial(f) \/ LoopEnds(f)
    PROVE  Parts'
<1>1. f \in Loops /\ pc[f] \in {"dial", "loop"} /\ main \notin {"done", "fatal"}
  BY DEF Dial, LoopEnds, At
<1>2. PICK p \in {"loop", "done"} :
         /\ UNCHANGED <<mode, main, pacer, recv, closed, report, dups, faults>>
         /\ UNCHANGED <<seq, attempt, result, misses, own, flight, sockErr>>
         /\ pc' = [pc EXCEPT ![f] = p]
  BY DEF Dial, LoopEnds, At, Goto, history, network
<1>3. FlowTypes /\ NetworkTypes /\ Control /\ result[f].rtts <= Cap
  BY DEF Parts
<1>4. /\ seq' = [seq EXCEPT ![f] = seq[f]] /\ attempt' = [attempt EXCEPT ![f] = attempt[f]]
      /\ result' = [result EXCEPT ![f] = result[f]]
      /\ misses' = [misses EXCEPT ![f] = misses[f]]
  BY <1>2, <1>3 DEF FlowTypes
<1>5. /\ seq[f] \in Nat /\ seq[f] <= seq[f] /\ attempt[f] \in 0 .. 2 /\ misses[f] \in Nat
      /\ result[f] \in Outcome
  BY <1>3 DEF FlowTypes
<1>6. LoopKnows(f)'
  <2>1. pc'[f] # "read" /\ pc[f] # "read"
    BY <1>1, <1>2, <1>3 DEF FlowTypes
  <2>2. dups' \in Nat /\ dups' >= dups
    BY <1>2, <1>3 DEF NetworkTypes
  <2> QED
    BY <2>1, <2>2, <1>1, <1>2, LoopApart
<1>7. /\ DOMAIN own' = Socket /\ own'[f] \subseteq 1 .. seq[f]
      /\ DOMAIN flight' = Socket /\ IsABag(flight'[f]) /\ sockErr' \in [Socket -> BOOLEAN]
      /\ \A g \in Socket \ {f} : own'[g] = own[g] /\ flight'[g] = flight[g]
  BY <1>2, <1>3 DEF FlowTypes, NetworkTypes, Control
<1> QED
  BY <1>1, <1>2, <1>3, <1>4, <1>5, <1>6, <1>7, LoopMoves

(* A send: the packet is the only one of its number.                       *)
LEMMA SendKeeps ==
    ASSUME Parts, NEW f \in Socket, Send(f)
    PROVE  Parts'
<1>1. f \in Loops /\ pc[f] = "loop" /\ main \notin {"done", "fatal"} /\ seq[f] < MaxSeq[f]
  BY DEF Send, At
<1>2. /\ UNCHANGED <<mode, main, pacer, recv, closed, report, dups, faults, misses, own>>
      /\ seq' = [seq EXCEPT ![f] = @ + 1] /\ sockErr' = [sockErr EXCEPT ![f] = FALSE]
  BY DEF Send, At, Write, history
<1>3. FlowTypes /\ NetworkTypes /\ Control /\ LoopKnows(f)
  BY <1>1 DEF Parts
<1>4. /\ seq[f] \in Nat /\ MaxSeq[f] \in Nat /\ attempt[f] \in 0 .. 2 /\ misses[f] \in Nat
      /\ dups \in Nat /\ own[f] \subseteq 1 .. seq[f] /\ result[f].rtts <= Cap
      /\ result[f].sent \in Nat /\ result[f].recv \in Nat
  BY <1>1, LoopNumbers
<1>5. IsABag(flight[f]) /\ IsFiniteSet(DOMAIN flight[f]) /\ Size(flight[f]) \in Nat
  BY <1>1, LoopNumbers
<1>6. misses' = [misses EXCEPT ![f] = misses[f]] /\ misses'[f] = misses[f]
  BY <1>2, <1>3 DEF FlowTypes
<1>7. seq' = [seq EXCEPT ![f] = seq[f] + 1] /\ seq'[f] = seq[f] + 1
  BY <1>2, <1>3 DEF FlowTypes
<1>8. DOMAIN own' = Socket /\ own'[f] = own[f] /\ \A g \in Socket \ {f} : own'[g] = own[g]
  BY <1>2, <1>3 DEF Control
<1>9. own[f] \subseteq 1 .. seq[f] + 1 /\ seq[f] + 1 \notin own[f]
  BY <1>4
<1>10. sockErr' \in [Socket -> BOOLEAN]
  BY <1>2, <1>3 DEF NetworkTypes
<1>11. seq[f] + 1 \in Nat /\ seq[f] <= seq[f] + 1 /\ 0 \in 0 .. 2
  BY <1>4
<1>12. CASE ~WriteOK(f)
  <2>1. UNCHANGED <<pc, attempt, result, flight>>
    BY <1>12 DEF Send, Write
  <2>2. /\ pc' = [pc EXCEPT ![f] = "loop"] /\ attempt' = [attempt EXCEPT ![f] = attempt[f]]
        /\ result' = [result EXCEPT ![f] = result[f]] /\ result[f] \in Outcome
    BY <2>1, <1>1, <1>3 DEF FlowTypes
  <2>3. LoopKnows(f)'
    <3>1. GivenUp(f)' = GivenUp(f) /\ Waiting(f)' = Waiting(f) /\ Reads(f)' = Reads(f)
      BY <2>1, <1>6 DEF GivenUp, Waiting, Reads
    <3>2. pc'[f] # "read"
      BY <2>1, <1>1
    <3>3. DOMAIN flight'[f] \subseteq 1 .. seq'[f]
      BY <2>1, <1>3, <1>4, <1>7 DEF LoopKnows
    <3>4. /\ result'[f].recv <= Cardinality(own'[f])
          /\ result'[f].recv + Waiting(f)' <= result'[f].sent
      BY <2>1, <3>1, <1>2, <1>3 DEF LoopKnows
    <3>5. result'[f].sent <= seq'[f] /\ seq'[f] <= MaxSeq[f]
      BY <2>1, <1>1, <1>3, <1>4, <1>7 DEF LoopKnows
    <3>6. GivenUp(f)' + Reads(f)' + Size(flight'[f]) <= misses'[f] + dups' + Waiting(f)'
      BY <2>1, <3>1, <1>2, <1>3 DEF LoopKnows
    <3> QED
      BY <3>2, <3>3, <3>4, <3>5, <3>6 DEF LoopKnows
  <2>4. /\ DOMAIN flight' = Socket /\ IsABag(flight'[f])
        /\ \A g \in Socket \ {f} : flight'[g] = flight[g]
    BY <2>1, <1>3, <1>5 DEF Control
  <2> QED
    BY <2>2, <2>3, <2>4, <1>1, <1>2, <1>4, <1>6, <1>7, <1>8, <1>9, <1>10, <1>11, LoopMoves
<1>13. CASE WriteOK(f)
  <2>1. /\ result' = [result EXCEPT ![f].sent = @ + 1]
        /\ attempt' = [attempt EXCEPT ![f] = 0] /\ pc' = [pc EXCEPT ![f] = "read"]
        /\ flight' = [flight EXCEPT ![f] = @ (+) SetToBag({seq'[f]})]
    BY <1>13 DEF Send, Write, Goto
  <2>2. PICK b : b = flight[f] (+) SetToBag({seq[f] + 1})
    OBVIOUS
  <2>3. flight'[f] = b /\ DOMAIN flight' = Socket /\ \A g \in Socket \ {f} : flight'[g] = flight[g]
    BY <2>1, <2>2, <1>3, <1>7 DEF Control
  <2>4. IsABag(b) /\ Size(b) = Size(flight[f]) + 1 /\ DOMAIN b = DOMAIN flight[f] \cup {seq[f] + 1}
    BY <2>2, <1>5, AddIs, AddCounts
  <2>5. Copies(b, seq[f] + 1) = 1
    <3>1. seq[f] + 1 \notin DOMAIN flight[f]
      BY <1>3, <1>4 DEF LoopKnows
    <3>2. Copies(flight[f], seq[f] + 1) = 0
      BY <3>1 DEF Copies
    <3>3. Copies(b, seq[f] + 1) = Copies(flight[f], seq[f] + 1) + (IF seq[f] + 1 = seq[f] + 1 THEN 1 ELSE 0)
      BY <2>2, <1>5, AddIs
    <3> QED
      BY <3>2, <3>3
  <2>6. PICK r \in Outcome :
           /\ result' = [result EXCEPT ![f] = r]
           /\ r.sent = result[f].sent + 1 /\ r.recv = result[f].recv /\ r.rtts = result[f].rtts
    <3> DEFINE r == [result[f] EXCEPT !.sent = @ + 1]
    <3>1. result \in [Socket -> Outcome] /\ result[f] \in Outcome
      BY <1>3 DEF FlowTypes
    <3>2. /\ r \in Outcome
          /\ r.sent = result[f].sent + 1 /\ r.recv = result[f].recv /\ r.rtts = result[f].rtts
      BY <3>1 DEF Outcome
    <3>3. result' = [result EXCEPT ![f] = r]
      BY <2>1, <3>1
    <3> HIDE DEF r
    <3> QED
      BY <3>2, <3>3
  <2>7. pc'[f] = "read" /\ attempt'[f] = 0 /\ result'[f] = r
    BY <2>1, <2>6, <1>3 DEF FlowTypes
  <2>8. LoopKnows(f)'
    <3>1. Waiting(f)' = 1 /\ Reads(f)' = 0 /\ Waiting(f) = 0 /\ Reads(f) = 0
      BY <2>7, <1>1 DEF Waiting, Reads
    <3>2. GivenUp(f)' = GivenUp(f) /\ GivenUp(f) \in Int
      BY <3>1, <2>6, <2>7, <1>4, <1>6 DEF GivenUp
    <3>3. Stale(f)' = Size(flight[f])
      BY <2>3, <2>4, <2>5, <1>5, <1>7 DEF Stale
    <3>4. GivenUp(f) + Size(flight[f]) <= misses[f] + dups
      BY <3>1, <3>2, <1>3, <1>4, <1>5 DEF LoopKnows
    <3>5. seq'[f] \in 1 .. MaxSeq[f] \ own'[f] /\ attempt'[f] < 2
      BY <2>7, <1>1, <1>4, <1>7, <1>8, <1>9
    <3>6. DOMAIN flight'[f] \subseteq 1 .. seq'[f]
      BY <2>3, <2>4, <1>3, <1>4, <1>7 DEF LoopKnows
    <3>7. /\ result'[f].recv <= Cardinality(own'[f])
          /\ result'[f].recv + Waiting(f)' <= result'[f].sent
      BY <3>1, <2>6, <2>7, <1>3, <1>4, <1>8 DEF LoopKnows
    <3>8. result'[f].sent <= seq'[f] /\ seq'[f] <= MaxSeq[f]
      BY <2>6, <2>7, <1>1, <1>3, <1>4, <1>7 DEF LoopKnows
    <3>9. GivenUp(f)' + Reads(f)' + Size(flight'[f]) <= misses'[f] + dups' + Waiting(f)'
      BY <3>1, <3>2, <3>4, <2>3, <2>4, <1>2, <1>4, <1>5, <1>6
    <3>10. GivenUp(f)' + Reads(f)' + Stale(f)' <= misses'[f] + dups'
      BY <3>1, <3>2, <3>3, <3>4, <1>2, <1>4, <1>5, <1>6
    <3> QED
      BY <3>5, <3>6, <3>7, <3>8, <3>9, <3>10 DEF LoopKnows
  <2>9. r.rtts <= Cap
    BY <2>6, <1>4
  <2> QED
    BY <2>1, <2>3, <2>4, <2>6, <2>8, <2>9, <1>1, <1>2, <1>4, <1>6, <1>7, <1>8, <1>9, <1>10,
       <1>11, LoopMoves
<1> QED
  BY <1>12, <1>13

(* What a read leaves in the buffer.                                       *)
LEMMA ReceiveLeaves ==
    ASSUME Parts, NEW f \in Loops, NEW s, Receive(f, s)
    PROVE  /\ IsABag(flight'[f]) /\ DOMAIN flight' = Socket
           /\ DOMAIN flight'[f] \subseteq DOMAIN flight[f] /\ s \in DOMAIN flight[f]
           /\ Size(flight'[f]) = Size(flight[f]) - 1
           /\ \A t : Copies(flight'[f], t) = Copies(flight[f], t) - (IF t = s THEN 1 ELSE 0)
           /\ \A g \in Socket \ {f} : flight'[g] = flight[g]
           /\ sockErr' = sockErr /\ dups' = dups /\ faults' = faults
<1>1. f \in Socket /\ DOMAIN flight = Socket
  BY Sockets DEF Parts, Control
<1>2. /\ s \in DOMAIN flight[f] /\ flight' = [flight EXCEPT ![f] = @ (-) SetToBag({s})]
      /\ sockErr' = sockErr /\ dups' = dups /\ faults' = faults
  BY DEF Receive, BagToSet
<1>3. PICK b : b = flight[f] (-) SetToBag({s})
  OBVIOUS
<1>4. flight'[f] = b /\ DOMAIN flight' = Socket /\ \A g \in Socket \ {f} : flight'[g] = flight[g]
  BY <1>1, <1>2, <1>3
<1>5. IsABag(flight[f]) /\ IsFiniteSet(DOMAIN flight[f])
  BY LoopNumbers
<1>6. /\ IsABag(b) /\ DOMAIN b \subseteq DOMAIN flight[f]
      /\ \A t : Copies(b, t) = Copies(flight[f], t) - (IF t = s THEN 1 ELSE 0)
  BY <1>2, <1>3, <1>5, RemoveIs
<1>7. Size(b) = Size(flight[f]) - 1
  BY <1>2, <1>3, <1>5, RemoveCounts
<1> QED
  BY <1>2, <1>4, <1>6, <1>7

(* The echo: one packet less is waited for, and it was not counted before. *)
LEMMA ReadEchoKeeps ==
    ASSUME Parts, NEW f \in Socket, NEW s, ReadEcho(f, s)
    PROVE  Parts'
<1>1. f \in Loops /\ pc[f] = "read" /\ main \notin {"done", "fatal"} /\ s = seq[f]
  BY DEF ReadEcho, At, Matches
<1>2. /\ UNCHANGED <<mode, main, pacer, recv, closed, report, seq, attempt, misses>>
      /\ pc' = [pc EXCEPT ![f] = "loop"] /\ own' = [own EXCEPT ![f] = @ \cup {s}]
  BY DEF ReadEcho, At, Goto
<1>3. FlowTypes /\ NetworkTypes /\ Control /\ LoopKnows(f)
  BY <1>1 DEF Parts
<1>4. /\ seq[f] \in Nat /\ attempt[f] \in 0 .. 2 /\ misses[f] \in Nat
      /\ dups \in Nat /\ own[f] \subseteq 1 .. seq[f] /\ result[f].rtts <= Cap
      /\ result[f].sent \in Nat /\ result[f].recv \in Nat /\ Size(flight[f]) \in Nat
  BY <1>1, LoopNumbers
<1>5. /\ IsABag(flight'[f]) /\ DOMAIN flight' = Socket
      /\ DOMAIN flight'[f] \subseteq DOMAIN flight[f]
      /\ Size(flight'[f]) = Size(flight[f]) - 1
      /\ \A g \in Socket \ {f} : flight'[g] = flight[g]
      /\ sockErr' = sockErr /\ dups' = dups /\ faults' = faults
  BY <1>1, ReceiveLeaves DEF ReadEcho
<1>6. /\ seq' = [seq EXCEPT ![f] = seq[f]] /\ attempt' = [attempt EXCEPT ![f] = attempt[f]]
      /\ misses' = [misses EXCEPT ![f] = misses[f]] /\ sockErr' \in [Socket -> BOOLEAN]
      /\ seq[f] <= seq[f] /\ UNCHANGED <<dups, faults>>
  BY <1>2, <1>3, <1>4, <1>5 DEF FlowTypes, NetworkTypes
<1>7. /\ DOMAIN own' = Socket /\ own'[f] = own[f] \cup {seq[f]}
      /\ \A g \in Socket \ {f} : own'[g] = own[g]
  BY <1>1, <1>2, <1>3 DEF Control
<1>8. seq[f] \in 1 .. MaxSeq[f] \ own[f] /\ attempt[f] < 2
  BY <1>1, <1>3 DEF LoopKnows
<1>9. own'[f] \subseteq 1 .. seq[f]
  BY <1>4, <1>7, <1>8
<1>10. Cardinality(own'[f]) = Cardinality(own[f]) + 1 /\ Cardinality(own[f]) \in Nat
  <2>1. IsFiniteSet(1 .. seq[f])
    <3>1. 1 \in Int /\ seq[f] \in Int
      BY <1>4
    <3> QED
      BY <3>1, FS_Interval
  <2>2. IsFiniteSet(own[f])
    BY <2>1, <1>4, PartFinite
  <2> QED
    BY <2>2, <1>7, <1>8, FS_AddElement, FS_CardinalityType
<1>11. PICK r \in Outcome :
          /\ result' = [result EXCEPT ![f] = r]
          /\ r.sent = result[f].sent /\ r.recv = result[f].recv + 1 /\ r.rtts <= Cap
  <2> DEFINE q == [result[f] EXCEPT !.recv = @ + 1]
             g == [result EXCEPT ![f].recv = @ + 1]
             r == [q EXCEPT !.rtts = IF @ < Cap THEN @ + 1 ELSE @]
  <2>1. result \in [Socket -> Outcome] /\ result[f] \in Outcome
    BY <1>3 DEF FlowTypes
  <2>2. /\ q \in Outcome /\ q.sent = result[f].sent /\ q.recv = result[f].recv + 1
        /\ q.rtts = result[f].rtts
    BY <2>1 DEF Outcome
  <2>3. g = [result EXCEPT ![f] = q]
    BY <2>1
  <2>4. result' = [g EXCEPT ![f].rtts = IF @ < Cap THEN @ + 1 ELSE @]
    BY DEF ReadEcho
  <2> HIDE DEF q, g
  <2>5. g \in [Socket -> Outcome] /\ g[f] = q
    BY <2>1, <2>2, <2>3
  <2>6. result' = [g EXCEPT ![f] = r]
    BY <2>4, <2>5
  <2>7. r \in Outcome /\ r.sent = q.sent /\ r.recv = q.recv /\ r.rtts <= Cap
    <3>1. Cap \in Nat
      BY CapIs
    <3> QED
      BY <3>1, <2>2, <1>4 DEF Outcome
  <2> HIDE DEF r
  <2>8. result' = [result EXCEPT ![f] = r]
    BY <2>1, <2>3, <2>6
  <2> QED
    BY <2>2, <2>7, <2>8
<1>12. pc'[f] = "loop" /\ result'[f] = r
  BY <1>2, <1>3, <1>11 DEF FlowTypes
<1>13. LoopKnows(f)'
  <2>1. Waiting(f)' = 0 /\ Reads(f)' = 0 /\ Waiting(f) = 1 /\ Reads(f) \in Nat
    BY <1>1, <1>4, <1>12 DEF Waiting, Reads
  <2>2. GivenUp(f)' = GivenUp(f) /\ GivenUp(f) \in Int
    BY <2>1, <1>2, <1>4, <1>11, <1>12 DEF GivenUp
  <2>3. GivenUp(f) + Reads(f) + Size(flight[f]) <= misses[f] + dups + Waiting(f)
    BY <1>3 DEF LoopKnows
  <2>4. DOMAIN flight'[f] \subseteq 1 .. seq'[f]
    BY <1>2, <1>3, <1>5 DEF LoopKnows
  <2>5. /\ result'[f].recv <= Cardinality(own'[f])
        /\ result'[f].recv + Waiting(f)' <= result'[f].sent
    BY <2>1, <1>3, <1>4, <1>10, <1>11, <1>12 DEF LoopKnows
  <2>6. result'[f].sent <= seq'[f] /\ seq'[f] <= MaxSeq[f]
    BY <1>2, <1>3, <1>11, <1>12 DEF LoopKnows
  <2>7. GivenUp(f)' + Reads(f)' + Size(flight'[f]) <= misses'[f] + dups' + Waiting(f)'
    BY <2>1, <2>2, <2>3, <1>2, <1>4, <1>5
  <2> QED
    BY <2>4, <2>5, <2>6, <2>7, <1>12 DEF LoopKnows
<1> QED
  BY <1>1, <1>2, <1>4, <1>5, <1>6, <1>7, <1>9, <1>11, <1>13, LoopMoves

(* A stale packet: the loop reads on, or gives its own packet up for two.  *)
LEMMA ReadStaleKeeps ==
    ASSUME Parts, NEW f \in Socket, NEW s, ReadStale(f, s)
    PROVE  Parts'
<1>1. f \in Loops /\ pc[f] = "read" /\ main \notin {"done", "fatal"} /\ s # seq[f]
  BY DEF ReadStale, At, Matches
<1>2. /\ UNCHANGED <<mode, main, pacer, recv, closed, report, seq, result, misses, own>>
      /\ attempt' = [attempt EXCEPT ![f] = @ + 1]
      /\ pc' = [pc EXCEPT ![f] = IF attempt'[f] < 2 THEN "read" ELSE "loop"]
  BY DEF ReadStale, At, Goto, history, MaxReads
<1>3. FlowTypes /\ NetworkTypes /\ Control /\ LoopKnows(f)
  BY <1>1 DEF Parts
<1>4. /\ seq[f] \in Nat /\ attempt[f] \in 0 .. 2 /\ misses[f] \in Nat
      /\ dups \in Nat /\ own[f] \subseteq 1 .. seq[f] /\ result[f].rtts <= Cap
      /\ result[f].sent \in Nat /\ result[f].recv \in Nat /\ Size(flight[f]) \in Nat
  BY <1>1, LoopNumbers
<1>5. Copies(flight[f], seq[f]) \in Nat
  BY <1>1, LoopNumbers
<1>6. /\ IsABag(flight'[f]) /\ DOMAIN flight' = Socket
      /\ DOMAIN flight'[f] \subseteq DOMAIN flight[f]
      /\ Size(flight'[f]) = Size(flight[f]) - 1
      /\ \A g \in Socket \ {f} : flight'[g] = flight[g]
      /\ sockErr' = sockErr /\ dups' = dups /\ faults' = faults
  BY <1>1, ReceiveLeaves DEF ReadStale
<1>7. Copies(flight'[f], seq[f]) = Copies(flight[f], seq[f])
  <2>1. \A t : Copies(flight'[f], t) = Copies(flight[f], t) - (IF t = s THEN 1 ELSE 0)
    BY <1>1, ReceiveLeaves DEF ReadStale
  <2> QED
    BY <2>1, <1>1, <1>5
<1>8. /\ seq' = [seq EXCEPT ![f] = seq[f]] /\ result' = [result EXCEPT ![f] = result[f]]
      /\ misses' = [misses EXCEPT ![f] = misses[f]] /\ result[f] \in Outcome
      /\ sockErr' \in [Socket -> BOOLEAN] /\ UNCHANGED <<dups, faults>> /\ seq[f] <= seq[f]
  BY <1>2, <1>3, <1>4, <1>6 DEF FlowTypes, NetworkTypes
<1>9. /\ DOMAIN own' = Socket /\ own'[f] \subseteq 1 .. seq[f]
      /\ \A g \in Socket \ {f} : own'[g] = own[g]
  BY <1>2, <1>3, <1>4 DEF Control
<1>10. seq[f] \in 1 .. MaxSeq[f] \ own[f] /\ attempt[f] \in 0 .. 1
  BY <1>1, <1>3, <1>4 DEF LoopKnows
<1>11. attempt'[f] = attempt[f] + 1 /\ attempt[f] + 1 \in 0 .. 2
  BY <1>2, <1>3, <1>10 DEF FlowTypes
<1>12. PICK p \in {"loop", "read"} :
          /\ pc' = [pc EXCEPT ![f] = p]
          /\ p = "read" <=> attempt[f] = 0
  <2>1. attempt'[f] < 2 <=> attempt[f] = 0
    BY <1>10, <1>11
  <2> QED
    BY <2>1, <1>2
<1>13. pc'[f] = p
  BY <1>12, <1>3 DEF FlowTypes
<1>14. LoopKnows(f)'
  <2>1. DOMAIN flight'[f] \subseteq 1 .. seq'[f]
    BY <1>2, <1>3, <1>6 DEF LoopKnows
  <2>2. result'[f].recv <= Cardinality(own'[f])
    BY <1>2, <1>3 DEF LoopKnows
  <2>3. result'[f].sent <= seq'[f] /\ seq'[f] <= MaxSeq[f]
    BY <1>2, <1>3 DEF LoopKnows
  <2>4. result[f].recv + 1 <= result[f].sent
    BY <1>1, <1>3 DEF LoopKnows, Waiting
  <2>5. /\ Waiting(f) = 1 /\ Reads(f) = attempt[f] /\ Stale(f)' = Stale(f) - 1
        /\ Stale(f) \in Int /\ GivenUp(f) \in Int
    <3>1. Waiting(f) = 1 /\ Reads(f) = attempt[f]
      BY <1>1 DEF Waiting, Reads
    <3>2. GivenUp(f) \in Int
      BY <3>1, <1>4 DEF GivenUp
    <3>3. Stale(f)' = Stale(f) - 1 /\ Stale(f) \in Int
      BY <1>2, <1>4, <1>5, <1>6, <1>7 DEF Stale
    <3> QED
      BY <3>1, <3>2, <3>3
  <2>6. /\ GivenUp(f) + Reads(f) + Size(flight[f]) <= misses[f] + dups + Waiting(f)
        /\ GivenUp(f) + Reads(f) + Stale(f) <= misses[f] + dups
    BY <1>1, <1>3 DEF LoopKnows
  <2>7. CASE p = "read"
    <3>1. attempt[f] = 0 /\ attempt'[f] < 2
      BY <2>7, <1>11, <1>12
    <3>2. Waiting(f)' = 1 /\ Reads(f)' = Reads(f) + 1
      BY <2>5, <2>7, <1>11, <1>13 DEF Waiting, Reads
    <3>3. GivenUp(f)' = GivenUp(f)
      BY <2>5, <3>2, <1>2 DEF GivenUp
    <3>4. seq'[f] \in 1 .. MaxSeq[f] \ own'[f]
      BY <1>2, <1>10
    <3>5. result'[f].recv + Waiting(f)' <= result'[f].sent
      BY <3>2, <2>4, <1>2
    <3>6. GivenUp(f)' + Reads(f)' + Size(flight'[f]) <= misses'[f] + dups' + Waiting(f)'
      BY <3>1, <3>2, <3>3, <2>5, <2>6, <1>2, <1>4, <1>6
    <3>7. GivenUp(f)' + Reads(f)' + Stale(f)' <= misses'[f] + dups'
      BY <3>1, <3>2, <3>3, <2>5, <2>6, <1>2, <1>4, <1>6
    <3> QED
      BY <3>1, <3>4, <3>5, <3>6, <3>7, <2>1, <2>2, <2>3 DEF LoopKnows
  <2>8. CASE p = "loop"
    <3>1. attempt[f] = 1
      BY <2>8, <1>10, <1>12
    <3>2. Waiting(f)' = 0 /\ Reads(f)' = 0
      BY <2>8, <1>13 DEF Waiting, Reads
    <3>3. GivenUp(f)' = GivenUp(f) + 1
      BY <2>5, <3>2, <1>2, <1>4 DEF GivenUp
    <3>4. result'[f].recv + Waiting(f)' <= result'[f].sent
      BY <3>2, <2>4, <1>2, <1>4
    <3>5. GivenUp(f)' + Reads(f)' + Size(flight'[f]) <= misses'[f] + dups' + Waiting(f)'
      BY <3>1, <3>2, <3>3, <2>5, <2>6, <1>2, <1>4, <1>6
    <3>6. pc'[f] # "read"
      BY <2>8, <1>13
    <3> QED
      BY <3>4, <3>5, <3>6, <2>1, <2>2, <2>3 DEF LoopKnows
  <2> QED
    BY <2>7, <2>8
<1> QED
  BY <1>1, <1>2, <1>4, <1>6, <1>8, <1>9, <1>11, <1>12, <1>14, LoopMoves

(* A failed read is on the loop's account.                                 *)
LEMMA ReadFailsKeeps ==
    ASSUME Parts, NEW f \in Socket, ReadFails(f)
    PROVE  Parts'
<1>1. f \in Loops /\ pc[f] = "read" /\ main \notin {"done", "fatal"}
  BY DEF ReadFails, At
<1>2. /\ UNCHANGED <<mode, main, pacer, recv, closed, report, seq, attempt, result, own>>
      /\ UNCHANGED <<flight, dups, faults>> /\ sockErr' = [sockErr EXCEPT ![f] = FALSE]
      /\ pc' = [pc EXCEPT ![f] = "loop"] /\ misses' = [misses EXCEPT ![f] = @ + 1]
  BY DEF ReadFails, At, Goto, ReadError
<1>3. FlowTypes /\ NetworkTypes /\ Control /\ LoopKnows(f)
  BY <1>1 DEF Parts
<1>4. /\ seq[f] \in Nat /\ attempt[f] \in 0 .. 2 /\ misses[f] \in Nat
      /\ dups \in Nat /\ own[f] \subseteq 1 .. seq[f] /\ result[f].rtts <= Cap
      /\ result[f].sent \in Nat /\ result[f].recv \in Nat /\ Size(flight[f]) \in Nat
  BY <1>1, LoopNumbers
<1>5. /\ seq' = [seq EXCEPT ![f] = seq[f]] /\ attempt' = [attempt EXCEPT ![f] = attempt[f]]
      /\ result' = [result EXCEPT ![f] = result[f]] /\ result[f] \in Outcome
      /\ misses' = [misses EXCEPT ![f] = misses[f] + 1] /\ misses[f] + 1 \in Nat
  BY <1>2, <1>3, <1>4 DEF FlowTypes
<1>6. /\ DOMAIN own' = Socket /\ own'[f] \subseteq 1 .. seq[f]
      /\ DOMAIN flight' = Socket /\ IsABag(flight'[f]) /\ sockErr' \in [Socket -> BOOLEAN]
      /\ \A g \in Socket \ {f} : own'[g] = own[g] /\ flight'[g] = flight[g]
  BY <1>2, <1>3, <1>4 DEF NetworkTypes, Control
<1>7. pc'[f] = "loop" /\ misses'[f] = misses[f] + 1 /\ seq[f] <= seq[f]
  BY <1>2, <1>3, <1>4 DEF FlowTypes
<1>8. LoopKnows(f)'
  <2>1. Waiting(f)' = 0 /\ Reads(f)' = 0 /\ Waiting(f) = 1 /\ Reads(f) \in Nat
    BY <1>1, <1>4, <1>7 DEF Waiting, Reads
  <2>2. GivenUp(f)' = GivenUp(f) /\ GivenUp(f) \in Int
    BY <2>1, <1>2, <1>4, <1>7 DEF GivenUp
  <2>3. GivenUp(f) + Reads(f) + Size(flight[f]) <= misses[f] + dups + Waiting(f)
    BY <1>3 DEF LoopKnows
  <2>4. DOMAIN flight'[f] \subseteq 1 .. seq'[f]
    BY <1>2, <1>3 DEF LoopKnows
  <2>5. result[f].recv <= Cardinality(own[f]) /\ result[f].recv + 1 <= result[f].sent
    BY <2>1, <1>3 DEF LoopKnows
  <2>6. result'[f].recv + Waiting(f)' <= result'[f].sent
    BY <2>1, <2>5, <1>2, <1>4
  <2>7. result'[f].sent <= seq'[f] /\ seq'[f] <= MaxSeq[f]
    BY <1>2, <1>3 DEF LoopKnows
  <2>8. GivenUp(f)' + Reads(f)' + Size(flight'[f]) <= misses'[f] + dups' + Waiting(f)'
    BY <2>1, <2>2, <2>3, <1>2, <1>4, <1>7
  <2> QED
    BY <2>4, <2>5, <2>6, <2>7, <2>8, <1>2, <1>7 DEF LoopKnows
<1> QED
  BY <1>1, <1>2, <1>4, <1>5, <1>6, <1>7, <1>8, LoopMoves

LEMMA LoopKeeps ==
    ASSUME Parts, NEW f \in Socket, Loop(f)
    PROVE  Parts'
BY DialOrEndKeeps, SendKeeps, ReadEchoKeeps, ReadStaleKeeps, ReadFailsKeeps DEF Loop

-----------------------------------------------------------------------------
(* The network                                                             *)

(* The packets of a drain's socket.                                        *)
LEMMA DrainBag ==
    ASSUME Parts, NEW f \in Drains
    PROVE  /\ f \in Socket /\ IsABag(flight[f]) /\ IsFiniteSet(DOMAIN flight[f])
           /\ Size(flight[f]) \in Nat
<1>1. f \in Socket
  BY Sockets
<1>2. IsABag(flight[f]) /\ DOMAIN flight[f] \subseteq {Flood}
  BY <1>1 DEF Parts, NetworkTypes, FloodCounted
<1>3. IsFiniteSet(DOMAIN flight[f])
  <2>1. IsFiniteSet({Flood})
    BY FS_Singleton
  <2> QED
    BY <2>1, <1>2, PartFinite
<1> QED
  BY <1>1, <1>2, <1>3, SizeNat

LEMMA DrainNumbers ==
    ASSUME Parts
    PROVE  \A f \in Drains : OnTheWay[f] \in Nat /\ Counting[f] \in Nat
BY DrainBag DEF OnTheWay, Counting

(* What a step that leaves the goroutines alone has to show.               *)
LEMMA NetworkMoves ==
    ASSUME Parts, NEW f \in Socket,
           UNCHANGED <<mode, main, flow, pacer, recv, closed, report>>,
           NEW b, flight' = [flight EXCEPT ![f] = b], IsABag(b),
           DOMAIN b \subseteq DOMAIN flight[f],
           sockErr' \in [Socket -> BOOLEAN],
           dups' \in dups .. MaxDups, faults' \in faults .. MaxFaults,
           f \in Drains => /\ Size(b) \in Nat
                          /\ Size(b) - Size(flight[f]) <= dups' - dups
                          /\ Size(flight[f]) - Size(b) <= faults' - faults,
           f \in Loops => Size(b) - dups' <= Size(flight[f]) - dups,
           f \in Loops => Size(b) - Copies(b, seq[f]) - dups'
                              <= Size(flight[f]) - Copies(flight[f], seq[f]) - dups
    PROVE  Parts'
<1>1. /\ FlowTypes /\ NetworkTypes /\ PacerTypes /\ MainTypes /\ Control
      /\ Loops' = Loops /\ Drains' = Drains /\ Cap' = Cap
      /\ dups \in Nat /\ faults \in Nat /\ dups' \in Nat /\ dups' >= dups
      /\ faults' \in Nat /\ faults' >= faults
      /\ dups' \in 0 .. MaxDups /\ faults' \in 0 .. MaxFaults
  BY ModeStays DEF Parts, NetworkTypes
<1>2. /\ UNCHANGED <<pc, seq, attempt, result, misses, own>> /\ DOMAIN flight' = Socket
      /\ flight'[f] = b /\ \A g \in Socket \ {f} : flight'[g] = flight[g]
  BY <1>1 DEF flow, history, Control
<1>3. FlowTypes' /\ PacerTypes' /\ MainTypes'
  BY <1>1, <1>2 DEF FlowTypes, PacerTypes, MainTypes, pacer
<1>4. NetworkTypes'
  BY <1>1, <1>2 DEF NetworkTypes
<1>5. Control'
  BY <1>1, <1>2 DEF Control, pacer
<1>6. (\A g \in Socket : result[g].rtts <= Cap)'
  BY <1>1, <1>2 DEF Parts
<1>7. ASSUME NEW g \in Loops
      PROVE  LoopKnows(g)'
  <2>1. CASE g # f
    BY <2>1, <1>1, <1>2, Sockets, LoopApart
  <2>2. CASE g = f
    <3>1. /\ seq[f] \in Nat /\ attempt[f] \in 0 .. 2 /\ misses[f] \in Nat
          /\ result[f].sent \in Nat /\ result[f].recv \in Nat /\ Size(flight[f]) \in Nat
          /\ LoopKnows(f) /\ IsFiniteSet(DOMAIN flight[f])
      BY <2>2, LoopNumbers
    <3>2. Copies(flight[f], seq[f]) \in Nat
      BY <2>2, LoopNumbers
    <3>3. Size(b) \in Nat /\ Copies(b, seq[f]) \in Nat
      <4>1. IsFiniteSet(DOMAIN b)
        BY <3>1, PartFinite
      <4> QED
        BY <4>1, SizeNat
    <3>4. /\ Waiting(f)' = Waiting(f) /\ Reads(f)' = Reads(f) /\ GivenUp(f)' = GivenUp(f)
      BY <1>2 DEF Waiting, Reads, GivenUp
    <3>5. Waiting(f) \in Nat /\ Reads(f) \in Nat /\ GivenUp(f) \in Int
      <4>1. Waiting(f) \in Nat /\ Reads(f) \in Nat
        BY <3>1 DEF Waiting, Reads
      <4> QED
        BY <4>1, <3>1 DEF GivenUp
    <3>6. Stale(f) \in Int /\ Stale(f)' \in Int /\ Stale(f)' - dups' <= Stale(f) - dups
      BY <2>2, <3>1, <3>2, <3>3, <1>1, <1>2 DEF Stale
    <3>7. GivenUp(f)' + Reads(f)' + Size(flight'[f]) <= misses'[f] + dups' + Waiting(f)'
      <4>1. GivenUp(f) + Reads(f) + Size(flight[f]) <= misses[f] + dups + Waiting(f)
        BY <3>1 DEF LoopKnows
      <4> QED
        BY <4>1, <2>2, <3>1, <3>3, <3>4, <3>5, <1>1, <1>2
    <3>8. pc'[f] = "read" => GivenUp(f)' + Reads(f)' + Stale(f)' <= misses'[f] + dups'
      <4>1. pc[f] = "read" => GivenUp(f) + Reads(f) + Stale(f) <= misses[f] + dups
        BY <3>1 DEF LoopKnows
      <4> QED
        BY <4>1, <3>1, <3>4, <3>5, <3>6, <1>1, <1>2
    <3>9. /\ pc'[f] = "read" => seq'[f] \in 1 .. MaxSeq[f] \ own'[f] /\ attempt'[f] < 2
          /\ DOMAIN flight'[f] \subseteq 1 .. seq'[f]
          /\ result'[f].recv <= Cardinality(own'[f])
          /\ result'[f].recv + Waiting(f)' <= result'[f].sent
          /\ result'[f].sent <= seq'[f] /\ seq'[f] <= MaxSeq[f]
      BY <3>1, <3>4, <1>2 DEF LoopKnows
    <3> QED
      BY <2>2, <3>7, <3>8, <3>9 DEF LoopKnows
  <2> QED
    BY <2>1, <2>2
<1>8. PacerInTurn' /\ PacerInTime'
  BY <1>1, <1>2 DEF Parts, PacerInTurn, PacerInTime, Due, pacer
<1>9. FloodCounted'
  <2>1. \A g \in Drains : DOMAIN flight'[g] \subseteq {Flood}
    BY <1>2, Sockets DEF Parts, FloodCounted
  <2>2. \A g \in Drains : OnTheWay[g] \in Nat /\ Counting[g] \in Nat
    BY DrainNumbers
  <2>3. PICK x \in Nat, y \in Nat :
           x = SumFunctionOnSet(OnTheWay, Drains) /\ y = SumFunctionOnSet(Counting, Drains)
    BY <2>2, Sockets, SumNat
  <2>4. Counting' = Counting
    BY <1>2 DEF Counting
  <2>5. PICK z \in Int : /\ z = SumFunctionOnSet(OnTheWay', Drains)
                         /\ z - x <= dups' - dups /\ x - z <= faults' - faults
    <3>1. PICK u, v : u = OnTheWay /\ v = OnTheWay'
      OBVIOUS
    <3>2. \A g \in Drains \ {f} : v[g] = u[g]
      BY <3>1, <1>2, Sockets DEF OnTheWay
    <3>3. CASE f \in Drains
      <4>1. PICK k \in Int : /\ v[f] = u[f] + k /\ v[f] \in Nat
                             /\ k <= dups' - dups /\ -k <= faults' - faults
        <5>1. u[f] = Size(flight[f]) /\ v[f] = Size(b) /\ u[f] \in Nat
          BY <3>1, <3>3, <2>2, <1>2 DEF OnTheWay
        <5>2. Size(b) - Size(flight[f]) \in Int /\ dups' - dups \in Int /\ faults' - faults \in Int
          BY <3>3, <5>1, <1>1
        <5> QED
          BY <3>3, <5>1, <5>2
      <4>2. \A g \in Drains : u[g] \in Nat /\ v[g] \in Nat
        BY <3>1, <3>2, <4>1, <2>2
      <4>3. SumFunctionOnSet(v, Drains) = SumFunctionOnSet(u, Drains) + k
        BY <3>2, <3>3, <4>1, <4>2, Sockets, SumGrows
      <4> QED
        BY <3>1, <4>1, <4>3, <2>3
    <3>4. CASE f \notin Drains
      <4>1. SumFunctionOnSet(v, Drains) = SumFunctionOnSet(u, Drains)
        BY <3>2, <3>4, Sockets, SumSame
      <4> QED
        BY <3>1, <4>1, <2>3, <1>1
    <3> QED
      BY <3>3, <3>4
  <2>6. Counted = recv + x + y /\ Counted' = recv + z + y
    BY <2>3, <2>4, <2>5, <1>1 DEF Counted
  <2>7. sent \in Nat /\ recv \in Nat /\ sent' = sent /\ mode' = mode
    BY <1>1 DEF PacerTypes, MainTypes, pacer
  <2>8. mode = "flood" => Counted <= sent + dups /\ sent <= Counted + faults
    BY DEF Parts, FloodCounted
  <2>9. mode = "flood" => Counted' <= sent + dups' /\ sent <= Counted' + faults'
    BY <2>3, <2>5, <2>6, <2>7, <2>8, <1>1
  <2> QED
    BY <2>1, <2>7, <2>9, <1>1 DEF FloodCounted
<1>10. ReportMade'
  BY <1>1, <1>2 DEF Parts, ReportMade, Total, Drained, Done, pacer
<1> QED
  BY <1>1, <1>3, <1>4, <1>5, <1>6, <1>7, <1>8, <1>9, <1>10 DEF Parts

LEMMA LoseKeeps ==
    ASSUME Parts, NEW f \in Socket, NEW s, Lose(f, s)
    PROVE  Parts'
<1>1. /\ s \in DOMAIN flight[f] /\ faults < MaxFaults
      /\ flight' = [flight EXCEPT ![f] = flight[f] (-) SetToBag({s})]
      /\ faults' = faults + 1 /\ dups' = dups
      /\ sockErr' \in {sockErr, [sockErr EXCEPT ![f] = TRUE]}
      /\ UNCHANGED <<mode, main, flow, pacer, recv, closed, report>>
  BY DEF Lose, BagToSet
<1>2. NetworkTypes
  BY DEF Parts
<1>3. PICK b : b = flight[f] (-) SetToBag({s})
  OBVIOUS
<1>4. /\ IsABag(b) /\ DOMAIN b \subseteq DOMAIN flight[f]
      /\ \A t : Copies(b, t) = Copies(flight[f], t) - (IF t = s THEN 1 ELSE 0)
  BY <1>1, <1>2, <1>3, RemoveIs DEF NetworkTypes
<1>5. sockErr' \in [Socket -> BOOLEAN]
  BY <1>1, <1>2 DEF NetworkTypes
<1>6. dups' \in dups .. MaxDups /\ faults' \in faults .. MaxFaults
  BY <1>1, <1>2, LoadGenAssumption DEF NetworkTypes
<1>8. ASSUME f \in Drains
      PROVE  /\ Size(b) \in Nat
             /\ Size(b) - Size(flight[f]) <= dups' - dups
             /\ Size(flight[f]) - Size(b) <= faults' - faults
  <2>1. IsABag(flight[f]) /\ IsFiniteSet(DOMAIN flight[f]) /\ Size(flight[f]) \in Nat
    BY <1>8, DrainBag
  <2>2. Size(b) = Size(flight[f]) - 1
    BY <2>1, <1>1, <1>3, RemoveCounts
  <2>3. IsFiniteSet(DOMAIN b)
    BY <2>1, <1>4, PartFinite
  <2>4. Size(b) \in Nat
    BY <2>3, <1>4, SizeNat
  <2> QED
    BY <2>1, <2>2, <2>4, <1>1, <1>2 DEF NetworkTypes
<1>7. ASSUME f \in Loops
      PROVE  /\ Size(b) - dups' <= Size(flight[f]) - dups
             /\ Size(b) - Copies(b, seq[f]) - dups'
                    <= Size(flight[f]) - Copies(flight[f], seq[f]) - dups
  <2>1. IsABag(flight[f]) /\ IsFiniteSet(DOMAIN flight[f]) /\ Size(flight[f]) \in Nat /\ dups \in Nat
    BY <1>7, LoopNumbers
  <2>2. Copies(flight[f], seq[f]) \in Nat
    BY <1>7, LoopNumbers
  <2>3. Size(b) = Size(flight[f]) - 1
    BY <2>1, <1>1, <1>3, RemoveCounts
  <2>4. Copies(b, seq[f]) = Copies(flight[f], seq[f]) - (IF seq[f] = s THEN 1 ELSE 0)
    BY <1>4
  <2> QED
    BY <2>1, <2>2, <2>3, <2>4, <1>1
<1> QED
  BY <1>1, <1>3, <1>4, <1>5, <1>6, <1>7, <1>8, NetworkMoves

LEMMA DuplicateKeeps ==
    ASSUME Parts, NEW f \in Socket, NEW s, Duplicate(f, s)
    PROVE  Parts'
<1>1. /\ s \in DOMAIN flight[f] /\ dups < MaxDups
      /\ flight' = [flight EXCEPT ![f] = flight[f] (+) SetToBag({s})]
      /\ dups' = dups + 1 /\ faults' = faults /\ sockErr' = sockErr
      /\ UNCHANGED <<mode, main, flow, pacer, recv, closed, report>>
  BY DEF Duplicate, BagToSet
<1>2. NetworkTypes
  BY DEF Parts
<1>3. PICK b : b = flight[f] (+) SetToBag({s})
  OBVIOUS
<1>4. /\ IsABag(b) /\ DOMAIN b = DOMAIN flight[f] \cup {s}
      /\ \A t : Copies(b, t) = Copies(flight[f], t) + (IF t = s THEN 1 ELSE 0)
  <2>1. IsABag(flight[f])
    BY <1>2 DEF NetworkTypes
  <2>2. /\ IsABag(flight[f] (+) SetToBag({s}))
        /\ DOMAIN (flight[f] (+) SetToBag({s})) = DOMAIN flight[f] \cup {s}
        /\ \A t : Copies(flight[f] (+) SetToBag({s}), t)
                    = Copies(flight[f], t) + (IF t = s THEN 1 ELSE 0)
    BY <2>1, AddIs
  <2> QED
    BY <2>2, <1>3
<1>5. sockErr' \in [Socket -> BOOLEAN] /\ DOMAIN b \subseteq DOMAIN flight[f]
  BY <1>1, <1>2, <1>4 DEF NetworkTypes
<1>6. dups' \in dups .. MaxDups /\ faults' \in faults .. MaxFaults
  BY <1>1, <1>2, LoadGenAssumption DEF NetworkTypes
<1>8. ASSUME f \in Drains
      PROVE  /\ Size(b) \in Nat
             /\ Size(b) - Size(flight[f]) <= dups' - dups
             /\ Size(flight[f]) - Size(b) <= faults' - faults
  <2>1. IsABag(flight[f]) /\ IsFiniteSet(DOMAIN flight[f]) /\ Size(flight[f]) \in Nat
    BY <1>8, DrainBag
  <2>2. Size(b) = Size(flight[f]) + 1
    BY <2>1, <1>3, AddCounts
  <2> QED
    BY <2>1, <2>2, <1>1, <1>2 DEF NetworkTypes
<1>7. ASSUME f \in Loops
      PROVE  /\ Size(b) - dups' <= Size(flight[f]) - dups
             /\ Size(b) - Copies(b, seq[f]) - dups'
                    <= Size(flight[f]) - Copies(flight[f], seq[f]) - dups
  <2>1. IsABag(flight[f]) /\ IsFiniteSet(DOMAIN flight[f]) /\ Size(flight[f]) \in Nat /\ dups \in Nat
    BY <1>7, LoopNumbers
  <2>2. Copies(flight[f], seq[f]) \in Nat
    BY <1>7, LoopNumbers
  <2>3. Size(b) = Size(flight[f]) + 1
    BY <2>1, <1>3, AddCounts
  <2>4. Copies(b, seq[f]) = Copies(flight[f], seq[f]) + (IF seq[f] = s THEN 1 ELSE 0)
    BY <1>4
  <2> QED
    BY <2>1, <2>2, <2>3, <2>4, <1>1
<1> QED
  BY <1>1, <1>3, <1>4, <1>5, <1>6, <1>7, <1>8, NetworkMoves

-----------------------------------------------------------------------------
(* The flood: its drains and the pacer's writes                            *)

(* A step at the socket of drain g: what it takes from one account is in   *)
(* the other.                                                              *)
LEMMA DrainMoves ==
    ASSUME Parts, NEW g \in Drains, main \notin {"spawn", "done"},
           UNCHANGED <<mode, main, attempt, result, history, dups, faults, report>>,
           NEW p \in {"none", "drain", "count", "done"}, pc' = [pc EXCEPT ![g] = p],
           NEW n \in Nat, seq' = [seq EXCEPT ![g] = n], seq[g] <= n,
           DOMAIN flight' = Socket, \A f \in Socket \ {g} : flight'[f] = flight[f],
           IsABag(flight'[g]), DOMAIN flight'[g] \subseteq {Flood},
           sockErr' \in [Socket -> BOOLEAN], recv' \in Nat, closed' \in BOOLEAN,
           PacerTypes', PacerInTurn', PacerInTime',
           sent' - recv' - Size(flight'[g]) - (IF p = "count" THEN 1 ELSE 0)
               = sent - recv - Size(flight[g]) - (IF pc[g] = "count" THEN 1 ELSE 0)
    PROVE  Parts'
<1>1. /\ FlowTypes /\ NetworkTypes /\ PacerTypes /\ MainTypes /\ Control
      /\ Loops' = Loops /\ Drains' = Drains /\ Cap' = Cap
      /\ g \in Socket /\ g \notin Loops
  BY ModeStays, Sockets DEF Parts
<1>2. FlowTypes'
  <2>1. pc' \in [Socket -> Step] /\ seq' \in [Socket -> Nat]
    BY <1>1 DEF FlowTypes, Step
  <2>2. UNCHANGED <<attempt, result, misses, own>>
    BY DEF history
  <2>3. \A f \in Socket : own'[f] \subseteq 1 .. seq'[f]
    BY <1>1, <2>2 DEF FlowTypes
  <2> QED
    BY <1>1, <2>1, <2>2, <2>3 DEF FlowTypes
<1>3. NetworkTypes' /\ MainTypes'
  BY <1>1 DEF NetworkTypes, MainTypes
<1>4. Control'
  <2>1. /\ \A f \in Loops : pc'[f] \in {"none", "dial", "loop", "read", "done"}
        /\ \A f \in Drains : pc'[f] \in {"none", "drain", "count", "done"}
    BY <1>1, Sockets DEF Control, FlowTypes
  <2>2. DOMAIN flight' = Socket /\ DOMAIN own' = Socket
    BY <1>1 DEF Control, history
  <2> QED
    BY <1>1, <2>1, <2>2 DEF Control
<1>5. (\A f \in Socket : result[f].rtts <= Cap)'
  BY <1>1 DEF Parts
<1>6. ASSUME NEW f \in Loops
      PROVE  LoopKnows(f)'
  <2>1. f \in Socket /\ f # g
    BY <1>1, Sockets
  <2>2. /\ seq'[f] = seq[f] /\ result'[f] = result[f] /\ own'[f] = own[f]
        /\ misses'[f] = misses[f] /\ flight'[f] = flight[f] /\ attempt'[f] = attempt[f]
        /\ pc'[f] = pc[f]
    BY <2>1, <1>1 DEF FlowTypes, history
  <2>3. dups' \in Nat /\ dups' >= dups
    BY <1>1 DEF NetworkTypes
  <2> QED
    BY <2>2, <2>3, LoopApart
<1>7. FloodCounted'
  <2>1. \A f \in Drains : DOMAIN flight'[f] \subseteq {Flood}
    BY Sockets DEF Parts, FloodCounted
  <2>2. \A f \in Drains : OnTheWay[f] \in Nat /\ Counting[f] \in Nat
    BY DrainNumbers
  <2>3. \A f \in Drains \ {g} : OnTheWay'[f] = OnTheWay[f] /\ Counting'[f] = Counting[f]
    BY <1>1, Sockets DEF OnTheWay, Counting, FlowTypes
  <2>4. Size(flight'[g]) \in Nat
    <3>1. IsFiniteSet({Flood})
      BY FS_Singleton
    <3>2. IsFiniteSet(DOMAIN flight'[g])
      BY <3>1, PartFinite
    <3> QED
      BY <3>2, SizeNat
  <2>5. PICK i \in Nat, j \in Nat, c \in Nat, d \in Nat :
           /\ i = Size(flight[g]) /\ j = Size(flight'[g])
           /\ c = (IF pc[g] = "count" THEN 1 ELSE 0) /\ d = (IF p = "count" THEN 1 ELSE 0)
    BY <2>2, <2>4, <1>1 DEF OnTheWay
  <2>6. /\ OnTheWay[g] = i /\ OnTheWay'[g] = j /\ Counting[g] = c /\ Counting'[g] = d
    BY <2>5, <1>1 DEF OnTheWay, Counting, FlowTypes
  <2>7. SumFunctionOnSet(OnTheWay', Drains) = SumFunctionOnSet(OnTheWay, Drains) + (j - i)
    <3>1. PICK u, v : u = OnTheWay /\ v = OnTheWay'
      OBVIOUS
    <3>2. \A f \in Drains : u[f] \in Nat /\ v[f] \in Nat
      BY <3>1, <2>2, <2>3, <2>6
    <3>3. v[g] = u[g] + (j - i) /\ j - i \in Int /\ \A f \in Drains \ {g} : v[f] = u[f]
      BY <3>1, <2>3, <2>6
    <3>4. SumFunctionOnSet(v, Drains) = SumFunctionOnSet(u, Drains) + (j - i)
      BY <3>2, <3>3, Sockets, SumGrows
    <3> QED
      BY <3>1, <3>4
  <2>8. SumFunctionOnSet(Counting', Drains) = SumFunctionOnSet(Counting, Drains) + (d - c)
    <3>1. PICK u, v : u = Counting /\ v = Counting'
      OBVIOUS
    <3>2. \A f \in Drains : u[f] \in Nat /\ v[f] \in Nat
      BY <3>1, <2>2, <2>3, <2>6
    <3>3. v[g] = u[g] + (d - c) /\ d - c \in Int /\ \A f \in Drains \ {g} : v[f] = u[f]
      BY <3>1, <2>3, <2>6
    <3>4. SumFunctionOnSet(v, Drains) = SumFunctionOnSet(u, Drains) + (d - c)
      BY <3>2, <3>3, Sockets, SumGrows
    <3> QED
      BY <3>1, <3>4
  <2>9. PICK x \in Nat, y \in Nat :
           x = SumFunctionOnSet(OnTheWay, Drains) /\ y = SumFunctionOnSet(Counting, Drains)
    BY <2>2, Sockets, SumNat
  <2>10. sent \in Nat /\ sent' \in Nat /\ recv \in Nat
    BY <1>1 DEF PacerTypes, MainTypes
  <2>11. sent' - recv' - j - d = sent - recv - i - c
    BY <2>5
  <2>12. Counted = recv + x + y /\ Counted' = recv' + (x + (j - i)) + (y + (d - c))
    BY <2>7, <2>8, <2>9, <1>1 DEF Counted
  <2>13. sent' - Counted' = sent - Counted /\ Counted \in Int /\ Counted' \in Int
    <3>1. recv' \in Nat
      OBVIOUS
    <3>2. recv' + (x + (j - i)) + (y + (d - c)) \in Int /\ recv + x + y \in Int
      BY <2>9, <2>10, <2>5, <3>1
    <3>3. sent' - (recv' + (x + (j - i)) + (y + (d - c))) = sent - (recv + x + y)
      BY <2>9, <2>10, <2>5, <2>11, <3>1
    <3> QED
      BY <2>12, <3>2, <3>3
  <2>14. mode = "flood" => Counted <= sent + dups /\ sent <= Counted + faults
    BY DEF Parts, FloodCounted
  <2>15. mode = "flood" => Counted' <= sent' + dups /\ sent' <= Counted' + faults
    <3>1. dups \in Int /\ faults \in Int
      BY <1>1 DEF NetworkTypes
    <3>2. \A p0, p1, s0, s1, up, down \in Int :
            s1 - p1 = s0 - p0 /\ p0 <= s0 + up /\ s0 <= p0 + down
              => p1 <= s1 + up /\ s1 <= p1 + down
      OBVIOUS
    <3>3. sent \in Int /\ sent' \in Int
      BY <2>10
    <3>4. Counted \in Int /\ Counted' \in Int
      BY <2>13, Zenon
    <3>5. sent' - Counted' = sent - Counted
      BY <2>13, Zenon
    <3> QED
      BY <2>14, <3>1, <3>2, <3>3, <3>4, <3>5, Zenon
  <2> QED
    BY <2>1, <2>15, <1>1 DEF FloodCounted
<1>8. ReportMade'
  BY DEF Parts, ReportMade
<1> QED
  BY <1>1, <1>2, <1>3, <1>4, <1>5, <1>6, <1>7, <1>8 DEF Parts

LEMMA DrainKeeps ==
    ASSUME Parts, NEW g \in Socket, Drain(g)
    PROVE  Parts'
<1>1. /\ g \in Drains /\ main \notin {"done", "fatal"} /\ pc[g] \in {"drain", "count"}
      /\ UNCHANGED <<mode, main, seq, attempt, result, history, pacer, closed, report>>
  BY DEF Drain, DrainRead, DrainCount, DrainEnds, DrainAt
<1>2. FlowTypes /\ NetworkTypes /\ PacerTypes /\ MainTypes /\ Control
  BY DEF Parts
<1>3. main # "spawn"
  BY <1>1, <1>2 DEF Control
<1>4. /\ seq' = [seq EXCEPT ![g] = seq[g]] /\ seq[g] \in Nat /\ seq[g] <= seq[g]
      /\ recv \in Nat /\ recv + 1 \in Nat /\ closed' \in BOOLEAN /\ sent' = sent /\ sent \in Nat
  <2>1. seq' = [seq EXCEPT ![g] = seq[g]] /\ seq[g] \in Nat
    BY <1>1, <1>2, Sockets DEF FlowTypes
  <2>2. recv \in Nat /\ closed' \in BOOLEAN /\ sent' = sent /\ sent \in Nat
    BY <1>1, <1>2 DEF MainTypes, PacerTypes, pacer
  <2> QED
    BY <2>1, <2>2
<1>5. PacerTypes' /\ PacerInTurn' /\ PacerInTime'
  <2>1. Drains' = Drains
    BY <1>1, ModeStays
  <2> QED
    BY <2>1, <1>1, <1>2 DEF Parts, PacerTypes, PacerInTurn, PacerInTime, Due, pacer
<1>6. /\ IsABag(flight[g]) /\ DOMAIN flight[g] \subseteq {Flood} /\ Size(flight[g]) \in Nat
      /\ IsFiniteSet(DOMAIN flight[g])
  <2>1. IsABag(flight[g]) /\ DOMAIN flight[g] \subseteq {Flood}
    BY <1>1, <1>2 DEF Parts, NetworkTypes, FloodCounted
  <2>2. IsFiniteSet({Flood})
    BY FS_Singleton
  <2>3. IsFiniteSet(DOMAIN flight[g])
    BY <2>1, <2>2, PartFinite
  <2> QED
    BY <2>1, <2>3, SizeNat
<1>7. CASE DrainRead(g)
  <2>1. /\ pc[g] = "drain" /\ pc' = [pc EXCEPT ![g] = "count"] /\ recv' = recv
        /\ Flood \in DOMAIN flight[g]
        /\ flight' = [flight EXCEPT ![g] = flight[g] (-) SetToBag({Flood})]
        /\ UNCHANGED <<sockErr, dups, faults>>
    BY <1>7 DEF DrainRead, DrainAt, Receive, BagToSet, Goto
  <2>2. PICK b : b = flight[g] (-) SetToBag({Flood})
    OBVIOUS
  <2>3. /\ DOMAIN flight' = Socket /\ \A f \in Socket \ {g} : flight'[f] = flight[f]
        /\ flight'[g] = b
    BY <2>1, <2>2, <1>2 DEF Control
  <2>4. IsABag(b) /\ DOMAIN b \subseteq DOMAIN flight[g]
    BY <2>1, <2>2, <1>6, RemoveIs
  <2>5. Size(b) = Size(flight[g]) - 1
    BY <2>1, <2>2, <1>6, RemoveCounts
  <2>6. sent' - recv' - Size(flight'[g]) - (IF "count" = "count" THEN 1 ELSE 0)
            = sent - recv - Size(flight[g]) - (IF pc[g] = "count" THEN 1 ELSE 0)
    BY <2>1, <2>3, <2>5, <1>4, <1>6
  <2>7. sockErr' \in [Socket -> BOOLEAN] /\ DOMAIN flight'[g] \subseteq {Flood} /\ recv' \in Nat
    BY <2>1, <2>3, <2>4, <1>2, <1>4, <1>6 DEF NetworkTypes
  <2> QED
    BY <2>1, <2>3, <2>4, <2>6, <2>7, <1>1, <1>3, <1>4, <1>5, DrainMoves
<1>8. CASE DrainCount(g)
  <2>1. /\ pc[g] = "count" /\ pc' = [pc EXCEPT ![g] = "drain"] /\ recv' = recv + 1
        /\ UNCHANGED <<flight, sockErr, dups, faults>>
    BY <1>8 DEF DrainCount, DrainAt, Goto, network
  <2>2. sent' - recv' - Size(flight'[g]) - (IF "drain" = "count" THEN 1 ELSE 0)
            = sent - recv - Size(flight[g]) - (IF pc[g] = "count" THEN 1 ELSE 0)
    BY <2>1, <1>4, <1>6
  <2>3. /\ sockErr' \in [Socket -> BOOLEAN] /\ DOMAIN flight' = Socket
        /\ \A f \in Socket \ {g} : flight'[f] = flight[f]
        /\ IsABag(flight'[g]) /\ DOMAIN flight'[g] \subseteq {Flood}
    BY <2>1, <1>2, <1>6 DEF NetworkTypes, Control
  <2> QED
    BY <2>1, <2>2, <2>3, <1>1, <1>3, <1>4, <1>5, DrainMoves
<1>9. CASE DrainEnds(g)
  <2>1. /\ pc[g] = "drain" /\ pc' = [pc EXCEPT ![g] = "done"] /\ recv' = recv
        /\ UNCHANGED <<flight, dups, faults>> /\ sockErr' = [sockErr EXCEPT ![g] = FALSE]
    BY <1>9 DEF DrainEnds, DrainAt, Goto, ReadError
  <2>2. sent' - recv' - Size(flight'[g]) - (IF "done" = "count" THEN 1 ELSE 0)
            = sent - recv - Size(flight[g]) - (IF pc[g] = "count" THEN 1 ELSE 0)
    BY <2>1, <1>4, <1>6
  <2>3. /\ sockErr' \in [Socket -> BOOLEAN] /\ DOMAIN flight' = Socket
        /\ \A f \in Socket \ {g} : flight'[f] = flight[f]
        /\ IsABag(flight'[g]) /\ DOMAIN flight'[g] \subseteq {Flood} /\ recv' \in Nat
    BY <2>1, <1>2, <1>4, <1>6 DEF NetworkTypes, Control
  <2> QED
    BY <2>1, <2>2, <2>3, <1>1, <1>3, <1>4, <1>5, DrainMoves
<1> QED
  BY <1>7, <1>8, <1>9 DEF Drain

-----------------------------------------------------------------------------
(* The pacer                                                               *)

LEMMA DueNat ==
    ASSUME NEW t \in Nat
    PROVE  Due(t) \in Nat
<1>1. PICK r \in Nat, d \in Nat \ {0} : r = Rate /\ d = Den
  BY LoadGenAssumption
<1>2. r * t \in Nat
  OBVIOUS
<1>3. (r * t) \div d \in Nat
  BY <1>2
<1> QED
  BY <1>1, <1>3 DEF Due

LEMMA DueMonotone ==
    ASSUME NEW t \in Nat, NEW u \in Nat, t <= u
    PROVE  Due(t) <= Due(u)
<1>1. PICK r \in Nat, d \in Nat \ {0} : r = Rate /\ d = Den
  BY LoadGenAssumption
<1>2. r * t <= r * u /\ r * t \in Nat /\ r * u \in Nat
  OBVIOUS
<1>3. PICK a \in Nat, b \in Nat : a = r * t /\ b = r * u /\ a <= b
  BY <1>2
<1>4. a \div d <= b \div d
  <2>1. PICK p \in Nat, q \in Nat : p = a \div d /\ q = b \div d
    OBVIOUS
  <2>2. d * p <= a /\ b < d * q + d
    BY <2>1
  <2>3. ASSUME q < p
        PROVE  FALSE
    <3>1. PICK k \in Nat : p = q + 1 + k
      <4>1. p - q - 1 \in Nat /\ p = q + 1 + (p - q - 1)
        BY <2>3
      <4> QED
        BY <4>1
    <3>2. d * p = d * q + d + d * k /\ d * k \in Nat /\ d * q \in Nat
      BY <3>1
    <3> QED
      BY <3>2, <2>2, <1>3
  <2> QED
    BY <2>1, <2>3
<1> QED
  BY <1>1, <1>3, <1>4 DEF Due

LEMMA BurstNat == MaxBurst \in Nat
<1>1. PICK r \in Nat, d \in Nat \ {0}, b \in Nat : r = Rate /\ d = Den /\ b = BurstTicks
  BY LoadGenAssumption
<1>2. (r + d - 1) \div d \in Nat
  OBVIOUS
<1>3. PICK c \in Nat : c = (r + d - 1) \div d
  BY <1>2
<1>4. b * c \in Nat
  OBVIOUS
<1> QED
  BY <1>1, <1>3, <1>4 DEF MaxBurst, Ceiling

(* A burst more is within the bursts of a later tick.                      *)
LEMMA BurstPerTick ==
    ASSUME NEW b \in Nat, NEW t \in Nat
    PROVE  /\ b * t \in Nat /\ (t = 0 => b * t = 0)
           /\ \A u \in Nat, s \in Nat, d \in 0 .. b :
                 u > t /\ s <= b * t => s + d <= b * u
<1>1. b * t \in Nat /\ (t = 0 => b * t = 0)
  OBVIOUS
<1>2. ASSUME NEW u \in Nat, NEW s \in Nat, NEW d \in 0 .. b, u > t, s <= b * t
      PROVE  s + d <= b * u
  <2>1. PICK k \in Nat : u = t + 1 + k
    <3>1. u - t - 1 \in Nat /\ u = t + 1 + (u - t - 1)
      BY <1>2
    <3> QED
      BY <3>1
  <2>2. b * u = b * t + b + b * k /\ b * k \in Nat
    BY <2>1
  <2> QED
    BY <1>2, <2>2
<1> QED
  BY <1>1, <1>2

(* A write of the pacer: the packet is on its way, or was not sent.        *)
LEMMA FloodWriteKeeps ==
    ASSUME Parts, FloodWrite
    PROVE  Parts'
<1>1. /\ main = "pace" /\ todo > 0
      /\ seq' = [seq EXCEPT ![next] = @ + 1]
      /\ sent' = (IF WriteOK(next) THEN sent + 1 ELSE sent)
      /\ todo' = todo - 1 /\ next' = (next + 1) % Flows
      /\ UNCHANGED <<mode, main, pc, attempt, result, history, start, now>>
      /\ UNCHANGED <<recv, closed, report, dups, faults>>
      /\ sockErr' = [sockErr EXCEPT ![next] = FALSE]
      /\ flight' = (IF WriteOK(next)
                    THEN [flight EXCEPT ![next] = flight[next] (+) SetToBag({Flood})]
                    ELSE flight)
  BY DEF FloodWrite, Write
<1>2. FlowTypes /\ NetworkTypes /\ PacerTypes /\ MainTypes /\ Control
  BY DEF Parts
<1>3. mode = "flood" /\ Drains = 0 .. Flows - 1 /\ next \in Drains
  BY <1>1, <1>2, Sockets DEF Control, PacerTypes
<1>4. next \in Socket /\ Drains \subseteq Socket /\ Drains' = Drains
  BY <1>1, <1>3, ModeStays, Sockets
<1>5. /\ seq[next] \in Nat /\ seq' = [seq EXCEPT ![next] = seq[next] + 1]
      /\ seq[next] + 1 \in Nat /\ seq[next] <= seq[next] + 1
      /\ recv' \in Nat /\ recv \in Nat /\ closed' \in BOOLEAN
      /\ sent \in Nat /\ sent' \in Nat /\ recv' = recv
  BY <1>1, <1>2, <1>4 DEF FlowTypes, MainTypes, PacerTypes
<1>6. \A f \in Drains : seq'[f] = seq[f] + (IF f = next THEN 1 ELSE 0) /\ seq[f] \in Nat
  BY <1>4, <1>5, <1>2 DEF FlowTypes
<1>7. PICK n \in Nat \ {0} : n = Flows
  BY LoadGenAssumption
<1>8. /\ next' \in 0 .. Flows - 1
      /\ \A f \in Drains : (IF f < next' THEN 1 ELSE 0)
                               = (IF f < next THEN 1 ELSE 0) + (IF f = next THEN 1 ELSE 0)
                                 - (IF next + 1 = Flows THEN 1 ELSE 0)
  <2>1. CASE next + 1 = n
    <3>1. next' = 0
      BY <2>1, <1>1, <1>7
    <3> QED
      BY <3>1, <2>1, <1>3, <1>7
  <2>2. CASE next + 1 < n
    <3>1. next' = next + 1
      BY <2>2, <1>1, <1>3, <1>7
    <3> QED
      BY <3>1, <2>2, <1>3, <1>7
  <2> QED
    BY <2>1, <2>2, <1>3, <1>7
<1>9. PacerInTurn'
  <2> SUFFICES ASSUME NEW f \in Drains, NEW g \in Drains
               PROVE  seq'[f] = seq'[g] + (IF f < next' THEN 1 ELSE 0)
                                        - (IF g < next' THEN 1 ELSE 0)
    BY <1>4 DEF PacerInTurn
  <2>1. seq[f] = seq[g] + (IF f < next THEN 1 ELSE 0) - (IF g < next THEN 1 ELSE 0)
    BY DEF Parts, PacerInTurn
  <2> QED
    BY <2>1, <1>6, <1>8
<1>10. PacerTypes'
  BY <1>1, <1>2, <1>5, <1>8, BurstNat DEF PacerTypes
<1>11. PacerInTime'
  <2>1. ASSUME start <= 1
        PROVE  start <= now /\ sent' + todo' <= Due(now - start)
    <3>1. start <= now /\ sent + todo <= Due(now - start)
      BY <2>1, <1>1 DEF Parts, PacerInTime
    <3>2. Due(now - start) \in Nat
      BY <3>1, <1>2, DueNat DEF PacerTypes
    <3> QED
      BY <3>1, <3>2, <1>1, <1>5, <1>2 DEF PacerTypes
  <2>2. Due(now - start)' = Due(now - start)
    BY <1>1 DEF Due
  <2>3. sent' + todo' <= MaxBurst * now
    <3>1. sent + todo <= MaxBurst * now
      BY DEF Parts, PacerInTime
    <3>2. PICK bound \in Nat : bound = MaxBurst * now
      BY <1>2, BurstNat, BurstPerTick DEF PacerTypes
    <3> QED
      BY <3>1, <3>2, <1>1, <1>2, <1>5, BurstNat DEF PacerTypes
  <2> QED
    BY <2>1, <2>2, <2>3, <1>1 DEF PacerInTime
<1>12. /\ IsABag(flight[next]) /\ DOMAIN flight[next] \subseteq {Flood}
       /\ Size(flight[next]) \in Nat /\ IsFiniteSet(DOMAIN flight[next])
  <2>1. IsABag(flight[next]) /\ DOMAIN flight[next] \subseteq {Flood}
    BY <1>3, <1>4, <1>2 DEF Parts, NetworkTypes, FloodCounted
  <2>2. IsFiniteSet({Flood})
    BY FS_Singleton
  <2>3. IsFiniteSet(DOMAIN flight[next])
    BY <2>1, <2>2, PartFinite
  <2> QED
    BY <2>1, <2>3, SizeNat
<1>13. PICK b : b = IF WriteOK(next) THEN flight[next] (+) SetToBag({Flood}) ELSE flight[next]
  OBVIOUS
<1>14. /\ DOMAIN flight' = Socket /\ flight'[next] = b
       /\ \A f \in Socket \ {next} : flight'[f] = flight[f]
  BY <1>1, <1>2, <1>4, <1>13 DEF Control
<1>15. IsABag(b) /\ DOMAIN b \subseteq {Flood}
  BY <1>12, <1>13, AddIs
<1>16. Size(b) = Size(flight[next]) + (sent' - sent)
  <2>1. Size(flight[next] (+) SetToBag({Flood})) = Size(flight[next]) + 1
    BY <1>12, AddCounts
  <2> QED
    BY <2>1, <1>1, <1>5, <1>12, <1>13
<1>17. /\ pc' = [pc EXCEPT ![next] = pc[next]] /\ pc[next] \in {"none", "drain", "count", "done"}
       /\ sockErr' \in [Socket -> BOOLEAN]
  BY <1>1, <1>2, <1>3 DEF FlowTypes, NetworkTypes, Control
<1>18. sent' - recv' - Size(flight'[next]) - (IF pc[next] = "count" THEN 1 ELSE 0)
           = sent - recv - Size(flight[next]) - (IF pc[next] = "count" THEN 1 ELSE 0)
  BY <1>5, <1>12, <1>14, <1>16
<1>19. main \notin {"spawn", "done"} /\ UNCHANGED <<mode, main, attempt, result, history>>
  BY <1>1
<1>20. UNCHANGED <<dups, faults, report>>
  BY <1>1
<1> QED
  BY <1>3, <1>5, <1>9, <1>10, <1>11, <1>14, <1>15, <1>17, <1>18, <1>19, <1>20, DrainMoves

-----------------------------------------------------------------------------
(* The other steps of main                                                 *)

(* What a step has to show that touches no socket and no count.            *)
LEMMA MainMoves ==
    ASSUME Parts,
           UNCHANGED <<mode, seq, attempt, result, history, network, recv, sent>>,
           pc' \in [Socket -> Step],
           \A f \in Socket : pc'[f] = "read" <=> pc[f] = "read",
           \A f \in Socket : pc'[f] = "count" <=> pc[f] = "count",
           PacerTypes', MainTypes', Control', PacerInTurn', PacerInTime', ReportMade'
    PROVE  Parts'
<1>1. /\ FlowTypes /\ NetworkTypes /\ FloodCounted
      /\ Loops' = Loops /\ Drains' = Drains /\ Cap' = Cap
      /\ UNCHANGED <<misses, own, flight, sockErr, dups, faults>>
  BY ModeStays DEF Parts, history, network
<1>2. FlowTypes' /\ NetworkTypes'
  BY <1>1 DEF FlowTypes, NetworkTypes
<1>3. (\A f \in Socket : result[f].rtts <= Cap)'
  BY <1>1 DEF Parts
<1>4. ASSUME NEW f \in Loops
      PROVE  LoopKnows(f)'
  <2>1. dups' \in Nat /\ dups' >= dups
    BY <1>1 DEF NetworkTypes
  <2>2. f \in Socket
    BY Sockets
  <2> QED
    BY <2>1, <2>2, <1>1, LoopApart
<1>5. FloodCounted'
  <2>1. OnTheWay' = OnTheWay
    BY <1>1 DEF OnTheWay
  <2>2. Counting' = Counting
    BY DEF Counting
  <2> QED
    BY <2>1, <2>2, <1>1 DEF FloodCounted, Counted
<1> QED
  BY <1>1, <1>2, <1>3, <1>4, <1>5 DEF Parts

LEMMA SpawnKeeps ==
    ASSUME Parts, Spawn
    PROVE  Parts'
<1>1. /\ main = "spawn" /\ main' = (IF mode = "flood" THEN "pace" ELSE "wait")
      /\ UNCHANGED <<mode, seq, attempt, result, history, network, recv>>
      /\ pc' = [f \in Socket |-> IF f \in Loops THEN "dial" ELSE
                                   IF f \in Drains THEN "drain" ELSE "done"]
      /\ start' \in Delays
      /\ UNCHANGED <<now, todo, next, sent, closed, report>>
  BY DEF Spawn, MainStep
<1>2. FlowTypes /\ NetworkTypes /\ PacerTypes /\ MainTypes /\ Control
  BY DEF Parts
<1>3. /\ now = 0 /\ todo = 0 /\ sent = 0 /\ \A f \in Socket : pc[f] = "none"
      /\ start' \in Nat /\ mode \in {"lockstep", "flood"}
      /\ Loops' = Loops /\ Drains' = Drains
  BY <1>1, <1>2, ModeStays, LoadGenAssumption DEF Control, MainTypes
<1>4. /\ pc' \in [Socket -> Step]
      /\ \A f \in Socket : pc'[f] \in {"dial", "drain", "done"}
      /\ \A f \in Loops : pc'[f] = "dial"
      /\ \A f \in Drains : pc'[f] = "drain"
  BY <1>1, Sockets DEF Step
<1>5. PacerTypes' /\ MainTypes'
  BY <1>1, <1>2, <1>3 DEF PacerTypes, MainTypes
<1>6. Control'
  <2>1. DOMAIN flight' = Socket /\ DOMAIN own' = Socket
    BY <1>1, <1>2 DEF Control, history, network
  <2>2. /\ main' # "spawn"
        /\ main' \in {"pace", "probe", "grace", "drain wait"} => mode' = "flood"
        /\ main' = "wait" => mode' = "lockstep"
    BY <1>1, <1>3
  <2> QED
    BY <2>1, <2>2, <1>3, <1>4 DEF Control
<1>7. PacerInTurn' /\ PacerInTime'
  BY <1>1, <1>3 DEF Parts, PacerInTurn, PacerInTime
<1>8. ReportMade'
  BY <1>1 DEF Parts, ReportMade
<1>9. \A f \in Socket : /\ pc'[f] = "read" <=> pc[f] = "read"
                        /\ pc'[f] = "count" <=> pc[f] = "count"
  BY <1>3, <1>4
<1> QED
  BY <1>1, <1>4, <1>5, <1>6, <1>7, <1>8, <1>9, MainMoves

LEMMA Elapsed ==
    ASSUME NEW t \in Nat, NEW u \in Nat, t <= u
    PROVE  /\ u - t \in Nat
           /\ \A v \in Nat : v <= t => v <= u /\ t - v <= u - v
           /\ \A d \in Nat : u < t + d => u - t <= d
OBVIOUS

(* A tick: the deficit is what the rate calls for beyond what was sent.    *)
LEMMA TickKeeps ==
    ASSUME Parts, Tick
    PROVE  Parts'
<1>1. /\ main = "pace" /\ todo = 0 /\ now' \in now + 1 .. now + MaxSkip
      /\ UNCHANGED <<mode, flow, network, start, next, sent, recv, closed, report>>
  BY DEF Tick
<1>2. FlowTypes /\ NetworkTypes /\ PacerTypes /\ MainTypes /\ Control
  BY DEF Parts
<1>3. /\ now' \in Nat /\ now' > now /\ start \in Nat /\ now \in Nat /\ sent \in Nat
      /\ Ticks \in Nat
  BY <1>1, <1>2, LoadGenAssumption DEF PacerTypes
<1>4. UNCHANGED <<pc, seq, attempt, result, history>>
  BY <1>1 DEF flow
<1>5. \A t \in Nat : Due(t) \in Nat
  BY DueNat
<1>6. start <= 1 => start <= now' /\ sent <= Due(now' - start)
  <2> SUFFICES ASSUME start <= 1
               PROVE  start <= now' /\ sent <= Due(now' - start)
    OBVIOUS
  <2>1. start <= now' /\ now' - start \in Nat
    <3>1. start <= now'
      BY <1>3
    <3> QED
      BY <3>1, <1>3, Elapsed
  <2>2. Due(now' - start) \in Nat
    BY <2>1, <1>5
  <2>3. CASE now = 0 /\ sent = 0
    BY <2>1, <2>2, <2>3
  <2>4. CASE start <= now /\ sent + todo <= Due(now - start)
    <3>1. now - start \in Nat /\ now - start <= now' - start
      <4>1. now <= now'
        BY <1>3
      <4> QED
        BY <4>1, <2>4, <1>3, Elapsed
    <3>2. Due(now - start) <= Due(now' - start) /\ Due(now - start) \in Nat
      BY <3>1, <2>1, <1>5, DueMonotone
    <3> QED
      BY <3>2, <2>1, <2>2, <2>4, <1>1, <1>3
  <2> QED
    BY <2>3, <2>4 DEF Parts, PacerInTime
<1>7. \/ main' = "probe" /\ todo' = 0
      \/ /\ main' = "pace" /\ now' < start + Ticks
         /\ \E target \in Target(now') : todo' = Least(Deficit(target), MaxBurst)
  BY <1>1 DEF Tick
<1>8. PICK w \in Nat \ {0} : w = Width
  BY LoadGenAssumption
<1>9. todo' \in 0 .. MaxBurst
  <2>1. CASE main' = "probe" /\ todo' = 0
    BY <2>1, BurstNat
  <2>2. CASE \E target \in Target(now') : todo' = Least(Deficit(target), MaxBurst)
    <3> DEFINE packets == IF now' >= start THEN Due(now' - start) ELSE -Due(start - now')
    <3>1. PICK target \in Target(now') : todo' = Least(Deficit(target), MaxBurst)
      BY <2>2
    <3>2. packets \in Int
      <4>1. CASE now' >= start
        <5>1. now' - start \in Nat
          BY <4>1, <1>3, Elapsed
        <5> QED
          BY <5>1, <4>1, <1>5
      <4>2. CASE ~(now' >= start)
        <5>1. start - now' \in Nat
          <6>1. now' <= start
            BY <4>2, <1>3
          <6> QED
            BY <6>1, <1>3, Elapsed
        <5>2. Due(start - now') \in Nat
          BY <5>1, <1>5
        <5> QED
          BY <5>2, <4>2
      <4> QED
        BY <4>1, <4>2
    <3>3. target \in {packets % Width, IF packets < 0 THEN 0 ELSE packets}
      BY <3>1 DEF Target
    <3> HIDE DEF packets
    <3>4. target \in Int
      BY <3>2, <3>3, <1>8
    <3>5. (target - sent) % w \in Nat
      BY <3>4, <1>3
    <3>6. Deficit(target) \in Nat
      BY <3>5, <1>8 DEF Deficit
    <3> QED
      BY <3>1, <3>6, BurstNat DEF Least
  <2> QED
    BY <2>1, <2>2, <1>7
<1>10. start <= 1 => sent + todo' <= Due(now' - start)
  <2>1. CASE main' = "probe" /\ todo' = 0
    BY <2>1, <1>3, <1>6
  <2>2. CASE /\ now' < start + Ticks
             /\ \E target \in Target(now') : todo' = Least(Deficit(target), MaxBurst)
    <3> SUFFICES ASSUME start <= 1
                 PROVE  sent + todo' <= Due(now' - start)
      OBVIOUS
    <3>1. PICK n \in Nat : n = Due(now' - start)
      BY <1>3, <1>5, <1>6
    <3>2. sent <= n /\ n < w
      <4>1. now' - start \in Nat /\ now' - start <= Ticks
        <5>1. start <= now' /\ now' < start + Ticks
          BY <2>2, <1>6
        <5>2. now' - start \in Nat
          BY <5>1, <1>3, Elapsed
        <5> QED
          BY <5>1, <1>3, Elapsed
      <4>2. n <= Due(Ticks) /\ Due(Ticks) \in Nat
        BY <4>1, <3>1, <1>3, <1>5, DueMonotone
      <4>3. Due(Ticks) < w
        BY <1>8, WidthAssumption
      <4> QED
        BY <4>2, <4>3, <3>1, <1>6
    <3>3. n % w = n
      BY <3>2
    <3>4. Target(now') = {n}
      <4>1. start <= now' /\ ~(n < 0)
        BY <1>6
      <4>2. now' >= start
        BY <4>1, <1>3
      <4> QED
        BY <4>1, <4>2, <3>1, <3>3, <1>8 DEF Target
    <3>5. todo' = Least(Deficit(n), MaxBurst)
      BY <2>2, <3>4
    <3>6. Deficit(n) = n - sent
      <4>1. (n - sent) % w = n - sent
        BY <3>2, <1>3
      <4> QED
        BY <4>1, <1>8 DEF Deficit
    <3>7. todo' <= n - sent /\ todo' \in Int
      BY <3>5, <3>6, <1>3, BurstNat DEF Least
    <3> QED
      BY <3>1, <3>7, <1>3
  <2> QED
    BY <2>1, <2>2, <1>7
<1>11. PacerTypes' /\ MainTypes'
  BY <1>1, <1>2, <1>3, <1>7, <1>9 DEF PacerTypes, MainTypes
<1>12. Control'
  <2>1. UNCHANGED <<flight, own, pc, mode>> /\ Loops' = Loops /\ Drains' = Drains
    BY <1>1, <1>4, ModeStays DEF network, history
  <2> QED
    BY <2>1, <1>1, <1>2, <1>7 DEF Control
<1>13. PacerInTurn'
  <2>1. Drains' = Drains
    BY <1>1, ModeStays
  <2> QED
    BY <2>1, <1>1, <1>4 DEF Parts, PacerInTurn
<1>14. PacerInTime'
  <2>1. Due(now - start)' = Due(now' - start)
    BY <1>1 DEF Due
  <2>2. sent + todo' <= MaxBurst * now'
    <3>1. sent <= MaxBurst * now
      BY <1>1, <1>3 DEF Parts, PacerInTime
    <3> QED
      BY <3>1, <1>3, <1>9, BurstNat, BurstPerTick
  <2> QED
    BY <2>1, <2>2, <1>1, <1>6, <1>10 DEF PacerInTime
<1>15. ReportMade'
  BY <1>1, <1>7 DEF Parts, ReportMade
<1> QED
  BY <1>1, <1>2, <1>4, <1>11, <1>12, <1>13, <1>14, <1>15, MainMoves DEF FlowTypes

(* main goes on or gives up, and nobody else moves.                        *)
LEMMA MainOnKeeps ==
    ASSUME Parts, ProbeWait \/ Close \/ DialFails
    PROVE  Parts'
<1>1. /\ UNCHANGED <<mode, seq, attempt, result, history, network, recv, pc, pacer, report>>
      /\ main # "done" /\ main' \notin {"done", "spawn", "wait"} /\ closed' \in {closed, TRUE}
      /\ main' \in {"grace", "drain wait", "fatal"}
      /\ main' = "fatal" \/ main \in {"probe", "grace"}
  BY DEF ProbeWait, Close, DialFails, MainStep
<1>2. FlowTypes /\ NetworkTypes /\ PacerTypes /\ MainTypes /\ Control
  BY DEF Parts
<1>3. Loops' = Loops /\ Drains' = Drains /\ UNCHANGED <<start, now, todo, next, sent>>
  BY <1>1, ModeStays DEF pacer
<1>4. PacerTypes' /\ MainTypes'
  BY <1>1, <1>2, <1>3 DEF PacerTypes, MainTypes
<1>5. Control'
  BY <1>1, <1>2, <1>3 DEF Control, history, network
<1>6. PacerInTurn' /\ PacerInTime' /\ ReportMade'
  BY <1>1, <1>3 DEF Parts, PacerInTurn, PacerInTime, Due, ReportMade
<1> QED
  BY <1>1, <1>2, <1>3, <1>4, <1>5, <1>6, MainMoves DEF FlowTypes

(* More packets were sent than came back, and fewer than a uint64 counts.  *)
LEMMA TotalsInRange ==
    ASSUME Parts, mode = "lockstep"
    PROVE  /\ Total("sent") \in Nat /\ Total("recv") \in Nat
           /\ Total("recv") <= Total("sent") /\ Total("sent") < Width
<1> DEFINE s == [f \in Socket |-> result[f]["sent"]]
           r == [f \in Socket |-> result[f]["recv"]]
<1>1. Total("sent") = SumFunctionOnSet(s, Loops) /\ Total("recv") = SumFunctionOnSet(r, Loops)
  BY DEF Total
<1>2. \A f \in Loops : /\ s[f] = result[f].sent /\ r[f] = result[f].recv
  BY Sockets
<1> HIDE DEF s, r
<1>3. ASSUME NEW f \in Loops
      PROVE  /\ s[f] \in Nat /\ r[f] \in Nat /\ MaxSeq[f] \in Nat
             /\ r[f] <= s[f] /\ s[f] <= MaxSeq[f]
  <2>1. /\ result[f].sent \in Nat /\ result[f].recv \in Nat /\ MaxSeq[f] \in Nat
        /\ seq[f] \in Nat /\ LoopKnows(f)
    BY LoopNumbers
  <2>2. Waiting(f) \in Nat
    BY DEF Waiting
  <2> QED
    BY <2>1, <2>2, <1>2 DEF LoopKnows
<1>4. SumFunctionOnSet(s, Loops) \in Nat /\ SumFunctionOnSet(r, Loops) \in Nat
  BY <1>3, Sockets, SumNat
<1>5. SumFunctionOnSet(r, Loops) <= SumFunctionOnSet(s, Loops)
  BY <1>3, Sockets, SumMonotone
<1>6. SumFunctionOnSet(s, Loops) <= SumFunctionOnSet(MaxSeq, Loops)
  BY <1>3, Sockets, SumMonotone
<1>7. SumFunction(MaxSeq) = MaxSeq[Flows] + SumFunctionOnSet(MaxSeq, Loops)
  <2>1. DOMAIN MaxSeq = Socket /\ \A f \in Socket : MaxSeq[f] \in Nat
    BY LoadGenAssumption DEF Socket
  <2>2. Flows \in Socket /\ Socket \ {Flows} = Loops
    BY LoadGenAssumption DEF Socket, Loops
  <2>3. SumFunctionOnSet(MaxSeq, Socket)
            = MaxSeq[Flows] + SumFunctionOnSet(MaxSeq, Socket \ {Flows})
    BY <2>1, <2>2, Sockets, SumTake
  <2> QED
    BY <2>1, <2>2, <2>3 DEF SumFunction
<1>8. MaxSeq[Flows] \in Nat /\ Width \in Nat
  BY LoadGenAssumption
<1>9. SumFunctionOnSet(MaxSeq, Loops) \in Nat
  BY <1>3, Sockets, SumNat
<1> QED
  BY <1>1, <1>4, <1>5, <1>6, <1>7, <1>8, <1>9, WidthAssumption

LEMMA ReportKeeps ==
    ASSUME Parts, ReportLockStep \/ ReportFlood
    PROVE  Parts'
<1>1. /\ UNCHANGED <<mode, seq, attempt, result, history, network, recv, pc, pacer, closed>>
      /\ main' = "done"
  BY DEF ReportLockStep, ReportFlood, MainStep
<1>2. FlowTypes /\ NetworkTypes /\ PacerTypes /\ MainTypes /\ Control
  BY DEF Parts
<1>3. Loops' = Loops /\ Drains' = Drains /\ UNCHANGED <<start, now, todo, next, sent>>
  BY <1>1, ModeStays DEF pacer
<1>4. PacerTypes' /\ MainTypes'
  BY <1>1, <1>2, <1>3 DEF PacerTypes, MainTypes
<1>5. Control'
  BY <1>1, <1>2, <1>3 DEF Control, history, network
<1>6. PacerInTurn' /\ PacerInTime'
  BY <1>1, <1>3 DEF Parts, PacerInTurn, PacerInTime, Due
<1>7. ASSUME ReportLockStep
      PROVE  ReportMade'
  <2>1. /\ mode = "lockstep"
        /\ report' = Line(Total("sent"), Total("recv"),
                          (Total("sent") - Total("recv")) % Width, Total("rtts"))
    BY <1>7, <1>2 DEF ReportLockStep, MainStep, Control
  <2>2. PICK a \in Nat, b \in Nat, w \in Nat \ {0} :
           /\ a = Total("sent") /\ b = Total("recv") /\ w = Width /\ b <= a /\ a < w
    <3>1. Width \in Nat \ {0}
      BY LoadGenAssumption
    <3> QED
      BY <3>1, <2>1, TotalsInRange
  <2>3. (a - b) % w = a - b
    BY <2>2
  <2>4. report' = Line(Total("sent"), Total("recv"),
                       Total("sent") - Total("recv"), Total("rtts"))
    BY <2>1, <2>2, <2>3
  <2>5. /\ Total("sent")' = Total("sent") /\ Total("recv")' = Total("recv")
        /\ Total("rtts")' = Total("rtts")
    BY <1>1, <1>3 DEF Total
  <2> QED
    BY <2>1, <2>4, <2>5, <1>1 DEF ReportMade
<1>8. ASSUME ReportFlood
      PROVE  ReportMade'
  <2>1. /\ mode = "flood" /\ Drained
        /\ report' = Line(sent, recv, sent - recv, result[Probe].rtts)
    BY <1>8, <1>2 DEF ReportFlood, MainStep, Control
  <2>2. Drained'
    BY <2>1, <1>1, <1>3 DEF Drained, Done
  <2> QED
    BY <2>1, <2>2, <1>1, <1>3 DEF ReportMade
<1>9. ReportMade'
  BY <1>7, <1>8
<1> QED
  BY <1>1, <1>2, <1>3, <1>4, <1>5, <1>6, <1>9, MainMoves DEF FlowTypes

LEMMA StutterKeeps ==
    ASSUME Parts, UNCHANGED vars
    PROVE  Parts'
<1>1. /\ UNCHANGED <<mode, seq, attempt, result, history, network, recv, pc, pacer, closed>>
      /\ main' = main /\ report' = report
  BY DEF vars, flow
<1>2. FlowTypes /\ NetworkTypes /\ PacerTypes /\ MainTypes /\ Control
  BY DEF Parts
<1>3. Loops' = Loops /\ Drains' = Drains /\ UNCHANGED <<start, now, todo, next, sent>>
  BY <1>1, ModeStays DEF pacer
<1>4. PacerTypes' /\ MainTypes'
  BY <1>1, <1>2, <1>3 DEF PacerTypes, MainTypes
<1>5. Control'
  BY <1>1, <1>2, <1>3 DEF Control, history, network
<1>6. PacerInTurn' /\ PacerInTime'
  BY <1>1, <1>3 DEF Parts, PacerInTurn, PacerInTime, Due
<1>7. ReportMade'
  BY <1>1, <1>3 DEF Parts, ReportMade, Total, Drained, Done
<1> QED
  BY <1>1, <1>2, <1>3, <1>4, <1>5, <1>6, <1>7, MainMoves DEF FlowTypes

LEMMA NextKeeps ==
    ASSUME Parts, [Next]_vars
    PROVE  Parts'
<1>1. CASE Main
  BY <1>1, SpawnKeeps, TickKeeps, FloodWriteKeeps, MainOnKeeps, ReportKeeps DEF Main
<1>2. CASE DialFails
  BY <1>2, MainOnKeeps
<1>3. CASE \E f \in Socket : Loop(f) \/ Drain(f)
  BY <1>3, LoopKeeps, DrainKeeps
<1>4. CASE \E f \in Socket : \E s \in BagToSet(flight[f]) : Lose(f, s) \/ Duplicate(f, s)
  BY <1>4, LoseKeeps, DuplicateKeeps
<1>5. CASE UNCHANGED vars
  BY <1>5, StutterKeeps
<1> QED
  BY <1>1, <1>2, <1>3, <1>4, <1>5 DEF Next

LEMMA InitParts == Init => Parts
<1> SUFFICES ASSUME Init PROVE Parts
  OBVIOUS
<1>1. /\ mode \in Modes /\ main = "spawn" /\ pc = [f \in Socket |-> "none"]
      /\ seq = [f \in Socket |-> 0] /\ attempt = [f \in Socket |-> 0]
      /\ result = [f \in Socket |-> [sent |-> 0, recv |-> 0, rtts |-> 0]]
      /\ misses = [f \in Socket |-> 0] /\ own = [f \in Socket |-> {}]
      /\ flight = [f \in Socket |-> EmptyBag] /\ sockErr = [f \in Socket |-> FALSE]
      /\ dups = 0 /\ faults = 0 /\ start = 0 /\ now = 0 /\ todo = 0 /\ next = 0 /\ sent = 0
      /\ recv = 0 /\ closed = FALSE /\ report = NoReport
  BY DEF Init
<1>2. IsABag(EmptyBag) /\ DOMAIN EmptyBag = {} /\ Size(EmptyBag) = 0
  BY EmptyIs
<1>3. Loops \subseteq Socket /\ Drains \subseteq Socket
  BY Sockets
<1>4. FlowTypes
  <2>1. result \in [Socket -> Outcome]
    BY <1>1 DEF Outcome
  <2>2. pc \in [Socket -> Step] /\ seq \in [Socket -> Nat] /\ misses \in [Socket -> Nat]
    BY <1>1 DEF Step
  <2>3. attempt \in [Socket -> 0 .. 2] /\ \A f \in Socket : own[f] \subseteq 1 .. seq[f]
    BY <1>1
  <2> QED
    BY <2>1, <2>2, <2>3 DEF FlowTypes
<1>5. NetworkTypes
  BY <1>1, <1>2, LoadGenAssumption DEF NetworkTypes
<1>6. PacerTypes /\ MainTypes
  <2>1. 0 \in 0 .. MaxBurst /\ 0 \in 0 .. Flows - 1
    BY BurstNat, LoadGenAssumption
  <2> QED
    BY <1>1, <2>1 DEF PacerTypes, MainTypes
<1>7. Control
  BY <1>1, <1>3 DEF Control
<1>8. \A f \in Socket : result[f].rtts <= Cap
  BY <1>1, CapIs, LoadGenAssumption
<1>9. ASSUME NEW f \in Loops
      PROVE  LoopKnows(f)
  <2>1. /\ f \in Socket /\ pc[f] = "none" /\ seq[f] = 0 /\ misses[f] = 0 /\ own[f] = {}
        /\ flight[f] = EmptyBag
        /\ result[f].sent = 0 /\ result[f].recv = 0
    BY <1>1, <1>3
  <2>2. Waiting(f) = 0 /\ Reads(f) = 0
    BY <2>1 DEF Waiting, Reads
  <2>3. GivenUp(f) = 0
    BY <2>1, <2>2 DEF GivenUp
  <2>4. MaxSeq[f] \in Nat /\ Cardinality(own[f]) = 0
    BY <2>1, FS_EmptySet, LoadGenAssumption DEF Socket
  <2> QED
    BY <2>1, <2>2, <2>3, <2>4, <1>1, <1>2 DEF LoopKnows
<1>10. PacerInTurn /\ PacerInTime
  <2>1. \A f \in Drains : seq[f] = 0 /\ ~(f < next)
    BY <1>1, <1>3, LoadGenAssumption DEF Drains
  <2>2. MaxBurst * now = 0
    BY <1>1, BurstNat, BurstPerTick
  <2> QED
    BY <2>1, <2>2, <1>1 DEF PacerInTurn, PacerInTime
<1>11. FloodCounted
  <2>1. \A f \in Drains : OnTheWay[f] = 0 /\ Counting[f] = 0
    BY <1>1, <1>2, <1>3 DEF OnTheWay, Counting
  <2>2. PICK z \in Nat : z = 0
    OBVIOUS
  <2>3. /\ SumFunctionOnSet(OnTheWay, Drains) = Cardinality(Drains) * z
        /\ SumFunctionOnSet(Counting, Drains) = Cardinality(Drains) * z
    BY <2>1, <2>2, Sockets, SumConstant
  <2>4. Cardinality(Drains) * z = 0
    BY <2>2, Sockets, FS_CardinalityType
  <2>5. \A f \in Drains : DOMAIN flight[f] \subseteq {Flood}
    BY <1>1, <1>2, <1>3
  <2> QED
    BY <2>3, <2>4, <2>5, <1>1 DEF FloodCounted, Counted
<1>12. ReportMade
  BY <1>1 DEF ReportMade
<1> QED
  BY <1>4, <1>5, <1>6, <1>7, <1>8, <1>9, <1>10, <1>11, <1>12 DEF Parts

-----------------------------------------------------------------------------
(* Theorems                                                                *)

(* The inductive invariant of udploadgen: the balance of packets of every  *)
(* loop, the turn and the clock of the pacer, what a flood sent and has    *)
(* not counted yet, and the report (main.go:115-366).                      *)
THEOREM LoadGenInvariant == Spec => []LInv
<1>1. Init => Parts
  BY InitParts
<1>2. Parts /\ [Next]_vars => Parts'
  BY NextKeeps
<1>3. Parts => LInv
  BY PartsAreLInv
<1> QED
  BY <1>1, <1>2, <1>3, PTL DEF Spec

(* Type correctness: the samples and the ranks keep their bounds, whatever *)
(* the network does (main.go:51-52, 122-128, 355-366).                     *)
THEOREM LoadGenTypes == Spec => []TypeOK
<1>1. LInv => TypeOK
  BY DEF LInv
<1> QED
  BY <1>1, LoadGenInvariant, PTL

(* A lock-step loop never counts an echo twice or for another packet, and  *)
(* gives up at most one packet more per failed read and per duplicate, for *)
(* any number of packets, losses and duplicates (main.go:300-302).         *)
THEOREM LossIsHonestAlways == Spec => []LossIsHonest
<1>1. Parts => LossIsHonest
  <2> SUFFICES ASSUME Parts, NEW f \in Loops
               PROVE  /\ result[f].recv <= Cardinality(own[f])
                      /\ result[f].sent - result[f].recv - Waiting(f) <= 2 * misses[f] + dups
    BY DEF LossIsHonest
  <2>1. /\ result[f].sent \in Nat /\ result[f].recv \in Nat /\ misses[f] \in Nat
        /\ dups \in Nat /\ attempt[f] \in 0 .. 2 /\ LoopKnows(f)
    BY LoopNumbers
  <2>2. Size(flight[f]) \in Nat /\ IsABag(flight[f]) /\ IsFiniteSet(DOMAIN flight[f])
    BY LoopNumbers
  <2>3. Copies(flight[f], seq[f]) \in Nat /\ Copies(flight[f], seq[f]) <= Size(flight[f])
    BY <2>2, SizeNat
  <2>4. Stale(f) \in Nat
    BY <2>2, <2>3 DEF Stale
  <2>5. Waiting(f) \in Nat /\ Reads(f) \in Nat
    BY <2>1 DEF Waiting, Reads
  <2>6. GivenUp(f) \in Int /\ GivenUp(f) <= misses[f] + dups
    <3>1. GivenUp(f) \in Int
      BY <2>1, <2>5 DEF GivenUp
    <3>2. CASE pc[f] = "read"
      <4>1. GivenUp(f) + Reads(f) + Stale(f) <= misses[f] + dups
        BY <3>2, <2>1 DEF LoopKnows
      <4> QED
        BY <4>1, <3>1, <2>1, <2>4, <2>5
    <3>3. CASE pc[f] # "read"
      <4>1. GivenUp(f) + Reads(f) + Size(flight[f]) <= misses[f] + dups + Waiting(f)
        BY <2>1 DEF LoopKnows
      <4>2. Waiting(f) = 0
        BY <3>3 DEF Waiting
      <4> QED
        BY <4>1, <4>2, <3>1, <2>1, <2>2, <2>5
    <3> QED
      BY <3>1, <3>2, <3>3
  <2>7. GivenUp(f) = result[f].sent - result[f].recv - Waiting(f) - misses[f]
    BY DEF GivenUp
  <2> QED
    BY <2>1, <2>5, <2>6, <2>7 DEF LoopKnows
<1>2. LInv => LossIsHonest
  BY <1>1, PartsAreLInv
<1> QED
  BY <1>2, LoadGenInvariant, PTL

(* The pacer sends in turn, never more than a full burst per tick that     *)
(* passed, and when its clock is read by the first tick, never ahead of    *)
(* the rate: for any rate and any number of ticks it misses (main.go:      *)
(* 243-282).                                                               *)
THEOREM PacerKeepsTheRate == Spec => []PacerHolds
<1>1. Parts => PacerHolds
  <2> SUFFICES ASSUME Parts, mode = "flood"
               PROVE  /\ \A f, g \in Drains : seq[f] <= seq[g] + 1
                      /\ sent + todo <= MaxBurst * now
                      /\ start <= 1 /\ start <= now => sent + todo <= Due(now - start)
    BY DEF PacerHolds
  <2>1. ASSUME NEW f \in Drains, NEW g \in Drains
        PROVE  seq[f] <= seq[g] + 1
    <3>1. seq[f] = seq[g] + (IF f < next THEN 1 ELSE 0) - (IF g < next THEN 1 ELSE 0)
      BY DEF Parts, PacerInTurn
    <3>2. seq[f] \in Nat /\ seq[g] \in Nat
      BY Sockets DEF Parts, FlowTypes
    <3> QED
      BY <3>1, <3>2
  <2>2. ASSUME start <= 1, start <= now
        PROVE  sent + todo <= Due(now - start)
    <3>1. CASE now = 0 /\ sent = 0 /\ todo = 0
      <4>1. now - start \in Nat
        BY <2>2, Elapsed DEF Parts, PacerTypes
      <4>2. Due(now - start) \in Nat
        BY <4>1, DueNat
      <4> QED
        BY <3>1, <4>2
    <3> QED
      BY <3>1, <2>2 DEF Parts, PacerInTime
  <2>3. sent + todo <= MaxBurst * now
    BY DEF Parts, PacerInTime
  <2> QED
    BY <2>1, <2>2, <2>3
<1>2. LInv => PacerHolds
  BY <1>1, PartsAreLInv
<1> QED
  BY <1>2, LoadGenInvariant, PTL

(* The report is the last word: nothing is counted after it, its loss does *)
(* not wrap, and that of a flood is what was left unread and what the      *)
(* network lost, less what it repeated (main.go:143-161, 215-240).         *)
THEOREM ReportIsTheLastWord == Spec => []ReportIsFinal
<1>1. Parts => ReportIsFinal
  <2> SUFFICES ASSUME Parts, main = "done"
               PROVE  /\ mode = "lockstep" =>
                            /\ report.sent = Total("sent") /\ report.recv = Total("recv")
                            /\ report.lost + report.recv = report.sent
                      /\ mode = "flood" =>
                            /\ report.sent = sent /\ report.recv = recv
                            /\ LET left == SumFunctionOnSet(OnTheWay, Drains)
                               IN  left - dups <= report.lost /\ report.lost <= left + faults
    BY DEF ReportIsFinal
  <2>1. CASE mode = "lockstep"
    <3>1. report = Line(Total("sent"), Total("recv"),
                        Total("sent") - Total("recv"), Total("rtts"))
      BY <2>1 DEF Parts, ReportMade
    <3>2. /\ report.sent = Total("sent") /\ report.recv = Total("recv")
          /\ report.lost = Total("sent") - Total("recv")
      BY <3>1 DEF Line
    <3>3. Total("sent") \in Nat /\ Total("recv") \in Nat
      BY <2>1, TotalsInRange
    <3> QED
      BY <2>1, <3>2, <3>3
  <2>2. CASE mode = "flood"
    <3>1. Drained /\ report = Line(sent, recv, sent - recv, result[Probe].rtts)
      BY <2>2 DEF Parts, ReportMade
    <3>2. report.sent = sent /\ report.recv = recv /\ report.lost = sent - recv
      BY <3>1 DEF Line
    <3>3. sent \in Nat /\ recv \in Nat /\ dups \in Nat /\ faults \in Nat
      BY DEF Parts, PacerTypes, MainTypes, NetworkTypes
    <3>4. SumFunctionOnSet(Counting, Drains) = 0
      <4>1. \A f \in Drains : Counting[f] = 0
        BY <3>1, Sockets DEF Drained, Done, Counting
      <4>2. PICK z \in Nat : z = 0
        OBVIOUS
      <4>3. SumFunctionOnSet(Counting, Drains) = Cardinality(Drains) * z
        BY <4>1, <4>2, Sockets, SumConstant
      <4>4. Cardinality(Drains) * z = 0
        BY <4>2, Sockets, FS_CardinalityType
      <4> QED
        BY <4>3, <4>4
    <3>5. PICK left \in Nat : left = SumFunctionOnSet(OnTheWay, Drains)
      BY DrainNumbers, Sockets, SumNat
    <3>6. recv + left <= sent + dups /\ sent <= recv + left + faults
      BY <2>2, <3>3, <3>4, <3>5 DEF Parts, FloodCounted, Counted
    <3> QED
      BY <2>2, <3>2, <3>3, <3>5, <3>6
  <2> QED
    BY <2>1, <2>2
<1>2. LInv => ReportIsFinal
  BY <1>1, PartsAreLInv
<1> QED
  BY <1>2, LoadGenInvariant, PTL
=============================================================================
