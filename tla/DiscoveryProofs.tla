-------------------------- MODULE DiscoveryProofs ---------------------------
(***************************************************************************)
(* The cgroup walks and the GOMAXPROCS target, for mounts of any depth,    *)
(* any contents of the files and any number of cores.                      *)
(***************************************************************************)
EXTENDS DiscoveryProperties, FiniteSetTheorems, TLAPS

USE DiscoveryAssumption

-----------------------------------------------------------------------------
(* The inductive invariant: TypeInv says where a walk is, WalkInv what it  *)
(* has found there.                                                        *)

(* The files of the cpuset walk that were read before the current one.     *)
Earlier(s) ==
    \/ s = "effective" /\ src \in {"v1effective", "v1cpus"}
    \/ s = "v1effective" /\ src = "v1cpus"

Passed(s, d) == Earlier(s) \/ (s = src /\ d > dir)

(* The walk goes by files that it could have found at one moment: empty    *)
(* where it has been, and as they are now where it has not.                *)
OneMoment(c) ==
    /\ c \in CpusetTree
    /\ Allowed(c) \in right
    /\ changes = 0 => c = cpusets
    /\ \A s \in Source, d \in Level :
          d <= StartOf(s) => c[s][d] = IF Passed(s, d) THEN {} ELSE cpusets[s][d]

WalkInv ==
    /\ pc \in {"self", "cpuset"} => Allowed(cpusets) \in right
    /\ pc = "cpuset" /\ changes <= 1 => \E c \in CpusetTree : OneMoment(c)
    /\ AvailableWasRight

-----------------------------------------------------------------------------
(* What is in force in a hierarchy                                         *)

LEMMA PlaceIsInteger ==
    ASSUME NEW p \in Place
    PROVE  p \in Int
BY DEF Place, Level, None, Outside

LEMMA StartIsPlace ==
    ASSUME TypeOK, NEW s \in Source \cup QuotaSrc
    PROVE  StartOf(s) \in Place
BY DEF TypeOK, StartOf, Source, QuotaSrc, cgroupPaths

LEMMA NoneInForce ==
    ASSUME NEW c, NEW s, \A d \in Level : d <= StartOf(s) => c[s][d] = {}
    PROVE  InForce(c, s) = {}
BY DEF InForce

LEMMA InnermostInForce ==
    ASSUME NEW c, NEW s, NEW d \in Level, d <= StartOf(s), c[s][d] # {},
           \A e \in Level : e <= StartOf(s) /\ e > d => c[s][e] = {}
    PROVE  InForce(c, s) = c[s][d]
<1> DEFINE held == {e \in Level : e <= StartOf(s) /\ c[s][e] # {}}
<1>1. d \in held /\ \A e \in held : e <= d
  BY DEF Level
<1>2. \A f \in held : (\A e \in held : e <= f) => f = d
  BY <1>1 DEF Level
<1>3. (CHOOSE f \in held : \A e \in held : e <= f) = d
  BY <1>1, <1>2
<1> QED
  BY <1>1, <1>3 DEF InForce

LEMMA AllowedNothing ==
    ASSUME NEW c, \A s \in Source : ~self.readable \/ InForce(c, s) = {}
    PROVE  Allowed(c) = BootMask
BY DEF Allowed, Source

LEMMA AllowedFirst ==
    ASSUME NEW c, self.readable, NEW s \in Source, InForce(c, s) # {},
           s \in {"v1effective", "v1cpus"} => InForce(c, "effective") = {},
           s = "v1cpus" => InForce(c, "v1effective") = {}
    PROVE  Allowed(c) = InForce(c, s) \cap BootMask
BY DEF Allowed, Source

(* What the files c put in force changes only with /proc/self/cgroup.      *)
LEMMA AllowedStable ==
    ASSUME NEW c, self' = self
    PROVE  Allowed(c)' = Allowed(c)
<1> DEFINE held(s, st) == {d \in Level : d <= st /\ c[s][d] # {}}
           innermost(s, st) ==
               IF held(s, st) = {} THEN {}
               ELSE c[s][CHOOSE d \in held(s, st) : \A e \in held(s, st) : e <= d]
<1>1. \A s \in Source : StartOf(s)' = StartOf(s)
  BY DEF StartOf, Source
<1>2. \A s : InForce(c, s) = innermost(s, StartOf(s))
  BY DEF InForce
<1>3. \A s : InForce(c, s)' = innermost(s, StartOf(s)')
  BY DEF InForce
<1> HIDE DEF innermost
<1>4. \A s \in Source : InForce(c, s)' = InForce(c, s)
  BY <1>1, <1>2, <1>3
<1> QED
  BY <1>4 DEF Allowed, Source

-----------------------------------------------------------------------------
(* The types, and where a walk may be                                      *)

LEMMA InitTypeInv == Init => TypeInv
<1> SUFFICES ASSUME Init PROVE TypeInv
  OBVIOUS
<1>1. cpusets \in CpusetTree /\ quotas \in QuotaTree
  BY DEF Init
<1>2. Unlimited \in QuotaFile \ {NoFile} /\ None \in Place
  BY DEF Place, None, QuotaFile, Unlimited, NoFile
<1>3. TypeOK
  BY <1>1, <1>2 DEF Init, TypeOK
<1> QED
  BY <1>3 DEF Init, TypeInv, WalkPlace

(* A walk starts in the directory that /proc/self/cgroup names.            *)
LEMMA EnterOnPath ==
    ASSUME TypeOK, NEW s \in Source \cup QuotaSrc, StartOf(s) # None,
           self' = self, src' = s, dir' = StartOf(s)
    PROVE  OnPath' /\ dir' \in Level \cup {Outside} /\ dir' \in Place
<1>1. StartOf(s) \in Place
  BY StartIsPlace
<1>2. StartOf(src)' = StartOf(s)
  BY DEF StartOf
<1> QED
  BY <1>1, <1>2 DEF OnPath, Place, Level, Outside, None

(* A step up stays on the path.                                            *)
LEMMA ParentOnPath ==
    ASSUME TypeOK, OnPath, dir \in Level \cup {Outside}, ~AtStop,
           self' = self, src' = src, dir' = Parent
    PROVE  OnPath' /\ dir' \in Level /\ dir' \in Place /\ dir' = dir - 1
<1>1. dir \in Level /\ dir # 0
  BY DEF AtStop
<1>2. dir' = dir - 1 /\ dir' \in Level
  BY <1>1 DEF Parent, Level, Outside
<1>3. StartOf(src)' = StartOf(src)
  BY DEF StartOf
<1> QED
  BY <1>1, <1>2, <1>3 DEF OnPath, Level, Place, Outside, None

LEMMA FallBackTypeInv ==
    ASSUME TypeInv, FallBack, UNCHANGED files
    PROVE  TypeInv'
BY DEF FallBack, EnterQuota, files, TypeInv, TypeOK, WalkPlace, Found

LEMMA EnterTypeInv ==
    ASSUME TypeInv, NEW s \in Source, Enter(s), StartOf(s) # None, self.readable,
           UNCHANGED files
    PROVE  TypeInv'
<1>1. OnPath' /\ dir' \in Level \cup {Outside} /\ dir' \in Place
  BY EnterOnPath DEF Enter, files, TypeInv
<1> QED
  BY <1>1 DEF Enter, files, TypeInv, TypeOK, WalkPlace

LEMMA AfterTypeInv ==
    ASSUME TypeInv, NEW s \in Source, After(s), self.readable, UNCHANGED files,
           s = "v1effective" => self.cpuset # None
    PROVE  TypeInv'
<1>1. CASE FallBack
  BY <1>1, FallBackTypeInv
<1>2. CASE Enter("v1effective") /\ self.cpuset # None
  BY <1>2, EnterTypeInv DEF StartOf, Source
<1>3. CASE Enter("v1cpus") /\ self.cpuset # None
  BY <1>3, EnterTypeInv DEF StartOf, Source
<1> QED
  BY <1>1, <1>2, <1>3 DEF After, Source

LEMMA EnterQuotaTypeInv ==
    ASSUME TypeInv, NEW s \in QuotaSrc, EnterQuotaWalk(s), StartOf(s) # None,
           UNCHANGED files
    PROVE  TypeInv'
<1>1. OnPath' /\ dir' \in Level \cup {Outside} /\ dir' \in Place
  BY EnterOnPath DEF EnterQuotaWalk, files, TypeInv
<1> QED
  BY <1>1 DEF EnterQuotaWalk, files, TypeInv, TypeOK, WalkPlace

LEMMA AnswerTypeInv ==
    ASSUME TypeInv, NEW q \in QuotaFile \ {NoFile}, Answer(q), UNCHANGED files
    PROVE  TypeInv'
BY DEF Answer, files, TypeInv, TypeOK, WalkPlace

LEMMA AfterQuotaTypeInv ==
    ASSUME TypeInv, NEW s \in QuotaSrc, AfterQuota(s), UNCHANGED files
    PROVE  TypeInv'
<1>1. CASE EnterQuotaWalk("cfs") /\ self.cpu # None
  BY <1>1, EnterQuotaTypeInv DEF StartOf, QuotaSrc
<1>2. CASE Answer(Unlimited)
  BY <1>2, AnswerTypeInv DEF QuotaFile, NoFile, Unlimited
<1> QED
  BY <1>1, <1>2 DEF AfterQuota

LEMMA TargetType ==
    ASSUME TypeOK
    PROVE  Cardinality(avail) \in Nat /\ gomaxprocsTarget \in Nat
<1>1. Cardinality(avail) \in Nat
  BY FS_Subset, FS_CardinalityType DEF TypeOK
<1>2. quota \in Quota => Rounded(quota) \in Int
  BY DEF Rounded
<1> QED
  BY <1>1, <1>2 DEF gomaxprocsTarget

(* A change of one file leaves the trees of files in their types.          *)
LEMMA OneFile ==
    ASSUME NEW S, NEW V, NEW f \in [S -> [Level -> V]],
           NEW s \in S, NEW d \in Level, NEW v \in V
    PROVE  [f EXCEPT ![s][d] = v] \in [S -> [Level -> V]]
OBVIOUS

LEMMA FilesChange ==
    ASSUME FileChange, cpusets \in CpusetTree, quotas \in QuotaTree
    PROVE  cpusets' \in CpusetTree /\ quotas' \in QuotaTree
<1>1. CASE /\ \E s \in Source, d \in Level, set \in CpusetFile :
                  cpusets' = [cpusets EXCEPT ![s][d] = set]
           /\ UNCHANGED quotas
  BY <1>1, OneFile DEF CpusetTree
<1>2. CASE /\ \E s \in QuotaSrc, d \in Level, q \in QuotaFile :
                  quotas' = [quotas EXCEPT ![s][d] = q]
           /\ UNCHANGED cpusets
  BY <1>2, OneFile DEF QuotaTree
<1> QED
  BY <1>1, <1>2 DEF FileChange

LEMMA NextTypeInv ==
    ASSUME TypeInv, [Next]_vars
    PROVE  TypeInv'
<1> USE DEF TypeInv
<1>1. CASE ReadSelfForCpuset
  <2>1. UNCHANGED files
    BY <1>1 DEF ReadSelfForCpuset
  <2>2. CASE FallBack
    BY <2>1, <2>2, FallBackTypeInv
  <2>3. CASE self.readable /\ self.v2 # None /\ Enter("effective")
    BY <2>1, <2>3, EnterTypeInv DEF StartOf, Source
  <2>4. CASE self.readable /\ After("effective")
    BY <2>1, <2>4, AfterTypeInv DEF Source
  <2> QED
    BY <1>1, <2>2, <2>3, <2>4 DEF ReadSelfForCpuset
<1>2. CASE ReadCpuset
  <2>1. UNCHANGED files /\ src \in Source /\ self.readable /\ OnPath /\ TypeOK
    BY <1>2 DEF ReadCpuset, WalkPlace
  <2>2. CASE Intersected(Contents) /\ EnterQuota
    BY <2>1, <2>2 DEF Intersected, EnterQuota, files, TypeOK, WalkPlace
  <2>3. CASE After(src)
    <3>1. src = "v1effective" => self.cpuset # None
      BY <2>1 DEF OnPath, StartOf
    <3> QED
      BY <2>1, <2>3, <3>1, AfterTypeInv
  <2>4. CASE /\ ~AtStop /\ dir' = Parent
             /\ UNCHANGED <<pc, src, avail, quota, target>>
    <3>1. pc = "cpuset" /\ dir \in Level \cup {Outside}
      BY <1>2 DEF ReadCpuset, TypeOK
    <3>2. OnPath' /\ dir' \in Level /\ dir' \in Place
      BY <2>1, <2>4, <3>1, ParentOnPath DEF files
    <3> QED
      BY <2>1, <2>4, <3>1, <3>2 DEF files, TypeOK, WalkPlace
  <2> QED
    BY <1>2, <2>2, <2>3, <2>4 DEF ReadCpuset
<1>3. CASE ReadSelfForQuota
  <2>1. UNCHANGED files
    BY <1>3 DEF ReadSelfForQuota
  <2>2. CASE Answer(Unlimited)
    BY <2>1, <2>2, AnswerTypeInv DEF QuotaFile, NoFile, Unlimited
  <2>3. CASE self.v2 # None /\ EnterQuotaWalk("cpu.max")
    BY <2>1, <2>3, EnterQuotaTypeInv DEF StartOf, QuotaSrc
  <2>4. CASE AfterQuota("cpu.max")
    BY <2>1, <2>4, AfterQuotaTypeInv DEF QuotaSrc
  <2> QED
    BY <1>3, <2>2, <2>3, <2>4 DEF ReadSelfForQuota
<1>4. CASE ReadQuota
  <2>1. UNCHANGED files /\ src \in QuotaSrc /\ OnPath /\ pc = "quota" /\ TypeOK
    BY <1>4 DEF ReadQuota, WalkPlace
  <2>2. CASE ~PassesOver /\ Answer(QuotaContents)
    <3>1. QuotaContents \in QuotaFile \ {NoFile}
      BY <2>1, <2>2 DEF PassesOver, QuotaContents, TypeOK, QuotaTree
    <3> QED
      BY <2>1, <2>2, <3>1, AnswerTypeInv
  <2>3. CASE AfterQuota(src)
    BY <2>1, <2>3, AfterQuotaTypeInv
  <2>4. CASE /\ ~AtStop /\ dir' = Parent
             /\ UNCHANGED <<pc, src, avail, quota, target>>
    <3>1. OnPath' /\ dir' \in Level /\ dir' \in Place
      BY <2>1, <2>4, ParentOnPath DEF files, TypeOK
    <3> QED
      BY <2>1, <2>4, <3>1 DEF files, TypeOK, WalkPlace
  <2> QED
    BY <1>4, <2>2, <2>3, <2>4 DEF ReadQuota
<1>5. CASE Compute
  BY <1>5, TargetType DEF Compute, files, TypeOK, WalkPlace
<1>6. CASE FileChange
  <2>1. UNCHANGED <<self, pc, src, dir, avail, quota, target>>
    BY <1>6 DEF FileChange
  <2>2. changes' \in 0 .. MaxChanges
    <3>1. changes < MaxChanges /\ changes' = changes + 1
      BY <1>6 DEF FileChange
    <3>2. changes \in 0 .. MaxChanges
      BY DEF TypeOK
    <3>3. MaxChanges \in Int
      OBVIOUS
    <3> HIDE DiscoveryAssumption
    <3> QED
      BY <3>1, <3>2, <3>3
  <2>3. cpusets' \in CpusetTree /\ quotas' \in QuotaTree
    BY <1>6, FilesChange DEF TypeOK
  <2>4. TypeOK'
    BY <2>1, <2>2, <2>3 DEF TypeOK
  <2>5. OnPath' = OnPath
    BY <2>1 DEF OnPath, StartOf
  <2> QED
    BY <2>1, <2>4, <2>5 DEF WalkPlace
<1>7. CASE UNCHANGED vars
  BY <1>7 DEF vars, files, TypeOK, WalkPlace, OnPath, StartOf
<1> QED
  BY <1>1, <1>2, <1>3, <1>4, <1>5, <1>6, <1>7 DEF Next, Call

-----------------------------------------------------------------------------
(* The walk of the cpuset files                                            *)

(* Where a walk starts it has passed nothing, and goes by the files as     *)
(* they are.                                                               *)
LEMMA NothingPassed ==
    ASSUME TypeInv, Allowed(cpusets) \in right, NEW s \in Source, Enter(s), UNCHANGED files,
           \A h \in Source : Earlier(h)' => StartOf(h) = None
    PROVE  OneMoment(cpusets)'
<1>1. Allowed(cpusets)' \in right'
  BY AllowedStable DEF files
<1>2. ASSUME NEW h \in Source, NEW d \in Level, d <= StartOf(h)
      PROVE  ~Passed(h, d)'
  <2>1. dir' = StartOf(s) /\ src' = s /\ StartOf(s) \in Int
    BY StartIsPlace, PlaceIsInteger DEF Enter, TypeInv
  <2> QED
    BY <1>2, <2>1 DEF Passed, Level, None
<1>3. \A h \in Source : StartOf(h)' = StartOf(h)
  BY DEF files, StartOf, Source
<1> QED
  BY <1>1, <1>2, <1>3 DEF OneMoment, files, TypeInv, TypeOK

(* The walk has gone through a source when it stops at its end.            *)
LEMMA SourceExhausted ==
    ASSUME TypeInv, pc = "cpuset", Contents = {}, AtStop, NEW c, OneMoment(c)
    PROVE  \A d \in Level : d <= StartOf(src) => c[src][d] = {}
<1> SUFFICES ASSUME NEW d \in Level, d <= StartOf(src)
             PROVE  c[src][d] = {}
  OBVIOUS
<1>1. src \in Source /\ OnPath
  BY DEF TypeInv, WalkPlace
<1>2. dir = 0
  BY <1>1 DEF AtStop, OnPath, Level, Outside
<1>3. CASE d = 0
  <2>1. ~Earlier(src)
    BY DEF Earlier
  <2>2. ~Passed(src, d)
    BY <1>2, <1>3, <2>1 DEF Passed
  <2> QED
    BY <1>1, <1>2, <1>3, <2>2 DEF OneMoment, Contents
<1>4. CASE d # 0
  <2>1. Passed(src, d)
    BY <1>2, <1>4 DEF Passed, Level
  <2> QED
    BY <1>1, <2>1 DEF OneMoment
<1> QED
  BY <1>3, <1>4

LEMMA EarlierEmpty ==
    ASSUME NEW c, OneMoment(c), NEW s \in Source, Earlier(s)
    PROVE  InForce(c, s) = {}
<1>1. \A d \in Level : d <= StartOf(s) => c[s][d] = {}
  BY DEF OneMoment, Passed
<1> QED
  BY <1>1, NoneInForce

(* Going on to the next source.                                            *)
LEMMA NextSource ==
    ASSUME TypeInv, pc = "cpuset", Contents = {}, AtStop, NEW c, OneMoment(c),
           NEW s \in Source, Enter(s), s # src, ~Earlier(s), UNCHANGED files,
           \A h \in Source : Earlier(h)' <=> (Earlier(h) \/ h = src)
    PROVE  OneMoment(c)'
<1>1. Allowed(c)' \in right'
  BY AllowedStable DEF files, OneMoment
<1>2. \A h \in Source : StartOf(h)' = StartOf(h)
  BY DEF files, StartOf, Source
<1>3. dir' = StartOf(s) /\ src' = s /\ StartOf(s) \in Int
  BY StartIsPlace, PlaceIsInteger DEF Enter, TypeInv
<1>4. ASSUME NEW h \in Source, NEW d \in Level, d <= StartOf(h)
      PROVE  c[h][d] = IF Passed(h, d)' THEN {} ELSE cpusets[h][d]
  <2>1. c[h][d] = IF Passed(h, d) THEN {} ELSE cpusets[h][d]
    BY <1>4 DEF OneMoment
  <2>2. CASE h = src
    BY <1>4, <2>2, SourceExhausted DEF Passed
  <2>3. CASE h = s
    <3>1. ~(d > dir')
      BY <1>3, <1>4, <2>3 DEF Level
    <3> QED
      BY <1>3, <2>1, <2>3, <3>1 DEF Passed
  <2>4. CASE h # src /\ h # s
    BY <1>3, <2>1, <2>4 DEF Passed
  <2> QED
    BY <2>2, <2>3, <2>4
<1> QED
  BY <1>1, <1>2, <1>4 DEF OneMoment, files

(* Going up one directory.                                                 *)
LEMMA OneUp ==
    ASSUME TypeInv, pc = "cpuset", Contents = {}, dir \in Level, dir' = dir - 1, src' = src,
           NEW c, OneMoment(c), UNCHANGED files
    PROVE  OneMoment(c)'
<1>1. Allowed(c)' \in right'
  BY AllowedStable DEF files, OneMoment
<1>2. \A h \in Source : StartOf(h)' = StartOf(h) /\ Earlier(h)' = Earlier(h)
  BY DEF files, StartOf, Source, Earlier
<1>4. ASSUME NEW h \in Source, NEW d \in Level, d <= StartOf(h)
      PROVE  c[h][d] = IF Passed(h, d)' THEN {} ELSE cpusets[h][d]
  <2>1. c[h][d] = IF Passed(h, d) THEN {} ELSE cpusets[h][d]
    BY <1>4 DEF OneMoment
  <2>2. CASE h = src /\ d = dir
    <3>1. ~Passed(h, d)
      BY <2>2 DEF Passed, Earlier, Level
    <3> QED
      BY <2>1, <2>2, <3>1 DEF Contents
  <2>3. CASE ~(h = src /\ d = dir)
    <3>1. Passed(h, d)' <=> Passed(h, d)
      <4>1. d \in Int /\ dir \in Int
        BY DEF Level
      <4> QED
        BY <1>2, <2>3, <4>1 DEF Passed
    <3> QED
      BY <2>1, <3>1
  <2> QED
    BY <2>2, <2>3
<1> QED
  BY <1>1, <1>2, <1>4 DEF OneMoment, files

(* The first list that the walk finds is the one in force.                 *)
LEMMA FirstListFound ==
    ASSUME TypeInv, pc = "cpuset", Contents # {}, NEW c, OneMoment(c)
    PROVE  Allowed(c) = Contents \cap BootMask
<1>1. src \in Source /\ self.readable /\ OnPath /\ dir \in Level
  BY DEF TypeInv, WalkPlace, Contents
<1>2. dir <= StartOf(src)
  BY <1>1 DEF OnPath
<1>3. ~Passed(src, dir)
  BY <1>1 DEF Passed, Earlier, Level
<1>4. c[src][dir] = Contents
  BY <1>1, <1>2, <1>3 DEF OneMoment, Contents
<1>5. \A e \in Level : e <= StartOf(src) /\ e > dir => c[src][e] = {}
  BY <1>1 DEF OneMoment, Passed
<1>6. InForce(c, src) = Contents
  BY <1>1, <1>2, <1>4, <1>5, InnermostInForce
<1>7. /\ src \in {"v1effective", "v1cpus"} => InForce(c, "effective") = {}
      /\ src = "v1cpus" => InForce(c, "v1effective") = {}
  BY EarlierEmpty DEF Earlier, Source
<1> QED
  BY <1>1, <1>6, <1>7, AllowedFirst

(* The walk that finds no list leaves the boot mask.                       *)
LEMMA NoListFound ==
    ASSUME TypeInv, pc = "cpuset", Contents = {}, AtStop, NEW c, OneMoment(c),
           \A s \in Source : s = src \/ Earlier(s) \/ StartOf(s) = None
    PROVE  Allowed(c) = BootMask
<1>1. InForce(c, src) = {}
  BY SourceExhausted, NoneInForce
<1>2. \A s \in Source : StartOf(s) = None => InForce(c, s) = {}
  <2>1. \A d \in Level : ~(d <= None)
    BY DEF Level, None
  <2> QED
    BY <2>1, NoneInForce
<1> QED
  BY <1>1, <1>2, EarlierEmpty, AllowedNothing

-----------------------------------------------------------------------------
(* Every step keeps the walk to one moment                                 *)

LEMMA InitWalkInv == Init => WalkInv
BY DEF Init, WalkInv, AvailableWasRight, Found

(* Available answers, with an answer that was right.                       *)
LEMMA AnswerRight ==
    ASSUME WalkInv, EnterQuota, UNCHANGED files, changes <= 1 => avail' \in right
    PROVE  WalkInv'
BY DEF WalkInv, EnterQuota, files, AvailableWasRight, Found

(* The walk goes on.                                                       *)
LEMMA WalkGoesOn ==
    ASSUME TypeInv, pc \in {"self", "cpuset"}, WalkInv, pc' = "cpuset", UNCHANGED files,
           changes <= 1 => \E c \in CpusetTree : OneMoment(c)'
    PROVE  WalkInv'
<1>1. Allowed(cpusets)' \in right'
  BY AllowedStable DEF files, WalkInv
<1> QED
  BY <1>1 DEF WalkInv, files, AvailableWasRight, Found

LEMMA SelfWalkInv ==
    ASSUME TypeInv, WalkInv, ReadSelfForCpuset
    PROVE  WalkInv'
<1>1. UNCHANGED files /\ pc = "self" /\ Allowed(cpusets) \in right
  BY DEF ReadSelfForCpuset, WalkInv
<1>2. PICK c \in CpusetTree : c = cpusets
  BY DEF TypeInv, TypeOK
<1>3. /\ StartOf("effective") = self.v2 /\ StartOf("v1effective") = self.cpuset
      /\ StartOf("v1cpus") = self.cpuset
  BY DEF StartOf
<1>4. CASE ~self.readable /\ FallBack
  <2>1. Allowed(cpusets) = BootMask
    BY <1>4, AllowedNothing
  <2> QED
    BY <1>1, <1>4, <2>1, AnswerRight DEF FallBack
<1>5. CASE self.v2 # None /\ Enter("effective")
  <2>1. \A h \in Source : Earlier(h)' => StartOf(h) = None
    BY <1>5 DEF Enter, Earlier
  <2>2. OneMoment(cpusets)'
    BY <1>1, <1>5, <2>1, NothingPassed DEF Source
  <2>3. OneMoment(c)'
    BY <1>1, <1>2, <2>2 DEF files
  <2>4. pc' = "cpuset"
    BY <1>5 DEF Enter
  <2> QED
    BY <1>1, <2>3, <2>4, WalkGoesOn
<1>6. CASE self.v2 = None /\ Enter("v1effective")
  <2>1. \A h \in Source : Earlier(h)' => StartOf(h) = None
    BY <1>3, <1>6 DEF Enter, Earlier
  <2>2. OneMoment(cpusets)'
    BY <1>1, <1>6, <2>1, NothingPassed DEF Source
  <2>3. OneMoment(c)'
    BY <1>1, <1>2, <2>2 DEF files
  <2>4. pc' = "cpuset"
    BY <1>6 DEF Enter
  <2> QED
    BY <1>1, <2>3, <2>4, WalkGoesOn
<1>7. CASE self.v2 = None /\ self.cpuset = None /\ FallBack
  <2>1. \A s \in Source, d \in Level : ~(d <= StartOf(s))
    BY <1>3, <1>7 DEF Source, Level, None
  <2>2. Allowed(cpusets) = BootMask
    BY <2>1, NoneInForce, AllowedNothing
  <2> QED
    BY <1>1, <1>7, <2>2, AnswerRight DEF FallBack
<1> QED
  BY <1>4, <1>5, <1>6, <1>7 DEF ReadSelfForCpuset, After

LEMMA ReadWalkInv ==
    ASSUME TypeInv, WalkInv, ReadCpuset
    PROVE  WalkInv'
<1>1. UNCHANGED files /\ pc = "cpuset" /\ src \in Source
  BY DEF ReadCpuset, TypeInv, WalkPlace
<1>2. changes <= 1 => \E c \in CpusetTree : OneMoment(c)
  BY <1>1 DEF WalkInv
<1>3. CASE Contents # {} /\ Intersected(Contents) /\ EnterQuota
  <2>1. changes <= 1 => Contents \cap BootMask \in right
    BY <1>1, <1>2, <1>3, FirstListFound DEF OneMoment
  <2> QED
    BY <1>1, <1>3, <2>1, AnswerRight DEF Intersected
<1>4. CASE Contents = {} /\ AtStop /\ After(src)
  <2>1. CASE src = "effective" /\ self.cpuset = None /\ FallBack
    <3>1. \A s \in Source : s = src \/ Earlier(s) \/ StartOf(s) = None
      BY <2>1 DEF Source, StartOf
    <3>2. changes <= 1 => BootMask \in right
      BY <1>1, <1>2, <1>4, <3>1, NoListFound DEF OneMoment
    <3> QED
      BY <1>1, <2>1, <3>2, AnswerRight DEF FallBack
  <2>2. CASE src = "v1cpus" /\ FallBack
    <3>1. \A s \in Source : s = src \/ Earlier(s) \/ StartOf(s) = None
      BY <2>2 DEF Source, Earlier
    <3>2. changes <= 1 => BootMask \in right
      BY <1>1, <1>2, <1>4, <3>1, NoListFound DEF OneMoment
    <3> QED
      BY <1>1, <2>2, <3>2, AnswerRight DEF FallBack
  <2>3. ASSUME NEW s \in Source, Enter(s),
               \/ src = "effective" /\ s = "v1effective"
               \/ src = "v1effective" /\ s = "v1cpus"
        PROVE  WalkInv'
    <3>1. src' = s /\ pc' = "cpuset"
      BY <2>3 DEF Enter
    <3>2. \A h \in Source : Earlier(h)' <=> (Earlier(h) \/ h = src)
      BY <2>3, <3>1 DEF Earlier, Source
    <3>3. s # src /\ ~Earlier(s)
      BY <2>3 DEF Earlier
    <3>4. changes <= 1 => \E c \in CpusetTree : OneMoment(c)'
      BY <1>1, <1>2, <1>4, <2>3, <3>2, <3>3, NextSource
    <3> QED
      BY <1>1, <3>1, <3>4, WalkGoesOn
  <2> QED
    BY <1>1, <1>4, <2>1, <2>2, <2>3 DEF After, Source
<1>5. CASE /\ Contents = {} /\ ~AtStop /\ dir' = Parent
           /\ UNCHANGED <<pc, src, avail, quota, target>>
  <2>1. dir \in Level /\ dir' = dir - 1
    BY <1>1, <1>5 DEF TypeInv, TypeOK, AtStop, Parent, Level, Outside
  <2>2. changes <= 1 => \E c \in CpusetTree : OneMoment(c)'
    BY <1>1, <1>2, <1>5, <2>1, OneUp
  <2> QED
    BY <1>1, <1>5, <2>2, WalkGoesOn
<1> QED
  BY <1>3, <1>4, <1>5 DEF ReadCpuset

(* A file that changes behind the walk leaves it at the moment before the  *)
(* change, one that changes ahead of it takes it to the moment after.      *)
LEMMA ChangeOneMoment ==
    ASSUME TypeInv, WalkInv, FileChange, pc = "cpuset", changes = 0
    PROVE  \E c \in CpusetTree : OneMoment(c)'
<1>1. PICK c \in CpusetTree : OneMoment(c)
  BY DEF WalkInv
<1>2. c = cpusets /\ Allowed(c) \in right
  BY <1>1 DEF OneMoment
<1>3. /\ UNCHANGED <<self, pc, src, dir>> /\ right' = right \cup {Allowed(cpusets')}
      /\ changes' # 0
  <2>1. changes' = changes + 1
    BY DEF FileChange
  <2> QED
    BY <2>1 DEF FileChange
<1>4. \A f : Allowed(f)' = Allowed(f)
  BY <1>3, AllowedStable
<1>5. /\ \A h \in Source : StartOf(h)' = StartOf(h)
      /\ \A h, d : Passed(h, d)' = Passed(h, d)
  BY <1>3 DEF StartOf, Source, Passed, Earlier
<1>6. PICK n \in CpusetTree : n = cpusets'
  BY FilesChange DEF TypeInv, TypeOK
<1>7. ASSUME cpusets' = cpusets
      PROVE  OneMoment(c)'
  BY <1>1, <1>2, <1>3, <1>4, <1>5, <1>7 DEF OneMoment
<1>8. ASSUME NEW s \in Source, NEW d \in Level, NEW set \in CpusetFile,
             cpusets' = [cpusets EXCEPT ![s][d] = set]
      PROVE  OneMoment(c)' \/ OneMoment(n)'
  <2>1. \A h \in Source, e \in Level :
            cpusets'[h][e] = IF h = s /\ e = d THEN set ELSE cpusets[h][e]
    BY <1>8 DEF TypeInv, TypeOK, CpusetTree
  <2>2. CASE Passed(s, d)
    <3>1. ASSUME NEW h \in Source, NEW e \in Level, e <= StartOf(h)
          PROVE  c[h][e] = IF Passed(h, e) THEN {} ELSE cpusets'[h][e]
      <4>1. c[h][e] = IF Passed(h, e) THEN {} ELSE cpusets[h][e]
        BY <1>1, <3>1 DEF OneMoment
      <4> QED
        BY <2>1, <2>2, <4>1
    <3> QED
      BY <1>2, <1>3, <1>4, <1>5, <3>1 DEF OneMoment
  <2>3. CASE ~Passed(s, d)
    <3>1. ASSUME NEW h \in Source, NEW e \in Level, e <= StartOf(h)
          PROVE  n[h][e] = IF Passed(h, e) THEN {} ELSE cpusets'[h][e]
      <4>1. cpusets[h][e] = IF Passed(h, e) THEN {} ELSE cpusets[h][e]
        BY <1>1, <1>2, <3>1 DEF OneMoment
      <4> QED
        BY <1>6, <2>1, <2>3, <4>1
    <3>2. Allowed(n)' \in right'
      BY <1>3, <1>4, <1>6
    <3> QED
      BY <1>3, <1>5, <1>6, <3>1, <3>2 DEF OneMoment
  <2> QED
    BY <2>2, <2>3
<1> QED
  BY <1>6, <1>7, <1>8 DEF FileChange

LEMMA ChangeWalkInv ==
    ASSUME TypeInv, WalkInv, FileChange
    PROVE  WalkInv'
<1>1. changes \in Nat /\ changes' = changes + 1
  <2>1. changes \in 0 .. MaxChanges
    BY DEF TypeInv, TypeOK
  <2> QED
    BY <2>1 DEF FileChange
<1>2. changes' <= 1 => changes = 0
  BY <1>1
<1>3. UNCHANGED <<self, pc, src, dir, avail>>
  BY DEF FileChange
<1>4. pc \in {"self", "cpuset"} => Allowed(cpusets)' \in right'
  BY <1>3, AllowedStable DEF FileChange
<1>5. pc = "cpuset" /\ changes' <= 1 => \E c \in CpusetTree : OneMoment(c)'
  BY <1>2, ChangeOneMoment
<1>6. AvailableWasRight'
  <2>1. Found => right' = right
    BY DEF Found, FileChange
  <2>2. changes' <= 1 => changes <= 1
    BY <1>2
  <2> QED
    BY <1>3, <2>1, <2>2 DEF WalkInv, AvailableWasRight, Found
<1> QED
  BY <1>3, <1>4, <1>5, <1>6 DEF WalkInv

LEMMA NextWalkInv ==
    ASSUME TypeInv, WalkInv, [Next]_vars
    PROVE  WalkInv'
<1>1. ASSUME Found, Found', UNCHANGED <<files, avail>>
      PROVE  WalkInv'
  BY <1>1 DEF WalkInv, AvailableWasRight, Found, files
<1>2. CASE ReadSelfForQuota
  <2>1. Found /\ Found' /\ UNCHANGED <<files, avail>>
    BY <1>2 DEF ReadSelfForQuota, AfterQuota, EnterQuotaWalk, Answer, Found
  <2> QED
    BY <1>1, <2>1
<1>3. CASE ReadQuota
  <2>1. Found /\ Found' /\ UNCHANGED <<files, avail>>
    BY <1>3 DEF ReadQuota, AfterQuota, EnterQuotaWalk, Answer, Found
  <2> QED
    BY <1>1, <2>1
<1>4. CASE Compute
  <2>1. Found /\ Found' /\ UNCHANGED <<files, avail>>
    BY <1>4 DEF Compute, Found
  <2> QED
    BY <1>1, <2>1
<1>5. CASE UNCHANGED vars
  <2>1. UNCHANGED <<files, pc, src, dir, avail>>
    BY <1>5 DEF vars
  <2>2. Allowed(cpusets)' = Allowed(cpusets)
    BY <2>1, AllowedStable DEF files
  <2>3. \A c : OneMoment(c)' = OneMoment(c)
    <3>1. \A c : Allowed(c)' = Allowed(c)
      BY <2>1, AllowedStable DEF files
    <3>2. \A h \in Source : StartOf(h)' = StartOf(h)
      BY <2>1 DEF files, StartOf, Source
    <3>3. \A h, d : Passed(h, d)' = Passed(h, d)
      BY <2>1 DEF Passed, Earlier
    <3> QED
      BY <2>1, <3>1, <3>2, <3>3 DEF OneMoment, files
  <2> QED
    BY <2>1, <2>2, <2>3 DEF WalkInv, files, AvailableWasRight, Found
<1> QED
  BY <1>2, <1>3, <1>4, <1>5, SelfWalkInv, ReadWalkInv, ChangeWalkInv DEF Next, Call

-----------------------------------------------------------------------------
(* The target                                                              *)

LEMMA Division ==
    ASSUME NEW q \in Nat, NEW n \in Nat \ {0}
    PROVE  q \div n \in Nat /\ (q \div n) * n <= q /\ q < (q \div n + 1) * n
OBVIOUS

LEMMA TargetRight ==
    ASSUME TypeOK, NEW t, t = gomaxprocsTarget
    PROVE  /\ t >= 1
           /\ t > 1 => t <= Cardinality(avail)
           /\ t > 1 /\ quota \in Quota => t * Unit <= quota
           /\ t < Cardinality(avail) => quota \in Quota /\ (t + 1) * Unit > quota
<1> DEFINE size == Cardinality(avail)
           r    == Rounded(quota)
           n    == IF quota \in Quota /\ r < size THEN r ELSE size
<1>1. size \in Nat
  BY TargetType
<1>2. quota \in Quota => /\ quota \in Nat /\ r \in Nat
                         /\ r * Unit <= quota /\ quota < (r + 1) * Unit
  BY Division DEF Rounded
<1>3. t = IF n < 1 THEN 1 ELSE n
  BY DEF gomaxprocsTarget
<1>4. Unit \in Nat \ {0}
  OBVIOUS
<1>5. CASE quota \in Quota /\ r < size
  <2> HIDE DiscoveryAssumption
  <2> HIDE DEF size, r
  <2>1. t = IF r < 1 THEN 1 ELSE r
    BY <1>3, <1>5
  <2>2. CASE r = 0
    BY <1>1, <1>2, <1>4, <1>5, <2>1, <2>2
  <2>3. CASE r # 0
    <3>1. t = r /\ t >= 1 /\ t < size
      BY <1>1, <1>2, <1>5, <2>1, <2>3
    <3>2. t * Unit <= quota /\ (t + 1) * Unit > quota
      <4>1. t * Unit <= quota /\ quota < (t + 1) * Unit
        BY <1>2, <1>5, <3>1
      <4>2. (t + 1) * Unit \in Int /\ quota \in Int
        BY <1>2, <1>4, <1>5, <3>1
      <4> QED
        BY <4>1, <4>2
    <3>3. t \in Int /\ size \in Int
      BY <1>1, <1>2, <1>5, <3>1
    <3> QED
      BY <1>5, <3>1, <3>2, <3>3 DEF size
  <2> QED
    BY <2>2, <2>3 DEF size
<1>6. CASE quota \in Quota /\ ~(r < size)
  <2>1. t = IF size < 1 THEN 1 ELSE size
    BY <1>3, <1>6
  <2>2. size * Unit <= r * Unit
    <3> HIDE DiscoveryAssumption
    <3> HIDE DEF size, r
    <3> QED
      BY <1>1, <1>2, <1>4, <1>6
  <2> HIDE DiscoveryAssumption
  <2> HIDE DEF size, r
  <2> QED
    BY <1>1, <1>2, <1>4, <1>6, <2>1, <2>2 DEF size
<1>7. CASE quota \notin Quota
  BY <1>1, <1>3, <1>7
<1> QED
  BY <1>5, <1>6, <1>7

-----------------------------------------------------------------------------
(* The theorems                                                            *)

LEMMA NextTarget ==
    ASSUME TypeInv, TargetIsTheMinimum, [Next]_vars
    PROVE  TargetIsTheMinimum'
<1>1. CASE Compute
  <2>1. target' = gomaxprocsTarget /\ UNCHANGED <<avail, quota>>
    BY <1>1 DEF Compute
  <2>2. TypeOK
    BY DEF TypeInv
  <2> QED
    BY <2>1, <2>2, TargetRight DEF TargetIsTheMinimum
<1>2. CASE Call /\ ~Compute
  <2>1. pc' # "done"
    <3>1. \A s \in Source : After(s) => pc' # "done"
      BY DEF After, Source, Enter, FallBack, EnterQuota
    <3>2. CASE ReadSelfForCpuset
      BY <3>1, <3>2 DEF ReadSelfForCpuset, Source, Enter, FallBack, EnterQuota
    <3>3. CASE ReadCpuset
      BY <3>1, <3>3 DEF ReadCpuset, EnterQuota, TypeInv, WalkPlace
    <3>4. CASE ReadSelfForQuota \/ ReadQuota
      BY <3>4 DEF ReadSelfForQuota, ReadQuota, AfterQuota, EnterQuotaWalk, Answer
    <3> QED
      BY <1>2, <3>2, <3>3, <3>4 DEF Call
  <2> QED
    BY <2>1 DEF TargetIsTheMinimum
<1>3. CASE FileChange
  <2>1. pc' # "done"
    BY <1>3 DEF FileChange
  <2> QED
    BY <2>1 DEF TargetIsTheMinimum
<1>4. CASE UNCHANGED vars
  BY <1>4 DEF vars, TargetIsTheMinimum
<1> QED
  BY <1>1, <1>2, <1>3, <1>4 DEF Next

LEMMA InductiveInv == Spec => [](TypeInv /\ WalkInv /\ TargetIsTheMinimum)
<1>1. Init => TypeInv /\ WalkInv /\ TargetIsTheMinimum
  BY InitTypeInv, InitWalkInv DEF Init, TargetIsTheMinimum
<1>2. TypeInv /\ WalkInv /\ TargetIsTheMinimum /\ [Next]_vars
        => (TypeInv /\ WalkInv /\ TargetIsTheMinimum)'
  BY NextTypeInv, NextWalkInv, NextTarget
<1> QED
  BY <1>1, <1>2, PTL DEF Spec

(* Every variable stays in its type, and a walk stays on the path from the *)
(* process's own directory up to the root of the mount, however deep it is *)
(* and whatever the walk reads: the loops of readCpusetUpward and QuotaCPUs*)
(* look outside the mount only for a process that /proc/self/cgroup puts   *)
(* there.                                                                  *)
THEOREM TypeCorrect == Spec => []TypeInv
BY InductiveInv, PTL

(* The walk of Available takes place at one moment: when at most one file  *)
(* changes under it, the answer is the one that the order v2, v1 effective,*)
(* v1 configured and the innermost-directory rule give for the files as    *)
(* they were at some moment of the call, for mounts of any depth and any   *)
(* contents of the files.                                                  *)
THEOREM AvailableTakesOneMoment == Spec => []AvailableWasRight
<1>1. WalkInv => AvailableWasRight
  BY DEF WalkInv
<1> QED
  BY <1>1, InductiveInv, PTL

(* The GOMAXPROCS target is the lesser of the cores and of the whole CPUs  *)
(* of the quota, and at least 1, whatever changed between the two calls.   *)
THEOREM TargetBoundedAndTight == Spec => []TargetIsTheMinimum
BY InductiveInv, PTL

=============================================================================
