# go-cpupin in TLA+

go-cpupin plans which CPU cores the roles of a Go program run on, pins
goroutines to them, fences everything else onto a housekeeping set, and steers
UDP packets to the reader on the core that received them. This directory models
the parts of it whose correctness depends on order and interleaving, checks them
with TLC and proves the main results with TLAPS.

## 1. The system

| Component | Source | State | Operations | What makes it correct |
|---|---|---|---|---|
| CPUSet | `cpuset.go` | a sorted slice, immutable | parse, print, search, union, ... | it is a set: every operation leaves its list in order and without duplicates, as the binary search of the next one needs |
| Planner | `plan.go` 44-234 | locals of one call | `buildPlan`, `pickExclusive` | exclusive cores belong to one role; refusal only on real shortage; collisions reported |
| Affinity | `pin_linux.go`, `maxprocs.go`, `plan.go` 236-291 | the kernel's mask of every thread, the Go scheduler's locked threads | `Apply`, `Pin`, `Unpin`, `SetProcessMask`, `SetGOMAXPROCS` | the fence covers every thread; a pin is what was asked for or an error; every path gives the thread back as it was |
| Discovery | `discover.go`, `discover_linux.go` | none; files of cgroupfs | `Available`, `QuotaCPUs`, `gomaxprocsTarget`, `readSiblings` | the answer is the cpuset in force; walks end; the target is bounded |
| Steering | `steer.go`, `steer_linux.go` | the attached program | `SteerReuseport`, `SetIncomingCPU` | core i's packets reach socket i, any other packet some socket |
| Diagnostics | `diag.go`, `diag_linux.go` | none | `CheckAlignment` | silence means that interrupts and readers agree |
| udpecho | `example/udpecho` | sockets, readers, counters, histograms | set up, serve, report | reads are aligned; packets are accounted for; the report is consistent |
| udploadgen | `example/udploadgen` | flows, counters | lock-step flow, flood, drain, probe | counts and losses mean what they say; the pacer keeps its rate; a run ends |
| A/B harness | `bench/docker/run-ab.sh` | containers, a network | two arms, report | it removes what it made and nothing else |
| Stubs | `*_other.go`, `cpupin.go` | none | return `ErrUnsupported` | - |

How they interact: `Build` calls `Available` and `readSiblings` and hands the
result to `buildPlan`. `Plan.Apply` calls `SetProcessMask` with the housekeeping
cores and then `SetGOMAXPROCS`; `Plan.Pin` maps a thread index to a core and calls
`PinSelf`. All of them call `Available`, which must not see the masks they write,
so it uses the mask captured at package init. They share one mutable thing, the
affinity masks in the kernel, which the Go runtime (new threads inherit), the
container manager (cpusets) and the callers change concurrently. `SteerReuseport`
gets the cores of one role; the caller's bind order is the other half of its map.
udpecho puts everything together.

The hard behaviour is therefore: a sweep over threads that multiply while it
runs; values that are stale once the cpuset changes; five return paths after the lock that
must undo different amounts of work; files that change under a walk; and packets that
arrive while sockets, program and readers are still being set up; a check that reads
one interrupt after the other while irqbalance moves them; and echoes that come late,
twice, as errors or never. `PROJECT.json`
lists each hazard at its line, with the property that would catch it or the
reason why none does.

## 2. The modules

Each component is a module with the state machine, a `...Properties` module, an
`MC...` module with the constants of the runs, and `...Proofs` modules where
something is proved. How they build on each other:

    SteerTable, Steering, Echo  extend SteerMap, the map from CPUs to sockets
    Steering                    implements SteerTable (INSTANCE ... WITH)
    Alignment                   extends Steering and CPUSet
    Affinity                    assumes of its plan what is proved of Planner
    Discovery, LoadGen          stand alone

Operators marked "Mutant" are plausible bugs: replacing the
definition they precede by them makes TLC find a property violated.

**Planner.** One call of `buildPlan`. `phase` is the loop, `i` its iteration, `err`
the error returned; `alloc`, `remaining`, `exclusiveTaken`, `nonexPool` and
`warnings` are the variables of the code. One action per iteration of each
loop (`ValidateRole`, `ClaimExplicit`, `AllocExclusive`, `AllocShared`,
`AllocHousekeeping`), one each for the pairwise exclusivity check and the sibling
warnings, which only read. A plan is deterministic, so the only choice is the
input. Core lists are sets; `take[:n]` is `FirstN`; the greedy walk of
`pickExclusive` is a recursive function. Warnings are records; texts are left out.

**Affinity.** The main goroutine runs `Apply` once, workers run `Pin` and `Unpin`,
every system call is a step. `mask[t]` is the kernel's mask of thread t; `apply`,
`pass`, `pending`, `done` are the sweep; `pc`, `on`, `locks`, `depth`, `frames` are a
worker's place in `PinSelf`, its thread, its `LockOSThread` count and what the
closures of its nested pins hold. The environment starts threads from pool
threads, ends idle ones and changes the cpuset. `ESRCH`, the pass limit, the
narrowing readback and every error return after the lock are there: `PinLock` is
`LockOSThread` with the first `sched_getaffinity` and its failure. `Faults` lets system calls
fail for reasons that are not modelled, the restores of `PinSelf` and `Unpin` included, whose error
the code drops. A thread that such a restore leaves with a pin's mask is `tainted`, with
the threads it starts; `MaxLost` bounds how many there are when a restore may fail. The plan is a constant that satisfies what
Planner checks of every plan (`PlanIsolation`).

**Discovery.** One call of `gomaxprocsTarget`, that is of `Available` and then
`QuotaCPUs`. `pc`, `src`, `dir` say which file is read next, one file per step (the
two v1 quota files of a directory are one step). A directory is its distance from
the mount root. Files hold what their parser returns for them. `FileChange`
rewrites a file between two reads; `right` collects the answers that were right at
some moment of the call. One change leaves the walk with such an answer; two need not, and
nothing is claimed of them.

**Steering, SteerTable, SteerMap.** `buildSteerProgram` builds the program as a
function from addresses to instructions; the actions are the five instructions it
uses, run by the kernel for one packet, and `Receive`, the next packet. `SteerTable`
is what the doc comments promise, a look-up in one step; `Steering` implements it
under the mapping that hides the instruction pointer and the accumulator
(`ImplementsTable`). `SteeredTo` is the map itself, on which `Echo` relies.

**CPUSet.** The operations of `cpuset.go` as operators on ascending lists, written as
the code computes them: deduplication and sort, a binary search by halves, intersection
and difference by searching, the kernel's list syntax in both directions. Text is
the sequence of its elements between commas, each the numbers around its dash
(`Element`). `sort.Ints` is external: `Sorted` has at place k the core with k - 1 smaller
ones.

**Alignment.** `CheckAlignment` reads one file per step: the receive queues, the device
link, `/proc/interrupts`, then the affinity list of every interrupt that matched,
each of which `AffinityChange` may rewrite at any time. Findings are kinds, not
sentences. When the check is over, `Steering` takes packets, as in udpecho, where
it is the last thing before the readers run.

**Echo.** udpecho: `main` walks through build, bind, attach, spawn, serve, and the
report after the signal, with each read of a counter and of a histogram a step;
`Reader(i)` pins, reads, counts, samples and sends. `Deliver` is the kernel, active
from the first bind: it picks a socket by hash until the program is attached and by
the verdict that `Steering` establishes afterwards, and drops when the buffer is
full. A `log.Fatalf` of any goroutine ends the process. The mutex of a histogram
makes its record and format atomic, as they are here.

**LoadGen.** udploadgen in both modes. A lock-step loop sends, reads at most twice and
counts an echo that carries its last sequence number (`Send`, `ReadEcho`,
`ReadStale`, `ReadFails`). In a flood the main goroutine paces (`Tick`, `FloodWrite`)
while one drain per socket reads and then counts (`DrainRead`, `DrainCount`: two
steps, between which the sockets may be closed) and a lock-step loop probes the
latency. `main` then waits for the probe, lets the grace period pass, closes, waits
for the drains and reports. The network loses, duplicates, reorders and refuses;
a refusal is an error pending on the socket, which the next call returns.
Unsigned subtraction wraps at `Width`.

## 3. The runs

| Run | What it asks | Bounds |
|---|---|---|
| `planner` | isolation, refusal exactly on shortage, last-resort sharing, leftovers, final allocations, sibling warnings, and the inductive invariant | every Spec of up to three roles from eleven shapes and both overlap settings, on five machines of up to four cores |
| `plan_threaded_housekeeper`, `plan_housekeeper_siblings` | two statements of `plan.go` that the code does not keep | as above |
| `affinity_ordered` | the fence, isolation, own cores, GOMAXPROCS, locks, the inductive invariant; `Apply` before any `Pin` | 3 thread slots, 2 workers, 2 nested pins, thread indices 0 and 1, the real 10 passes, failing calls, restores that fail while no thread is tainted |
| `affinity_unordered` | pins and restores when `Pin` races `Apply` and the cpuset changes; `Apply` and `PinSelf` return | 2 thread slots, 1 worker, 2 nested pins, 1 pass, 1 cpuset change, failing calls, restores that fail while no thread is tainted |
| `sweep_pass_limit` | the comment of `SetProcessMask` taken at its word | 2 thread slots, the real 10 passes |
| `discovery` | a walk stays on its path, its answer was right at some moment, the target is the minimum of cores and quota, walks end | 2 directories, 1 change, v1, v2, both, outside the mount, unreadable |
| `quota_nested` | the comment of `QuotaCPUs` taken at its word | as above, no change |
| `steering` | the program implements the table; a silent check means that packets stay local; core lists are sets | all 15 core sets among CPUs 0, 1, 2, 5; two interrupts with six texts each or masked, one rewrite; hosts with one file missing |
| `echo` | alignment, locality of the histograms, accounting, the report, no packet stuck, the inductive invariant | 2 readers, 3 CPUs, 3 packets, a buffer of 1, a sample every 2 packets |
| `loadgen` | what the loss figures count, the pacer, a final report, a run that ends | 2 flows and the probe, 3 packets on the first and 1 on the other sockets, 3 ticks, a pacer that misses one tick or reads its clock two ticks late, 1 duplicate, 1 loss or refusal |
| `pacer_wrap` | the comment of `floodSend` taken at its word | as above |

Why the bounds are enough. Three roles are the smallest number at which
a role is served between two others, and four cores give two sibling pairs; the
shapes include every way two explicit lists can overlap. Three thread slots let a
thread appear in a pass, be its creator's only witness and disappear again,
while a slot that was freed stands for a fresh tid; two workers can hold two
threads and leave one. What `affinity_unordered` asks is about one worker and one thread,
against a sweep and a cpuset that write to it: one worker and the thread that the sweep leaves in the
pool are enough for that, two nested pins for a restore that is not to the pool's mask, one pass for
a sweep that ends before, during and after a pin; the theorems say the same of its two
invariants for any number of each. Its two liveness properties are checked without a second
worker that competes for a thread: a worker that holds its thread still waits for nothing but its own
calls, and the sweep for none of the workers, but two that contend for the last thread are
left out. Thread indices are 0 and 1, so that `idx % len(cores)` never wraps in the runs;
`PlannerServes` and `OwnCores` cover it. The process's own directory and one above it are
enough for a leaf without files and for nested limits. The steering program has
one pair of instructions per core, so three cores show its first, a middle and
its last pair. In udpecho one packet may be held, one queued and one dropped or
steered elsewhere; index and core id modulo the number of readers disagree for
both cores. In udploadgen, three packets let an echo that was given up as lost be taken
for a stale one twice; the sample cap of 3 is below the estimate of 4, so both bounds bite;
a burst of 2 ticks (4 in the code) is exceeded by a pacer that starts late; and
a network with one fault and one duplicate can make the probe, a drain or a
loop the one that suffers. Of Alignment's texts one is empty, one wider than some
core sets, one unsorted, two malformed. What the bounds leave out, the
proofs of section 4 cover for all components, liveness excepted.

Fairness. `affinity_unordered` assumes that the main goroutine and a goroutine
inside `PinSelf` are scheduled again and again, and that the runtime starts a
thread when a goroutine can run and none is free; strong fairness is needed only for
getting a thread, which other goroutines may take first. Nothing is assumed about
callers, thread exit or the cpuset. `discovery` assumes that a call goes on.
`echo` assumes that runnable goroutines run and that a reader with a queued packet
is woken; no signal need come, and a reader that failed is not expected to read.
`loadgen` assumes that goroutines run, that read deadlines pass and
tickers tick; no packet need come back. `discovery`, `echo` and `loadgen` end, so
they are not checked for deadlock; `Planner` ends in an
explicit stutter and the other specifications never stop.

Five runs expect a violation and record where a comment and the code
part: an exclusive housekeeping role with threads does not get the leftovers;
leftovers are not checked for sibling collisions; the sweep returns nil after ten
passes with threads left; a quota above the process's own cgroup is not seen; and the pacer
of a flood may get ahead of its rate. For the last one, `floodSend` makes its ticker before it
reads the clock (`udploadgen/main.go` 265-268). If more than a tick passes between the
two, the first tick is older than the clock, and the target of line 278 is negative: where
the conversion to `uint64` wraps, that tick sends a full burst, `target - sent` then wraps
at the next ticks, and full bursts follow where the comment (245-248) promises a cumulative
target. `pacer_wrap` finds it (`NeverAheadOfTarget`); what holds of every run (`PacerHolds`) is
the rotation over the sockets and one full burst per tick, and the rate when the
clock was read by the first tick.

## 4. The proofs

All theorems hold for every value of the constants that satisfies the named
assumptions of the modules, and none is taken on trust. Every invariant and every
action property of the passing runs is a theorem, with the refinement of
`SteerTable`; the runs show the same statements on the instances of section 3. TLC
checked each inductive invariant below on these instances before it was proved.

* `PlannerProofs`, for any number of roles, any cores and any sibling map
  (`FinitenessAssumption`: the available cores of each input are finitely many). Four
  invariants, each proved on top of the ones before it:
  * `IInv`: the index holds exactly the roles seen, `remaining` is disjoint from every
    claim, the pool for wrapping holds no exclusive or explicit core, and at every
    moment only two explicit claims can clash. `ExclusiveIsolation` by itself is not
    inductive: it speaks of finished plans only. It gives `PlannerTypes`,
    `PlannerIsolates` and `PlannerClashesAreExplicit`.
  * `ServedInv`: phases go in order, each role of a phase that is over holds cores, a role
    of a later one holds none, and every claim is of available cores. It gives
    `PlannerServes` (`PinTargetsExist`) and `PlannerIsFinal` (`AllocationsAreFinal`), and
    with `PlannerIsolates` discharges for any Spec what `PlanIsolation` assumes of the
    plan in Affinity.
  * `PoolInv`, which cores are where: an available core is in `remaining` or claimed, each
    pool is exactly what its phase made it, a shared core means that the pool had been
    used up. It gives `PlannerLosesNoCore` (`LeftoversComplete`), `PlannerSharesLast`
    (`SharingIsLastResort`) and `PlannerReportsCollisions` (`CollisionsReported`).
  * `CountInv`, how many there are: `remaining` has what the automatic roles passed so far
    have left of the supply, and a shared role has its threads or the whole pool and a
    warning. It gives `PlannerRefusesExactly` (`RefusedExactlyWhenShort`: a plan is
    refused if and only if the cores do not suffice, and then in the first phase that
    the Spec cannot pass; in phases 2 and 3 at the first role whose threads, with those
    served before it, exceed the supply: `Justified`) and
    `PlannerGivesOrWarns` (`ShortOnlyWhenPoolExhausted`).

  `PlannerCollidesWhenForced` (`CollisionOnlyWhenForced`) shows that the greedy walk of
  `pickExclusive` is as good as a search: as soon as it takes a core with a sibling in use,
  every harmless core that is left is a sibling of one it took, so a harmless choice of as many
  cores would map one to one into the walk's own and could not be larger. It needs the
  sibling map to be what hardware has, symmetric and transitive (`Topology`).
* `AffinityProofs`, for any threads, workers, nesting, plan and pass limit.
  `AInv` says that every thread in `done` has the mask (so a listing
  without a new tid proves the fence), that a thread started by a pool thread
  inherits it, and that a worker's frames form a stack in which each frame restores what the
  one below it set, but for threads that a failed restore left behind. It gives `AffinityTypes`,
  `LocksAreBalanced` (every return after `LockOSThread`, the failed first
  `sched_getaffinity` included), `FenceHolds`,
  `IsolationHolds` and `PlanHasProcessors` (`GomaxprocsCoversPlan`). `PinsHold` (`PinHolds`),
  `ThreadsComeBack` (`PoolMaskRestored`) and `WorkersHaveOwnCores` (`OwnCores`) hold in whatever
  order `Apply` and `Pin` run and however often the cpuset changes, for threads
  that nobody else has written and no restore has failed on. `AInv` says nothing about pins once the cpuset has changed;
  `PinInv` does: the pins of a worker are levels, the lowest the mask its thread was taken
  with; each level is a mask the kernel would grant in full, each frame restores the level below
  it, and the thread is at the top one unless a readback is due. A sweep, a cpuset change or a failed
  restore marks the thread instead.
* `DiscoveryProofs`, for mounts of any depth and any contents of the files: `TypeCorrect`
  (`TypeInv`: a walk is on the way up from the process's own directory to the root of the
  mount; only a process whose own path lies outside the mount is looked for there, since the
  code reads before it compares prefixes), `AvailableTakesOneMoment` (`AvailableWasRight`) and
  `TargetBoundedAndTight` (`TargetIsTheMinimum`). `WalkInv` follows the walk: the files
  behind it were empty when it read them, and with at most one change there was one moment at which
  they were and those ahead of it were as they are now. The attempt to prove more showed
  that two changes defeat it: a list that appears behind the walk and then another one ahead
  of it. The answer is then right at no moment, and `AvailableWasRight` says so.
* `SteeringProofs`, for any list of reader cores on a machine of any size:
  `SteeringInvariant`, `Steers` and `SteeringImplementsTable`. A run that stands at
  an instruction has passed only cores that are not the packet's, so every instruction
  but the returns is a stutter of the table, and a return is its look-up. For the check that
  comes before: `CheckingSteers` (`AlignSpec => Spec`: it leaves the steering alone) and
  `SilenceIsLocal` (`SilentMeansLocal`), for any machine, any affinity lists and any
  rewrites of them. `AlignInv` says that as long as nothing was found, every matched
  interrupt but those still to read was read, parsed, and lies within the reader cores; it needs what
  `ParseCPUSet` and `Difference` compute, that is `CPUSetProofs`. `AlignmentAssumption`
  says that texts are texts, that an unreadable file is none, and that there are finitely
  many interrupts.
* `CPUSetProofs`, for lists and texts of any length: what each operation of `cpuset.go`
  computes. Loops are folds, which the library defines by recursion over the set of
  places, by its largest; a smallest set of places at which the fold is not defined, or not
  of its type, does not exist. Then each loop has an invariant over its rounds.
  `HasIsMembership` is the binary search: the only first place from `i` to
  `j` at which the core is not smaller is that of the half it goes on with. Sorting is by rank:
  the number of smaller members grows strictly, so each place has one core, and a set has
  one ascending list (`OneList`). `CoreSetsAlways` (`CoreSetsAreSets`, in `SteeringProofs`) puts
  them together.
* `EchoProofs`, for any number of readers, lists of cores, packets and buffers:
  `ReadsAreAligned` (`AlignedReads`), `HistogramsShowLocality` (`HistogramsAreLocal`),
  `EveryPacketAccounted` (`PacketsAccounted`) and `ReportsAreConsistent`
  (`ReportConsistent`). `EInv` follows a packet: the group is in bind order and complete before
  the program is attached, so a steered packet enters the socket of its core's
  index; it stays with that socket until it is read; and a reader that can read is
  pinned to the core of the same index. A socket knows only CPUs that are steered to
  it or came before the attach, and so does a FINAL line, whenever it was printed. The
  accounting is a sum over all readers, of which each step changes at most two terms. `ReportInv` dates the lines of a report: each was read after
  the signal and no counter falls.
* `LoadGenProofs`, for any number of flows, packets, duplicates and losses
  (`WidthAssumption`: nothing that a run can send or come to owe wraps a counter, as on
  64 bits): `LoadGenTypes`, `LossIsHonestAlways`, `PacerKeepsTheRate` (`PacerHolds`)
  and `ReportIsTheLastWord` (`ReportIsFinal`). `LInv` has four parts. A lock-step loop has read two
  stale packets for every packet it gave up without an error, and a packet on the way is
  stale, a duplicate or still waited for, so without duplicates and refusals no echo is taken for
  a loss. The pacer has written once more on the sockets before its next one than on the
  others. It sends at most a burst per tick, and is never ahead of its clock, if that was read by
  the first tick. And what a flood has sent has been counted, is about to be, or is on its way, but
  for what the network lost and repeated.
* `SumProofs`: the sums of the community modules over finite sets, on which the last two rest:
  a sum does not depend on the order in which the fold takes its elements, and changes by what one
  of its terms does. Induction over sets is put as: there is no smallest
  set without the property.

Model-checked only: liveness (`ApplyReturns`, `PinReturns`, `WalkEnds`, `QueuedAreRead`,
`RunEnds`), since the prover has neither fairness nor ENABLED.

## 5. What is not modelled, and the plan

Not modelled:

* The harness `run-ab.sh`: a shell script around docker. Its one protocol, who owns the
  network across a killed run, is listed as a hazard without a property.
* The off-Linux stubs, which return an error and keep no state.
* `SetIncomingCPU`, one setsockopt; the progress line and the `/proc/net/snmp` line of
  udpecho, `Plan.String`: they change no state.
* A failure of `sched_getaffinity` at package init; Unpin called twice or out of order,
  about which the code promises nothing.
* udploadgen: latencies as numbers (their count, cap and ranks are there), the pacing of a
  lock-step loop, packet sizes. The match of an interrupt's line by substring is a flag of the
  line.

The fence is claimed as long as the cpuset stays: the code has no defence
against the kernel rewriting masks, and the model does not claim one. The kernel
parts (affinity calls, thread creation, reuseport selection, classic BPF,
`SO_INCOMING_CPU`, sockets and the network) are modelled from how the code uses
them and marked external.

The plan; what is done:

1. Planner, Affinity, Discovery, Steering and Echo with their properties and runs.
2. LoadGen, CPUSet, Alignment with theirs; Alignment composed with Steering.
3. `SteerTable` as the abstract specification of Steering, with the refinement proved.
4. Proofs of every safety property that a run checks, for all components.

What is left, most useful first:

5. Abstract specifications of the other components, and the proof that these implement them:
   a fence that takes effect at once and an atomic pin (for Affinity), an allocation
   contract (for Planner).
6. How far Discovery is from the truth when more than one file changes under a walk.
7. The ownership protocol of run-ab.sh across crashes.
