\* Apply before any Pin, as plan.go asks, with system calls that fail.
CONSTANTS
    readers = readers
    house = house
    log = log
    t1 = t1
    t2 = t2
    t3 = t3
    w1 = w1
    w2 = w2
    NoRole = NoRole
    NoTid = NoTid
    RoleName = {readers, house, log}
    Housekeeping = house
    Plan <- MCPlan
    Core <- MCCore
    BootMask <- MCCore
    Cpusets <- MCCpusets
    Tid = {t1, t2, t3}
    InitThreads = {t1, t2}
    Worker = {w1, w2}
    MaxIdx = 1
    MaxDepth = 2
    MaxPasses = 10
    MaxChanges = 0
    MaxLost = 1
    Ordered = TRUE
    Faults = TRUE
    CgroupReadable = TRUE
    QuotaCPUs = 8
SPECIFICATION Spec
SYMMETRY Symmetry
INVARIANTS
    AInv
    FenceComplete
    ExclusiveCoresIsolated
    OwnCores
    GomaxprocsCoversPlan
    LocksBalanced
