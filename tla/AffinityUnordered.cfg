\* Pins before, during and after Apply, a cpuset that changes and system
\* calls that fail, under fair scheduling.
CONSTANTS
    readers = readers
    house = house
    log = log
    t1 = t1
    t2 = t2
    t3 = t3
    w1 = w1
    w2 = w2
    NoRole = NoRole
    NoTid = NoTid
    RoleName = {readers, house, log}
    Housekeeping = house
    Plan <- MCPlan
    Core <- MCCore
    BootMask <- MCCore
    Cpusets <- MCCpusets
    Tid = {t1, t2}
    InitThreads = {t1, t2}
    Worker = {w1}
    MaxIdx = 0
    MaxDepth = 2
    MaxPasses = 1
    MaxChanges = 1
    MaxLost = 1
    Ordered = FALSE
    Faults = TRUE
    CgroupReadable = TRUE
    QuotaCPUs = 0
SPECIFICATION FairSpec
INVARIANTS
    PinHolds
    PoolMaskRestored
PROPERTIES
    ApplyReturns
    PinReturns
