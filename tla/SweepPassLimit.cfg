\* A statement of the source that the sweep does not keep.
CONSTANTS
    readers = readers
    house = house
    log = log
    t1 = t1
    t2 = t2
    t3 = t3
    w1 = w1
    w2 = w2
    NoRole = NoRole
    NoTid = NoTid
    RoleName = {readers, house, log}
    Housekeeping = house
    Plan <- MCPlan
    Core <- MCCore
    BootMask <- MCCore
    Cpusets <- MCCpusets
    Tid = {t1, t2}
    InitThreads = {t1}
    Worker = {w1}
    MaxIdx = 0
    MaxDepth = 1
    MaxPasses = 10
    MaxChanges = 0
    MaxLost = 0
    Ordered = TRUE
    Faults = FALSE
    CgroupReadable = TRUE
    QuotaCPUs = 8
SPECIFICATION Spec
INVARIANT
    EveryThreadFenced
