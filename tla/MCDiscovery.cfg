\* Every walk two directories deep, with one file changing under it.
CONSTANTS
    Core <- MCCore
    BootMask <- MCBoot
    Depth = 1
    CpusetFile <- MCCpusetFile
    Quota <- MCQuota
    Unit = 2
    Membership <- MCMembership
    Tree <- MCTree
    MaxChanges = 1
SPECIFICATION Spec
CHECK_DEADLOCK FALSE
INVARIANTS
    TypeInv
    AvailableWasRight
    TargetIsTheMinimum
PROPERTY
    WalkEnds
