\* A statement of the source that the walk does not keep.
CONSTANTS
    Core <- MCCore
    BootMask <- MCBoot
    Depth = 1
    CpusetFile <- MCCpusetFile
    Quota <- MCQuota
    Unit = 2
    Membership <- MCMembership
    Tree <- MCTree
    MaxChanges = 1
SPECIFICATION Spec
CHECK_DEADLOCK FALSE
INVARIANT
    QuotaIsTheLimit
