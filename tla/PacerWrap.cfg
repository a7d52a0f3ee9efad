\* The pacer reads its clock after its first tick: the target goes negative.
CONSTANTS
    Flows = 2
    Modes = {"lockstep", "flood"}
    MaxSeq <- MCMaxSeq
    MaxSamples = 3
    Estimate = 4
    Rate = 1
    Den = 1
    BurstTicks = 2
    Ticks = 3
    MaxSkip = 2
    Delays = {0, 2}
    Width = 64
    MaxDups = 1
    MaxFaults = 1
SPECIFICATION Spec
CHECK_DEADLOCK FALSE
INVARIANT NeverAheadOfTarget
