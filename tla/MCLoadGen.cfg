\* Both modes; the process stops when it has reported or failed.
CONSTANTS
    Flows = 2
    Modes = {"lockstep", "flood"}
    MaxSeq <- MCMaxSeq
    MaxSamples = 3
    Estimate = 4
    Rate = 1
    Den = 1
    BurstTicks = 2
    Ticks = 3
    MaxSkip = 2
    Delays = {0, 2}
    Width = 64
    MaxDups = 1
    MaxFaults = 1
SPECIFICATION FairSpec
CHECK_DEADLOCK FALSE
INVARIANTS TypeOK LossIsHonest PacerHolds ReportIsFinal
PROPERTY RunEnds
