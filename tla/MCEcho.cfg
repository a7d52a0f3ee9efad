\* udpecho with two readers, two settings of its flags.  The process
\* stops at its report or at a fatal error, hence no deadlock check.
SPECIFICATION FairSpec
CONSTANTS
    CPU <- MCCPU
    Flags <- MCFlags
    Readers = 2
    CoreLists <- MCCoreLists
    QueueCap = 1
    SampleEvery = 2
    MaxPackets = 3
INVARIANTS EInv AlignedReads HistogramsAreLocal PacketsAccounted ReportConsistent
PROPERTY QueuedAreRead
CHECK_DEADLOCK FALSE
