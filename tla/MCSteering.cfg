\* Every packet on every CPU, for every set of reader cores, after a check
\* during which one interrupt is moved.
CONSTANTS
    CPU <- MCCPU
    Irq <- MCIrq
    Unreadable = Unreadable
    Text <- MCText
    Machine <- MCMachine
    MaxChanges = 1
SPECIFICATION AlignSpec
INVARIANTS
    SteersToIndex
    SilentMeansLocal
    CoreSetsAreSets
PROPERTY
    ImplementsTable
