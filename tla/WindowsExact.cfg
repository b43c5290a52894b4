CONSTANTS
    a = a
    b = b
    c = c
    d = d
    P1 = P1
    P2 = P2
    P3 = P3
    s1 = s1
    s2 = s2
    s3 = s3
    NoProc = NoProc
    NoPartition = NoPartition
    Proc <- ProcTwo
    HasInit <- NoProcs
    Cooperative <- OnlyB
    Forking <- NoProcs
    FastStart <- OnlyB
    Partition <- PartitionTwo
    Processes <- ProcessesTwo
    PartOf <- PartOfTwo
    Slice <- SliceTwo
    Sc <- ScTwo
    Be <- BeTwo
    Cpus <- CpusTwo
    Windows <- WindowsTwo
    Length <- LengthTwo
    Budget <- BudgetTwo
    Jitter <- ScJitterTwo
    Timeouts <- NoTimeout
    TicksPerMs = 2
    MaxLag = 0
    MaxSignals = 0
SPECIFICATION ReadFairSpec
INVARIANTS
    BudgetBound
    NoNullCallback
PROPERTIES
    BeRotation
    WakesUp
