CONSTANTS
    a = a
    b = b
    c = c
    d = d
    P1 = P1
    P2 = P2
    P3 = P3
    s1 = s1
    s2 = s2
    s3 = s3
    NoProc = NoProc
    NoPartition = NoPartition
    Proc <- ProcTwo
    HasInit <- NoProcs
    Cooperative <- AandC
    Forking <- NoProcs
    FastStart <- NoProcs
    Partition <- PartitionTwo
    Processes <- ProcessesTwo
    PartOf <- PartOfTwo
    Slice <- SliceTwo
    Sc <- ScTwo
    Be <- BeTwo
    Cpus <- CpusTwo
    Windows <- WindowsTwo
    Length <- LengthTwo
    Budget <- BudgetTwo
    Jitter <- NoJitterTwo
    Timeouts <- NoTimeout
    TicksPerMs = 1
    MaxLag = 1
    MaxSignals = 0
SPECIFICATION Spec
INVARIANTS
    TypeOK
    Isolation
    BudgetTimer
    Phases
    CpuPlacement
    NoDrift
PROPERTIES
    TimePartitioned
    TurnKept
