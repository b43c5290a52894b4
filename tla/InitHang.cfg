CONSTANTS
    a = a
    b = b
    c = c
    d = d
    P1 = P1
    P2 = P2
    P3 = P3
    s1 = s1
    s2 = s2
    s3 = s3
    NoProc = NoProc
    NoPartition = NoPartition
    Proc <- ProcDuo
    HasInit <- OnlyA
    Cooperative <- ProcDuo
    Forking <- NoProcs
    FastStart <- OnlyA
    Partition <- PartitionDuo
    Processes <- ProcessesDuo
    PartOf <- PartOfDuo
    Slice <- SliceDuo
    Sc <- ScDuo
    Be <- BeDuo
    Cpus <- CpusDuo
    Windows <- WindowsDuo
    Length <- LengthDuo
    Budget <- BudgetDuo
    Jitter <- NoJitterDuo
    Timeouts <- NoTimeout
    TicksPerMs = 1
    MaxLag = 0
    MaxSignals = 0
SPECIFICATION InitFairSpec
PROPERTIES
    InitEnds
CHECK_DEADLOCK FALSE
