CONSTANTS
    a = a
    b = b
    c = c
    P1 = P1
    P2 = P2
    P3 = P3
    s1 = s1
    s2 = s2
    s3 = s3
    K1 = K1
    K2 = K2
    K3 = K3
    NoProc = NoProc
    NoPartition = NoPartition
    Proc <- ProcPw
    HasInit <- NoProcs
    Cooperative <- OnlyA
    Forking <- NoProcs
    FastStart <- NoProcs
    Partition <- PartitionPw
    Processes <- ProcessesPw
    PartOf <- PartOfPw
    Slice <- SlicePw
    Sc <- ScPw
    Be <- BePw
    Cpus <- CpusPw
    Windows <- WindowsPw
    Length <- LengthPw
    Budget <- BudgetPw
    Jitter <- JitterPw
    Timeouts <- NoTimeout
    TicksPerMs = 1
    MaxLag = 0
    MaxSignals = 0
    Cluster <- ClusterPw
    A53 = K1
    A72 = K2
    AffectedCores <- CoresPw
    MinFrequency <- MinPw
    MaxFrequency <- MaxPw
    AvailableFrequencies <- AvailablePw
    Policies <- PoliciesPw
    Requests <- RequestsPw
SPECIFICATION PowerSpec
INVARIANTS
    RequestersRunning
    FrequencyGranted
    SliceFrequencyGranted
    WritesSupported
    ScAtMax
