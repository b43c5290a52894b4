CONSTANTS
    x = x
    y = y
    All = All
    Cpu = {0, 1, 2, 3}
    MaxCpus = 5
    Word = 16
    ListSize = 6
    Loaded <- MCLoaded
SPECIFICATION Spec
INVARIANTS
    NormalFormIsFixed
    SchedulerInput
    SlicesDisjoint
    CpusAsConfigured
    StuckOnlyAtLimit
    InlinePartitionFound
    RoomForBe
