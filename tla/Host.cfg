CONSTANTS
    p = p
    k = k
    m = m
    Processes <- OneProcess
    Cluster <- Clusters
    ActiveClusters <- Clusters
    UserspaceClusters <- OnlyK
    Machines <- MachinesMC
    UserDirs <- NoneOrOne
    MaxInstances = 2
SPECIFICATION Spec
INVARIANTS
    UserDirsKept
    CleanExit
    LeftoverWasBusy
    ScriptReachesTasks
    CpufreqRestored
CHECK_DEADLOCK FALSE
