SPECIFICATION Spec
CONSTANTS
    Policies = {"FCFS", "FCFS_gnup", "RR", "Random"}
    NodeSets <- MCNodeSets
    NumStorageNodes = 1
    NumPFSServers = 2
    Users = {1, 2}
    VmTypes = {"small"}
    VmMemory <- MCVmMemory
    ImageMemory = 3
    ImageCores = 2
    MemoryOverhead = 1
    MaxVmsPerNode = 2
    OctetMax = 1
    MaxVMs = 3
INVARIANTS
    NodesExact
    VirtualIPsResolve
PROPERTIES
    UnlinkedWhenAllAnswered
CHECK_DEADLOCK FALSE
