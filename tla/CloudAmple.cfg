SPECIFICATION FairSpec
CONSTANTS
    u1 = u1
    u2 = u2
    j1 = j1
    j2 = j2
    j3 = j3
    j4 = j4
    Users <- MCUsers
    Jobs <- MCJobs
    JobsOf <- MCJobsOf
    VmQuantity <- TwoEach
    NumNodes = 2
    MaxVmsPerNode = 2
    MaxVMs = 3
INVARIANTS JobsOnOwnMachine RequestsAccounted LeavesCleanly
PROPERTY SimulationEnds
