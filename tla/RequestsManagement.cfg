SPECIFICATION FairSpec
CONSTANTS
    s1 = s1
    s2 = s2
    v1 = v1
    v2 = v2
    f1 = f1
    Requests <- MCRequests
    StorageRequests <- MCStorage
    StartRequests <- MCStart
    MaxSent = 1
INVARIANT NothingStranded
PROPERTIES RefinesAbstract EveryRequestConsidered
