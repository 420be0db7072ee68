SPECIFICATION FairSpec
CONSTANTS
    c1 = c1  c2 = c2  s1 = s1  Free = Free
    Intensive <- TwoIntensive
    Servers <- OneServer
    Iterations <- ShortAndLong
    UptimeHits = 1
    MaxProcesses = 2
INVARIANTS GatesAgree ResponseReachesSender CountersExact
PROPERTIES IntensiveEnds
