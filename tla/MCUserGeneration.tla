---------------------------- MODULE MCUserGeneration ----------------------------
(* Data centres with one and two cells of users for UserGeneration.        *)
EXTENDS UserGeneration

LocalJob  == [copies |-> 1, fs |-> <<[type |-> "LOCAL", route |-> <<"a">>]>>,
              files |-> <<<<"a", "f">>, <<"a", "b", "f">>, <<"f">>>>]
RemoteJob == [copies |-> 1, fs |-> <<[type |-> "NFS", route |-> <<"b">>],
                                     [type |-> "LOCAL", route |-> <<>>]>>,
              files |-> <<<<"f">>, <<"b", "f">>, <<"b", "a", "f">>>>]
TwoJobs   == [LocalJob EXCEPT !.copies = 2]

CellOf(preloaded, total, intervals, repetitions, distribution, jobs) ==
    [preloaded |-> preloaded, total |-> total, intervals |-> intervals,
     repetitions |-> repetitions, distribution |-> distribution, jobs |-> jobs,
     remoteServers |-> "NFS"]

MCConfigurations ==
    {<<CellOf(1, 2, 2, 0, "uniform", <<LocalJob>>)>>,
     <<CellOf(0, 1, 2, 2, "uniform", <<RemoteJob>>)>>,
     <<CellOf(0, 3, 1, 0, "uniform", <<LocalJob>>)>>,
     <<CellOf(0, 2, 0, 0, "no_distribution", <<TwoJobs>>)>>,
     <<CellOf(0, 1, 1, 1, "no_distribution", <<LocalJob>>)>>,
     <<CellOf(1, 0, 1, 0, "uniform", <<RemoteJob>>), CellOf(0, 2, 2, 0, "uniform", <<LocalJob>>)>>}
================================================================================
