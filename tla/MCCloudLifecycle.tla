--------------------------- MODULE MCCloudLifecycle ---------------------------
(* Two users, u1 with three jobs and u2 with one; three machines at most.      *)
EXTENDS CloudLifecycle

CONSTANTS u1, u2, j1, j2, j3, j4

MCUsers  == {u1, u2}
MCJobs   == {j1, j2, j3, j4}
MCJobsOf == u1 :> <<j1, j2, j4>> @@ u2 :> <<j3>>

TwoEach  == [u \in MCUsers |-> 2]
===============================================================================
