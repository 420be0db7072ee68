------------------------- MODULE MCRequestsManagement -------------------------
(* Five requests: two storage requests, two start requests, one shutdown.   *)
EXTENDS RequestsManagement

CONSTANTS s1, s2, v1, v2, f1

MCRequests == {s1, s2, v1, v2, f1}
MCStorage  == {s1, s2}
MCStart    == {v1, v2}
===============================================================================
