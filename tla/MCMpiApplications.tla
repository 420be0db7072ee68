--------------------------- MODULE MCMpiApplications ---------------------------
(* A script of collective calls.  The gather comes after a barrier, which    *)
(* the master leaves first: a root that is not yet in its gather when data   *)
(* arrives ends the simulation.                                              *)
EXTENDS MpiApplications

C(call, root) == [call |-> call, root |-> root]

MCScript == <<C("MPI_BCAST", 1), C("MPI_BARRIER", 0), C("MPI_GATHER", 0), C("MPI_SCATTER", 0),
              C("MPI_BCAST", 2), C("MPI_BARRIER", 0)>>
================================================================================
