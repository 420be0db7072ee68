----------------------------- MODULE MCVmPlacement -----------------------------
(* Two types of nodes: one node of 5 units and 2 cores, two nodes of 9 units *)
(* and 4 cores.  The image of the machines needs 3 units.                     *)
EXTENDS VmPlacement, TLC

MCNodeSets == <<[size |-> 1, memory |-> 5, cores |-> 2], [size |-> 2, memory |-> 9, cores |-> 4]>>
MCVmMemory == [t \in VmTypes |-> IF t = "small" THEN 2 ELSE 5]
================================================================================
