----------------------------- MODULE MCNodeStorage -----------------------------
(* Two jobs on one virtual machine and one on another, of another user.  The  *)
(* memory of the machines exceeds what the node has left.                     *)
EXTENDS NodeStorage

MCUser  == [v \in VMs |-> IF v = "v1" THEN "u1" ELSE "u2"]
MCVm    == [j \in Jobs |-> IF j = "j2" THEN "v2" ELSE "v1"]
MCPaths == [j \in Jobs |-> IF j = "j1" THEN <<"/", "/tmp">> ELSE <<"/">>]
MCPreload == [j \in Jobs |-> CASE j = "j1" -> {"f1", "f2"} [] j = "j2" -> {} [] OTHER -> {"f3"}]

Req(op, arg) == [op |-> op, arg |-> arg]

MCScript == [j \in Jobs |->
    CASE j = "j1" -> <<Req("allocate", 3), Req("open", "f1"), Req("allocate", 2), Req("release", 3)>>
      [] j = "j2" -> <<Req("create", "f4"), Req("allocate", 3), Req("write", "f4"), Req("release", 3)>>
      [] OTHER    -> <<Req("allocate", 2), Req("read", "f3"), Req("close", "f3")>>]

MCCells == [v \in VMs |-> 5]
================================================================================
