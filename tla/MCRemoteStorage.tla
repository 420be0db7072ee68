---------------------------- MODULE MCRemoteStorage ----------------------------
(* Two users with a machine in each of two nodes and the same virtual addresses;  *)
(* two nodes of storage.  The users have some clients and a server each, or jobs  *)
(* of one machine that share a parallel file system or an NFS, or one of each.    *)
EXTENDS RemoteStorage

CONSTANTS h, g, s, va, vb, vc, vd, server, server2, server3, server4, server5, client, client2, client3,
          read, open, create, nread, nopen

MCUsers == [m \in Machines |-> IF m \in {va, vb} THEN 1 ELSE 2]
MCHosts == [m \in Machines |-> IF m \in {va, vc} THEN h ELSE g]
MCVips == [m \in Machines |-> IF m \in {va, vc} THEN "v1" ELSE "v2"]
MCMachineOf == [j \in Servers \union Clients \union Jobs |->
    CASE j \in {server, server2} -> vb
      [] j = server3 -> vd
      [] j \in {client, client2, read, open, create} -> va
      [] OTHER -> vc]
MCPorts == [j \in Servers \union Clients |-> IF j \in {server2, client2, server5} THEN 81 ELSE 80]
MCAddresses == [j \in Clients |-> "v2"]
MCTargets == [j \in Jobs |-> IF j \in {read, open, create} THEN <<g, s>> ELSE <<s>>]
MCFs == [j \in Jobs |-> IF j \in {read, open, create} THEN "PFS" ELSE "NFS"]
MCOperations == [j \in Jobs |-> IF j \in {read, nread} THEN "READ" ELSE IF j = create THEN "CREATE" ELSE "OPEN"]
MCConnections == UNION {{<<j, n>> : n \in Range(MCTargets[j])} : j \in Jobs}
MCWorkloads == {{server, server2, client, client2}, {server, client, server3, client3},
                {server, client, server4, server5}, {read, open}, {nread, nopen}, {create, server2}}

ASSUME MCSameStorage == SameStorage
ASSUME MCPortsSuffice == PortsSuffice
================================================================================
