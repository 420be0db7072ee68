------------------------------ MODULE VmPlacement ------------------------------
(***************************************************************************)
(* Nodes and the virtual machines placed on them.  The four cloud          *)
(* schedulers differ in selectNode; what happens to the node they choose   *)
(* is the same: the manager turns it on, NodeVL charges the memory of the  *)
(* machine (or silently does not, when it does not fit), the network       *)
(* manager gives the machine a virtual address, and a shutdown undoes it   *)
(* when every node that keeps something of the machine has answered twice: *)
(* file system formatted, connections closed.                              *)
(*                                                                         *)
(* Nodes and sets are numbered from 0, as in the vectors of MachinesMap.   *)
(* Sizes are in units of memory; storage behaves as memory does.  The jobs *)
(* of the machines have ended when a shutdown is requested (their life is  *)
(* the subject of CloudLifecycle).                                         *)
(***************************************************************************)
EXTENDS Naturals, Integers, Sequences, FiniteSets, FiniteSetsExt, SequencesExt, Sums

CONSTANTS
    Policies,      \* schedulers to consider: "FCFS", "FCFS_gnup", "RR", "Random"
    NodeSets,      \* sequence of records [size, memory, cores], one per node type
    NumStorageNodes,
    NumPFSServers, \* numberOfPFSRemoteServers
    Users,
    VmTypes, VmMemory, \* types of the configuration and their memory
    ImageMemory, ImageCores, \* of the module vmImage, which selectNode is given
    MemoryOverhead,   \* of the hypervisor
    MaxVmsPerNode,    \* maximum_number_of_processes_per_node
    OctetMax,         \* largest value of an octet (256 in the code)
    MaxVMs            \* machines ever created (bound of the model)

NoNode == <<-1, -1>>
VMs    == 1 .. MaxVMs

ASSUME PlacementAssumption ==
    /\ Policies \subseteq {"FCFS", "FCFS_gnup", "RR", "Random"}
    /\ NodeSets \in Seq([size : Nat \ {0}, memory : Nat, cores : Nat])
    /\ NumStorageNodes \in Nat /\ NumPFSServers \in Nat /\ MaxVMs \in Nat
    /\ VmMemory \in [VmTypes -> Nat] /\ MemoryOverhead \in Nat
    /\ MaxVmsPerNode \in Nat \ {0} /\ OctetMax \in Nat \ {0}

VARIABLES
    policy,
    machine,       \* machineState, free memory and PSU of each compute node
    cursor,        \* [type, index]: currentNodeType and currentNodeIndex of RR
    vm,            \* record of each machine created, see NewVM
    nextVm,
    ips,           \* ipsCloud: [lastIP, cells] of each user
    userVmData,    \* per user, the machines with remote storage and their nodes
    pendingDeletion, pendingConnections, \* answers due for each machine
    fault          \* a run-time error, or undefined behaviour, ended the simulation

vars == <<policy, machine, cursor, vm, nextVm, ips, userVmData,
          pendingDeletion, pendingConnections, fault>>
-------------------------------------------------------------------------------
(* MachinesMap and HeterogeneousSet.                                       *)

MapSize     == Len(NodeSets)
SetSize(s)  == NodeSets[s + 1].size
SetMemory(s)   == NodeSets[s + 1].memory
SetNumCores(s) == NodeSets[s + 1].cores

Nodes == {<<s, i>> : s \in 0 .. MapSize - 1, i \in 0 .. Max({NodeSets[k].size : k \in DOMAIN NodeSets})}
ComputeNodes == {n \in Nodes : n[2] < SetSize(n[1])}

\* getMachineByIndex: the set is checked, the index inside the set is not.
OutOfRange(s, i) == s >= MapSize \/ i >= SetSize(s)

Linked(n) == {v \in VMs : vm[v].node = n}

Capacity(n) == SetMemory(n[1])
-------------------------------------------------------------------------------
(* A node: Node, NodeVL and the state kept by its SyscallManager.          *)

\* NodeVL::turnOn charges the overhead whatever the state; only a node that is off
\* changes state.
TurnOn(m) ==
    LET charged == [m EXCEPT !.free = @ - MemoryOverhead] IN
    IF m.state = "off_state" THEN [charged EXCEPT !.state = "idle", !.psu = TRUE] ELSE charged

\* Turning off resets the counters of the operating system (resetSystem).
TurnOff(m, total) ==
    IF m.state # "off_state"
    THEN [m EXCEPT !.state = "off_state", !.free = total, !.psu = FALSE]
    ELSE m

\* Node::initNode: the state is INITIAL_STATE, "off", which is not the state of a
\* machine that is off, so the node is turned on.
InitNode(n) == TurnOn([state |-> "off", free |-> Capacity(n), psu |-> FALSE, uncharged |-> FALSE])

\* initManager, after initNode: as the parameter initialState says.
InitManager(n, initialState) ==
    IF initialState = "off_state" THEN TurnOff(InitNode(n), Capacity(n)) ELSE TurnOn(InitNode(n))

\* Mutant: the memory of the machine is charged twice.
TestLinkTwice(m, memory) ==
    IF m.free > memory THEN [m EXCEPT !.free = @ - 2 * memory]
    ELSE [m EXCEPT !.uncharged = TRUE]

\* NodeVL::testLinkVM; its caller ignores the result.  uncharged records, for the
\* properties only, that a machine was linked without being charged.
TestLinkVM(m, memory) ==
    IF m.free > memory THEN [m EXCEPT !.free = @ - memory]
    ELSE [m EXCEPT !.uncharged = TRUE]

\* linkVM, then setVMInstance.
LinkVM(m) == IF m.state = "idle" THEN [m EXCEPT !.state = "running"] ELSE m

\* NodeVL::unlinkVM: the memory is always given back.
UnlinkVM(m, memory, last) ==
    LET freed == [m EXCEPT !.free = @ + memory] IN
    IF m.state = "running" /\ last THEN [freed EXCEPT !.state = "idle"] ELSE freed

\* AbstractCloudManager::unlinkVM: shutdownNodeIfIDLE() is true in every scheduler.
UnlinkAndTurnOff(m, memory, total, last) ==
    LET freed == UnlinkVM(m, memory, last) IN
    IF last THEN TurnOff(freed, total) ELSE freed
-------------------------------------------------------------------------------
(* Virtual addresses: two octets of an address, counted by incVirtualIP.   *)

\* Mutant: the lower octet is not reset by the carry.
IncVirtualIPNoReset(ip) ==
    IF ip[2] < OctetMax THEN <<ip[1], ip[2] + 1>>
    ELSE IF ip[1] < OctetMax THEN <<ip[1] + 1, ip[2]>> ELSE <<0, 1>>

\* An octet takes the value 256 before it is carried over; <<>> is the empty address
\* of an exhausted range.
IncVirtualIP(ip) ==
    IF ip[2] < OctetMax THEN <<ip[1], ip[2] + 1>>
    ELSE IF ip[1] < OctetMax THEN <<ip[1] + 1, 0>> ELSE <<>>

IpBasis == <<0, 0>>

\* createNewUser
CreateNewUser == [lastIP |-> IpBasis, cells |-> <<>>]

\* newVIP: no address is ever a hole, see DeleteVirtualIP.
NewVIP(user) == IncVirtualIP(user.lastIP)

\* allocateVirtualIP
AllocateVirtualIP(user, node, v) ==
    LET ip == NewVIP(user) IN
    [lastIP |-> ip, cells |-> Append(user.cells, [ip |-> ip, node |-> node, vm |-> v])]

\* deleteVirtualIP_by_VIP: its loop ends at begin(), so no cell is ever removed.
DeleteVirtualIP(user, ip) == user

\* searchNodeIP: the first cell with the address.
SearchNodeIP(user, ip) ==
    LET at == SelectInSeq(user.cells, LAMBDA c : c.ip = ip) IN
    IF at = 0 THEN NoNode ELSE user.cells[at].node
-------------------------------------------------------------------------------
(* The schedulers.  A choice is [node, cursor, fault].                     *)

Suits(s) == SetMemory(s) >= ImageMemory /\ SetNumCores(s) >= ImageCores
HasPlace(n) == Cardinality(Linked(n)) < MaxVmsPerNode
Choice(n) == [node |-> n, cursor |-> cursor, fault |-> FALSE]

FirstWithPlace(s) ==
    LET places == {i \in 0 .. SetSize(s) - 1 : HasPlace(<<s, i>>)} IN
    IF places = {} THEN NoNode ELSE <<s, Min(places)>>

\* FCFS: the first node with a place, in the first set that suits and has one.
SelectNodeFCFS ==
    LET sets == {s \in 0 .. MapSize - 1 : Suits(s) /\ FirstWithPlace(s) # NoNode} IN
    {Choice(IF sets = {} THEN NoNode ELSE FirstWithPlace(Min(sets)))}

\* FCFS_gnup: only the first set that suits is looked at.
SelectNodeFCFS_gnup ==
    LET sets == {s \in 0 .. MapSize - 1 : Suits(s)} IN
    {Choice(IF sets = {} THEN NoNode ELSE FirstWithPlace(Min(sets)))}

\* RR: the loop moves the cursor, but tests the node at the position where the cursor
\* was in the set it has come to.  The cursor may stop one past the end of a set.
SelectNodeRR ==
    LET position == cursor.index
        Fault == [node |-> NoNode, cursor |-> cursor, fault |-> TRUE]
        Fits(n) == machine[n].free >= ImageMemory /\ SetNumCores(n[1]) >= ImageCores /\ HasPlace(n)
        NextCursor(s, i) ==
            IF i + 1 > SetSize(s)
            THEN [type |-> IF s + 1 < MapSize THEN s + 1 ELSE 0, index |-> 0]
            ELSE [type |-> s, index |-> i + 1]
        NextSet(s, i) == IF i + 1 > SetSize(s) THEN s + 1 ELSE s
        Walk[s \in 0 .. MapSize, i \in Nat] ==
            IF OutOfRange(s, position) THEN Fault
            ELSE LET c == NextCursor(s, i)
                     back == c.index = position /\ c.type = NextSet(s, i)
                 IN  IF back \/ Fits(<<s, position>>)
                     THEN [node |-> IF back THEN NoNode ELSE <<s, position>>,
                           cursor |-> c, fault |-> FALSE]
                     ELSE Walk[NextSet(s, i), c.index]
    IN  {Walk[cursor.type, position]}

\* Random: any node of a set that suits and with the memory free, full or not.  None
\* is an outcome when the tries are used up, or when a set that does not suit is drawn
\* first and the limit of tries is still uninitialized; with no set that suits the
\* loop need not end (fault).
SelectNodeRandom ==
    LET suited == {s \in 0 .. MapSize - 1 : Suits(s)}
        fits   == {n \in ComputeNodes : n[1] \in suited /\ machine[n].free >= ImageMemory}
        none   == \/ suited # 0 .. MapSize - 1
                  \/ \E n \in ComputeNodes : n[1] \in suited /\ n \notin fits
    IN  {Choice(n) : n \in fits}
        \cup (IF none THEN {Choice(NoNode)} ELSE {})
        \cup (IF suited = {} THEN {[node |-> NoNode, cursor |-> cursor, fault |-> TRUE]} ELSE {})

SelectNode ==
    CASE policy = "FCFS" -> SelectNodeFCFS
      [] policy = "FCFS_gnup" -> SelectNodeFCFS_gnup
      [] policy = "RR" -> SelectNodeRR
      [] policy = "Random" -> SelectNodeRandom
-------------------------------------------------------------------------------
(* AllocationManagement: the storage nodes of each machine.                *)

\* selectStorageNodes takes the first storage nodes; they all have the space, for no
\* component charges a file system to them.
SelectStorageNodes(fsType) ==
    LET wanted == IF fsType = "NFS" THEN 1 ELSE NumPFSServers IN
    IF wanted > NumStorageNodes THEN <<>> ELSE [k \in 1 .. wanted |-> k]

UpdateVmManagementStructures(u, v, nodes) ==
    userVmData' = [userVmData EXCEPT ![u] = Append(@, [vm |-> v, positions |-> nodes])]

\* deleteVMfromStorageNodes returns the nodes of the user's first machine if that is
\* the one, and forgets all of the user's machines.
StorageNodesToFormat(u, v) ==
    IF userVmData[u] # <<>> /\ userVmData[u][1].vm = v THEN userVmData[u][1].positions ELSE <<>>

\* For another machine its loop erases from a vector until it is empty, and goes on.
ErasesEmptyVector(u, v) == userVmData[u] # <<>> /\ userVmData[u][1].vm # v
-------------------------------------------------------------------------------
NewVM(u, t, n, ip) == [user |-> u, type |-> t, node |-> n, ip |-> ip, state |-> "on"]
NoVM == [user |-> 0, type |-> 0, node |-> NoNode, ip |-> <<>>, state |-> "none"]

Init ==
    /\ policy \in Policies
    /\ \E initial \in [0 .. MapSize - 1 -> {"off_state", "idle"}] :  \* one value per array of nodes
         machine = [n \in ComputeNodes |-> InitManager(n, initial[n[1]])]
    /\ cursor = [type |-> 0, index |-> 0]
    /\ vm = [v \in VMs |-> NoVM] /\ nextVm = 1
    /\ ips = [u \in Users |-> CreateNewUser]
    /\ userVmData = [u \in Users |-> <<>>]
    /\ pendingDeletion = [v \in VMs |-> 0] /\ pendingConnections = [v \in VMs |-> 0]
    /\ fault = FALSE

\* request_start_vm for one machine of type t on the node chosen: turnOn, create_VM,
\* testLinkVM, linkVM.
Place(u, t, n) ==
    LET v    == nextVm
        on   == IF machine[n].state = "off_state" THEN TurnOn(machine[n]) ELSE machine[n]
        user == AllocateVirtualIP(ips[u], n, v)
    IN
    /\ machine' = [machine EXCEPT ![n] = LinkVM(TestLinkVM(on, VmMemory[t]))]
    /\ ips' = [ips EXCEPT ![u] = user]
    /\ vm' = [vm EXCEPT ![v] = NewVM(u, t, n, user.lastIP)]
    /\ nextVm' = v + 1

RequestStartVM(u, t) ==
    /\ ~fault /\ nextVm <= MaxVMs
    /\ IncVirtualIP(ips[u].lastIP) # <<>>
    /\ \E choice \in SelectNode :
         /\ fault' = choice.fault
         /\ cursor' = choice.cursor
         /\ IF choice.node = NoNode THEN UNCHANGED <<machine, ips, vm, nextVm>>
                                    ELSE Place(u, t, choice.node)
    /\ UNCHANGED <<policy, userVmData, pendingDeletion, pendingConnections>>

\* userStorageRequest, up to the selection of the nodes: too few nodes is an error.
RequestRemoteStorage(v, fsType) ==
    LET nodes == SelectStorageNodes(fsType) IN
    /\ ~fault /\ vm[v].state = "on"
    /\ \A i \in DOMAIN userVmData[vm[v].user] : userVmData[vm[v].user][i].vm # v
    /\ IF nodes = <<>> THEN fault' = TRUE /\ UNCHANGED userVmData
       ELSE UpdateVmManagementStructures(vm[v].user, v, nodes) /\ UNCHANGED fault
    /\ UNCHANGED <<policy, machine, cursor, vm, nextVm, ips, pendingDeletion, pendingConnections>>

\* closeVMConnections: one answer is due from each remote node and from the host.
CloseVMConnections(v, nodes) ==
    pendingConnections' = [pendingConnections EXCEPT ![v] = Len(nodes) + 1]

\* formatFSFromNodes, on the same nodes.
FormatFS(v, nodes) == pendingDeletion' = [pendingDeletion EXCEPT ![v] = Len(nodes) + 1]

\* request_shutdown_vm, with remoteShutdown of the scheduler.
RequestShutdownVM(v) ==
    LET u == vm[v].user
        nodes == StorageNodesToFormat(u, v)
    IN
    /\ ~fault /\ vm[v].state = "on"
    /\ fault' = ErasesEmptyVector(u, v)
    /\ vm' = [vm EXCEPT ![v].state = "closing"]
    /\ userVmData' = [userVmData EXCEPT ![u] = <<>>]
    /\ FormatFS(v, nodes)
    /\ CloseVMConnections(v, nodes)
    /\ UNCHANGED <<policy, machine, cursor, nextVm, ips>>

\* unlinkVM of the manager, then notify_shutdown_vm.
Unlink(v) ==
    LET n == vm[v].node
        last == Linked(n) = {v}
    IN
    /\ machine' = [machine EXCEPT ![n] =
                     UnlinkAndTurnOff(@, VmMemory[vm[v].type], Capacity(n), last)]
    /\ ips' = [ips EXCEPT ![vm[v].user] = DeleteVirtualIP(@, vm[v].ip)]
    /\ vm' = [vm EXCEPT ![v].node = NoNode, ![v].state = "gone"]

\* notifyFSFormatted: the last one unlinks if the connections are closed already.
NotifyFSFormatted(v) ==
    /\ ~fault /\ pendingDeletion[v] > 0
    /\ pendingDeletion' = [pendingDeletion EXCEPT ![v] = @ - 1]
    /\ IF pendingDeletion[v] = 1 /\ pendingConnections[v] = 0 THEN Unlink(v)
                                                        ELSE UNCHANGED <<machine, ips, vm>>
    /\ UNCHANGED <<policy, cursor, nextVm, userVmData, pendingConnections, fault>>

\* Mutant: the machine is unlinked although its disks are not formatted.
NotifyVMConnectionsClosedEarly(v) ==
    /\ ~fault /\ pendingConnections[v] > 0
    /\ pendingConnections' = [pendingConnections EXCEPT ![v] = @ - 1]
    /\ IF pendingConnections[v] = 1 /\ vm[v].node # NoNode THEN Unlink(v) ELSE UNCHANGED <<machine, ips, vm>>
    /\ UNCHANGED <<policy, cursor, nextVm, userVmData, pendingDeletion, fault>>

\* notifyVMConnectionsClosed: the last one unlinks if the disks are formatted already.
NotifyVMConnectionsClosed(v) ==
    /\ ~fault /\ pendingConnections[v] > 0
    /\ pendingConnections' = [pendingConnections EXCEPT ![v] = @ - 1]
    /\ IF pendingConnections[v] = 1 /\ pendingDeletion[v] = 0 THEN Unlink(v)
                                                        ELSE UNCHANGED <<machine, ips, vm>>
    /\ UNCHANGED <<policy, cursor, nextVm, userVmData, pendingDeletion, fault>>

Next ==
    \/ \E u \in Users, t \in VmTypes : RequestStartVM(u, t)
    \/ \E v \in VMs, fsType \in {"NFS", "PFS"} : RequestRemoteStorage(v, fsType)
    \/ \E v \in VMs : RequestShutdownVM(v)
    \/ \E v \in VMs : NotifyFSFormatted(v)
    \/ \E v \in VMs : NotifyVMConnectionsClosed(v)

Spec == Init /\ [][Next]_vars
-------------------------------------------------------------------------------
\* The memory the machines of a node were given.
LinkedMemory(n) ==
    Total([v \in VMs |-> IF vm[v].node = n THEN VmMemory[vm[v].type] ELSE 0], MaxVMs)

\* NodeVL's accounting: as long as every machine of a node was charged when it was
\* linked, the free memory is the capacity less the machines and the overhead: paid
\* once by a node that was turned on, twice by one that was on from the start, and
\* given back when the node is turned off.
MemoryExact ==
    \A n \in ComputeNodes :
        ~machine[n].uncharged =>
            machine[n].free = Capacity(n)
                - LinkedMemory(n)
                - MemoryOverhead * (CASE machine[n].state = "off_state" -> 0
                                      [] machine[n].state = "off" -> 2
                                      [] OTHER -> 1)

\* Machines and the power of their node: a node with machines is on, and one that was
\* turned on since the start and has none left is off again; "idle" is never seen
\* between two events.
PoweredWhileHosting ==
    \A n \in ComputeNodes :
        /\ Linked(n) # {} => machine[n].state \in {"running", "off"}
        /\ Linked(n) = {} => machine[n].state \in {"off_state", "off"}
        /\ machine[n].psu <=> machine[n].state = "running"

\* What a node promises to its machines: memory and power are right after every event.
NodesExact == MemoryExact /\ PoweredWhileHosting

\* Two machines of a user that are linked never share a virtual address, and the
\* network manager resolves the address to the node that runs the machine.
VirtualIPsResolve ==
    \A v \in VMs : vm[v].node # NoNode =>
        /\ SearchNodeIP(ips[vm[v].user], vm[v].ip) = vm[v].node
        /\ \A w \in VMs \ {v} : vm[w].node # NoNode /\ vm[w].user = vm[v].user => vm[w].ip # vm[v].ip

\* A machine is taken off its node in one step, when the last of the two kinds of
\* answers is in, and never before: no node that keeps files or connections of it is
\* left behind.
UnlinkedWhenAllAnswered ==
    [][\A v \in VMs : vm[v].node # NoNode /\ vm'[v].node = NoNode =>
           vm[v].state = "closing" /\ pendingDeletion'[v] = 0 /\ pendingConnections'[v] = 0]_vars
================================================================================
