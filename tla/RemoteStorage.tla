----------------------------- MODULE RemoteStorage -----------------------------
(***************************************************************************)
(* Jobs whose files are in storage nodes: their connections, made by       *)
(* RemoteStorageApp through the storage cell of their machine              *)
(* (Storage_cell_basic with a PFS_Storage_Cell or an NFS_Storage_Cell),    *)
(* and an operation of each, split by SMS_PFS or SMS_NFS into requests     *)
(* for the target nodes.  It shares the network with HypervisorNetwork.    *)
(***************************************************************************)
EXTENDS HypervisorNetwork

CONSTANTS
    Workloads,          \* sets of jobs to consider
    TargetsOf,          \* the sequence of target nodes of each job
    FsOf,               \* "PFS" or "NFS"
    OperationOf,        \* "OPEN", "CREATE" or "READ"
    NfsRequests,        \* requests that NFS makes of a read: size / requestSizeNFS
    StoragePort

ASSUME StorageAssumption ==
    /\ StorageConnections = UNION {{<<j, n>> : n \in Range(TargetsOf[j])} : j \in Jobs}
    /\ \A j \in Jobs : HostOf[MachineOf[j]] \notin Range(TargetsOf[j])
    /\ StoragePort \notin FirstPort .. LastPort
    /\ NfsRequests \in Nat \ {0}
    /\ \A w \in Workloads : w \subseteq Servers \union Clients \union Jobs
    \* the scheduler takes a storage node once for a job
    /\ \A j \in Jobs : /\ TargetsOf[j] \in Seq(Nodes) /\ IsInjective(TargetsOf[j])
                       /\ OperationOf[j] \in {"OPEN", "CREATE", "READ"}

\* The jobs of a machine have the same file system in the same nodes.  The scheduler takes
\* the first storage nodes with space for each: they are the same while none fills up.
SameStorage ==
    \A j, k \in Jobs : MachineOf[j] = MachineOf[k] => FsOf[j] = FsOf[k] /\ TargetsOf[j] = TargetsOf[k]

\* What takes a port of node n: a job at the node that listens or connects, and a machine
\* and target node of storage, at either end.
PortUsers(w, n) ==
    {<<a>> : a \in {a \in w \ Jobs : HostOf[MachineOf[a]] = n}} \union
    {<<MachineOf[r[1]], r[2]>> : r \in {r \in StorageConnections :
                                         r[1] \in w /\ n \in {r[2], HostOf[MachineOf[r[1]]]}}}

\* Every node has a port for each.
PortsSuffice == \A w \in Workloads, n \in Nodes :
    IsFiniteSet(PortUsers(w, n)) /\ Cardinality(PortUsers(w, n)) <= LastPort - FirstPort

VARIABLES
    lrep,           \* machines for which a node listens at the storage port
    asking,         \* connections asked of the storage cell of each machine
    cell,           \* the remote file system of each machine
    replicas,       \* jobs that share the connections of another, and answers they miss
    connecting,     \* jobs of each machine that wait for a connection, oldest first
    queue,          \* requests split by the PFS of each machine, not yet sent
    latency,        \* of those, the one in its latency
    sent,           \* requests sent to a target node and not yet answered
    arrivedSubRequests,     \* responses to the operation of each job
    asked, transferred, answered    \* history: operations asked, parts served, operations answered

storage == <<lrep, asking, cell, replicas, connecting>>
io == <<queue, latency, sent, arrivedSubRequests, asked, transferred, answered>>
vars == <<apps, network, waiting, phase, fault, storage, io>>
-------------------------------------------------------------------------------
(* The data-centre manager connects a job with its target nodes            *)
(* (StorageManagement::createConnectionToStorage).                         *)

\* RemoteStorageApp: create_listen at each target node that does not listen for the
\* machine yet, connect_to_storage_node at the host.
ConnectToStorage(j) ==
    LET m == MachineOf[j]
        targets == TargetsOf[j]
        new == {n \in Range(targets) : m \notin lrep[n]}
    IN
    /\ fault = "none" /\ j \in apps \intersect Jobs /\ phase[j] = "idle"
    /\ phase' = [phase EXCEPT ![j] = "connecting"]
    /\ lrep' = [n \in Nodes |-> IF n \in new THEN lrep[n] \union {m} ELSE lrep[n]]
    /\ Listens(new, m, StoragePort, j)
    /\ asking' = [asking EXCEPT ![m] = @ \o [i \in DOMAIN targets |-> <<j, targets[i]>>]]
    /\ connecting' = [connecting EXCEPT ![m] = Append(@, j)]
    /\ UNCHANGED <<apps, waiting, cell, replicas, io>>

\* setDataStorage_EstablishedConnection: a connection counts for the oldest job of the
\* machine that waits, whichever job it is for.
Notify(m, times) ==
    /\ phase' = [a \in DOMAIN phase |->
            IF \E i \in DOMAIN connecting[m] : i <= times /\ connecting[m][i] = a
            THEN "connected" ELSE phase[a]]
    /\ connecting' = [connecting EXCEPT ![m] = SubSeq(@, times + 1, Len(@))]
-------------------------------------------------------------------------------
(* Storage_cell_basic::setRemoteData.                                      *)

\* A machine without connections has no remote file system.
NoCell == [fs |-> "none", connections |-> <<>>, active |-> FALSE, servers |-> 0, lost |-> {}]

NewCell(fs, n) == [fs |-> fs, connections |-> <<[node |-> n, id |-> NULL]>>, active |-> FALSE,
                   servers |-> 0, lost |-> {}]

ExistsConnection(m, n) == \E c \in Range(cell[m].connections) : c.node = n

\* The first connections of a machine, and of PFS the ones to other nodes.
FirstConnection(r, n) ==
    LET m == Origin(r) IN
    /\ \/ cell[m] = NoCell /\ cell' = [cell EXCEPT ![m] = NewCell(FsOf[r[1]], n)]
       \/ /\ cell[m] # NoCell /\ FsOf[r[1]] = "PFS" /\ ~ExistsConnection(m, n)
          /\ cell' = [cell EXCEPT ![m].connections = Append(@, [node |-> n, id |-> NULL])]
    /\ CreateConnection(r, <<n, RealPort(n, StoragePort, m)>>)
    /\ UNCHANGED <<attached, pat, virtualPorts, listening, delivered, phase, connecting, replicas>>

\* Another job of a machine with NFS: answered at once.
NfsReplica(r, n) ==
    LET m == Origin(r) IN
    /\ cell[m] # NoCell /\ FsOf[r[1]] = "NFS"
    /\ Notify(m, 1)
    /\ UNCHANGED <<network, cell, replicas>>

\* Another job of a machine with PFS: a replica of the connections, answered when its last
\* connection finds the cell active.  The response is taken for that of a new connection.
PfsReplica(r, n) ==
    LET m == Origin(r)
        mine == SelectInSeq(replicas[m], LAMBDA e : e.job = r[1])
    IN
    /\ cell[m] # NoCell /\ FsOf[r[1]] = "PFS" /\ ExistsConnection(m, n)
    /\ IF mine = 0
       THEN /\ replicas' = [replicas EXCEPT ![m] =
                    Append(@, [job |-> r[1], left |-> Len(TargetsOf[r[1]]) - 1])]
            /\ UNCHANGED <<network, phase, connecting>>
       ELSE /\ replicas' = [replicas EXCEPT ![m][mine].left = @ - 1]
            /\ IF replicas[m][mine].left = 1 /\ cell[m].active
               THEN /\ ConnectionStablished(r, 0, NULL)
                    /\ Notify(m, 1)
                    /\ UNCHANGED <<attached, portPtr, portHoles, listening, connection, delivered>>
               ELSE UNCHANGED <<network, phase, connecting>>
    /\ UNCHANGED cell

\* A connection asked of the cell of a machine.  Its target listens already.
SetRemoteData(m) ==
    LET r == Head(asking[m]) IN
    /\ fault = "none" /\ asking[m] # <<>>
    /\ asking' = [asking EXCEPT ![m] = Tail(@)]
    /\ FirstConnection(r, r[2]) \/ NfsReplica(r, r[2]) \/ PfsReplica(r, r[2])
    /\ UNCHANGED <<apps, waiting, fault, lrep, io>>

\* AbstractStorageCell::active_remote_storage: the cell is active once no server is missing.
Activates(connections) == \A c \in Range(connections) : c.id # NULL

\* A connection of TCP is established and comes back to the cell, later than all that is
\* asked without delay.  The one that completes the cell is answered, with the replicas.
StorageEstablished(r) ==
    LET m == Origin(r)
        which == SelectInSeq(cell[m].connections, LAMBDA c : c.node = r[2] /\ c.id = NULL)
        connections == [cell[m].connections EXCEPT ![which].id = r]
    IN
    /\ fault = "none" /\ r \in StorageConnections /\ asking[m] = <<>>
    /\ Established(r)
    /\ IF Activates(connections)
       THEN /\ cell' = [cell EXCEPT ![m].connections = connections, ![m].active = TRUE,
                                    ![m].servers = Len(connections)]
            /\ Notify(m, 1 + Len(replicas[m]))
            /\ replicas' = [replicas EXCEPT ![m] = <<>>]
       ELSE /\ cell' = [cell EXCEPT ![m].connections = connections]
            /\ UNCHANGED <<phase, connecting, replicas>>
    /\ UNCHANGED <<apps, lrep, asking, io>>
-------------------------------------------------------------------------------
(* Operations.                                                             *)

\* SMS_PFS::splitRequest: how many requests an operation becomes.  A read has four, one
\* for each server in turn.
PfsParts(j, servers) ==
    CASE OperationOf[j] = "OPEN" -> servers
      [] OperationOf[j] = "CREATE" -> 2 * servers
      [] OperationOf[j] = "READ" -> 4

\* SMS_NFS::splitRequest
NfsParts(j) == IF OperationOf[j] = "READ" THEN NfsRequests ELSE 1

PartsOf(j) == IF FsOf[j] = "PFS" THEN PfsParts(j, Len(TargetsOf[j])) ELSE NfsParts(j)

\* The server that each part goes to; CREATE has two parts for each.
ServerOf(j, i, servers) ==
    CASE OperationOf[j] = "CREATE" -> 1 + (i \div 2)
      [] OTHER -> 1 + (i % servers)

SplitRequest(j, servers) ==
    [i \in 1 .. PfsParts(j, servers) |->
        [parent |-> j, part |-> i - 1, server |-> ServerOf(j, i - 1, servers)]]

ScheduleButLast(m, requests) ==
    /\ latency' = [latency EXCEPT ![m] = IF Len(requests) <= 1 THEN NULL ELSE Head(requests)]
    /\ queue' = [queue EXCEPT ![m] = IF requests = <<>> THEN <<>> ELSE Tail(requests)]

\* The sending of the queue: one request is in its latency while there are any.
Schedule(m, requests) ==
    /\ latency' = [latency EXCEPT ![m] = IF requests = <<>> THEN NULL ELSE Head(requests)]
    /\ queue' = [queue EXCEPT ![m] = IF requests = <<>> THEN <<>> ELSE Tail(requests)]

\* An operation reaches a cell that is not active and stays there: popEnqueueRequest() is
\* never called.
Enqueue(j) ==
    LET m == MachineOf[j] IN
    /\ ~cell[m].active
    /\ cell' = [cell EXCEPT ![m].lost = @ \union {j}]
    /\ UNCHANGED <<queue, latency, sent>>

\* Storage_cell_basic::processRequestMessage for the operation of a job.
PfsOperation(j) ==
    LET m == MachineOf[j]
        parts == SplitRequest(j, cell[m].servers)
    IN
    /\ cell[m].active /\ FsOf[j] = "PFS"
    /\ IF latency[m] = NULL THEN Schedule(m, queue[m] \o parts)
       ELSE queue' = [queue EXCEPT ![m] = @ \o parts] /\ UNCHANGED latency
    /\ UNCHANGED <<cell, sent>>

NfsOperation(j) ==
    /\ cell[MachineOf[j]].active /\ FsOf[j] = "NFS"
    /\ sent' = sent \union {[parent |-> j, part |-> 0, server |-> 1]}
    /\ UNCHANGED <<cell, queue, latency>>

Operation(j) ==
    /\ fault = "none" /\ j \in Jobs /\ phase[j] = "connected"
    /\ phase' = [phase EXCEPT ![j] = "sent"]
    /\ asked' = asked \union {j}
    /\ Enqueue(j) \/ PfsOperation(j) \/ NfsOperation(j)
    /\ UNCHANGED <<apps, network, waiting, fault, lrep, asking, replicas, connecting,
                   arrivedSubRequests, transferred, answered>>

\* Storage_cell_basic::processSelfMessage: a request is sent, and the next one waits.
EndOfLatency(m) ==
    /\ fault = "none" /\ latency[m] # NULL
    /\ sent' = sent \union {latency[m]}
    /\ Schedule(m, queue[m])
    /\ UNCHANGED <<apps, network, waiting, phase, fault, storage, arrivedSubRequests,
                   asked, transferred, answered>>

ArrivesAllButOne(j, arrived) == arrived[j] >= PartsOf(j) - 1

\* SplittingMessageSystem::arrivesAllSubRequest
ArrivesAllSubRequest(j, arrived) == arrived[j] = PartsOf(j)

\* The requests of an OPEN or CREATE of PFS are not linked to their operation when it is
\* split, but when they arrive, before being deleted: removeRequest() deletes them again.
DeletedAgain(j) == FsOf[j] = "PFS" /\ OperationOf[j] \in {"OPEN", "CREATE"}

\* A request has been served by the RemoteStorageApp of its target node, in any order, and
\* its response arrives: Storage_cell_basic::processResponseMessage.  NFS sends its
\* requests one after another.
Response(sub) ==
    LET j == sub.parent
        arrived == [arrivedSubRequests EXCEPT ![j] = @ + 1]
        others == sent \ {sub}
    IN
    /\ fault = "none" /\ sub \in sent
    /\ transferred' = [transferred EXCEPT ![j] = @ \union {sub.part}]
    /\ arrivedSubRequests' = arrived
    /\ IF ArrivesAllSubRequest(j, arrived)
       THEN /\ answered' = answered \union {j}
            /\ phase' = [phase EXCEPT ![j] = "done"]
            /\ fault' \in {"none"} \union (IF DeletedAgain(j) THEN {"deleted twice"} ELSE {})
            /\ sent' = others
       ELSE /\ sent' = IF FsOf[j] = "NFS" THEN others \union {[sub EXCEPT !.part = @ + 1]}
                       ELSE others
            /\ UNCHANGED <<answered, phase, fault>>
    /\ UNCHANGED <<apps, network, waiting, storage, queue, latency, asked>>
-------------------------------------------------------------------------------
\* AbstractNode::closeConnections at the host of a machine and at the storage nodes of its
\* jobs.  A machine without jobs has nothing to close.
CloseMachine(m) ==
    /\ fault = "none" /\ m \in attached
    /\ UserDone(UserOf[m])
    /\ \E a \in apps : MachineOf[a] = m
    /\ CloseConnections({HostOf[m]} \union {n \in Nodes : m \in lrep[n]}, m)
    /\ UNCHANGED <<apps, waiting, phase, storage, io>>

Init ==
    /\ apps \in Workloads
    /\ NetworkInit
    /\ lrep = [n \in Nodes |-> {}]
    /\ asking = [m \in Machines |-> <<>>]
    /\ cell = [m \in Machines |-> NoCell]
    /\ replicas = [m \in Machines |-> <<>>]
    /\ connecting = [m \in Machines |-> <<>>]
    /\ queue = [m \in Machines |-> <<>>]
    /\ latency = [m \in Machines |-> NULL]
    /\ sent = {}
    /\ arrivedSubRequests = [j \in Jobs |-> 0]
    /\ asked = {} /\ answered = {}
    /\ transferred = [j \in Jobs |-> {}]

Next ==
    \/ NetworkNext /\ UNCHANGED <<storage, io>>
    \/ \E j \in Jobs : ConnectToStorage(j) \/ Operation(j)
    \/ \E m \in Machines : SetRemoteData(m) \/ EndOfLatency(m) \/ CloseMachine(m)
    \/ \E r \in StorageConnections : StorageEstablished(r)
    \/ \E sub \in sent : Response(sub)

\* What happens once the jobs have started: each job asks once, so these steps end.
Progress ==
    \/ /\ \/ \E c \in Clients : ClientEstablished(c) \/ Send(c) \/ Deliver(c) \/ Answer(c)
          \/ \E r \in Requests : AliasEstablished(r)
          \/ \E n \in Nodes : CheckPendingMessages(n)
       /\ UNCHANGED <<storage, io>>
    \/ \E j \in Jobs : Operation(j)
    \/ \E m \in Machines : SetRemoteData(m) \/ EndOfLatency(m)
    \/ \E r \in StorageConnections : StorageEstablished(r)
    \/ \E sub \in sent : Response(sub)

\* Messages arrive, latencies and services end, alarms go off.  Nothing makes a job start.
Fairness == WF_vars(Progress)

Spec == Init /\ [][Next]_vars /\ Fairness
-------------------------------------------------------------------------------
(* Properties.                                                             *)

\* A job's operation is answered once, and after the target nodes have served all its
\* parts, whatever the order of their latencies and answers.
Abstract == INSTANCE AbstractVolume WITH
    Requests <- Jobs, Blocks <- [j \in Jobs |-> 0 .. PartsOf(j) - 1]

KeepsPromise == Abstract!Spec

\* Until a machine is closed nothing stops the simulation but the double deletion of the
\* requests of OPEN and CREATE: the ports that PAT gives never collide.
StopsOnlyAfterClose ==
    fault \notin {"none", "deleted twice"} => attached # Machines

\* A job that has asked for its storage gets its operation answered, and a client that has
\* a connection gets its response, unless an error stops the simulation; but an operation
\* that found its cell not yet active is not answered.  (Each job starts once, so that what
\* has started has ended from some moment on.)
JobsAnswered ==
    /\ PendingDecided
    /\ <>[](fault = "none" =>
          /\ \A j \in Jobs : \/ phase[j] \in {"idle", "done"}
                             \/ j \in cell[MachineOf[j]].lost
          /\ \A c \in Clients :
                connection[c].status \in {"opening", "open"} => phase[c] = "done")
================================================================================
