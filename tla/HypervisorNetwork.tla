--------------------------- MODULE HypervisorNetwork ---------------------------
(***************************************************************************)
(* The network manager of the hypervisors: the decisions of                *)
(* H_NET_SCHED_FIFO and H_NETManager_Base, the translation of ports        *)
(* (LocalNetManager, PortAddressTranslation), the port tables and virtual  *)
(* addresses of NetworkManager, and the TCP services of each node.         *)
(*                                                                         *)
(* A server listens at a virtual port of its machine; a client asks for    *)
(* the virtual address and port of a server of its user, and waits in its  *)
(* node while nobody listens there.  Virtual addresses are per user.       *)
(* Messages without delay inside a node belong to the step that sends      *)
(* them; a connection of INET takes time.                                  *)
(***************************************************************************)
EXTENDS Naturals, Sequences, FiniteSets, FiniteSetsExt, SequencesExt, Functions, Filters

CONSTANTS
    Nodes, Machines,
    Servers, Clients,       \* jobs that use the network
    Jobs,                   \* jobs that use remote storage
    UserOf, HostOf, VipOf,  \* of each machine
    MachineOf,              \* of each job
    PortOf,                 \* virtual port at which a server listens or a client asks
    AddressOf,              \* virtual address that a client asks for
    StorageConnections,     \* a connection for each job and target node
    FirstPort, LastPort,    \* 1024 and 65535
    MaxTimes,               \* times that a request is retried: 60
    ConnectionTimeOut,      \* parameter of the network manager
    NULL

Requests == Clients \union StorageConnections

ASSUME NetworkAssumption ==
    /\ Servers \intersect Clients = {} /\ Clients \intersect Jobs = {} /\ Jobs \intersect Servers = {}
    /\ Clients \intersect StorageConnections = {}
    /\ HostOf \in [Machines -> Nodes]
    \* the identifiers of users and machines are those of modules, and differ
    /\ \A m \in Machines : UserOf[m] \notin Machines
    \* the virtual addresses of a user differ
    /\ \A m, o \in Machines : UserOf[m] = UserOf[o] /\ VipOf[m] = VipOf[o] => m = o
    /\ MachineOf \in [Servers \union Clients \union Jobs -> Machines]
    /\ FirstPort \in Nat \ {0} /\ LastPort \in Nat /\ FirstPort <= LastPort
    /\ NULL \notin Nat
    /\ MaxTimes \in Nat /\ ConnectionTimeOut \in Nat
    /\ ConnectionTimeOut <= MaxTimes
    /\ StorageConnections \subseteq Jobs \X Nodes
    /\ \A c \in Clients : \E m \in Machines :
          UserOf[m] = UserOf[MachineOf[c]] /\ VipOf[m] = AddressOf[c]

VARIABLES
    apps,           \* the jobs that the users of this behaviour have
    attached,       \* machines that have a virtual address
    ports,          \* PAT: ports of each machine, per node; empty if it has no cell
    portPtr, portHoles, freePorts,      \* PAT of each node: ports given, returned, in use
    virtualPorts,   \* the port table of each node
    listening,      \* TCP service of each node: ports and jobs that listen
    pendingConnections,     \* of each node: requests for ports that nobody listens to
    alarms,         \* self-messages that wait to check them
    connection,     \* the TCP connection of each request
    phase,          \* of each job
    delivered,      \* history: the jobs that have received a request
    fault

pat == <<ports, portPtr, portHoles, freePorts>>
network == <<attached, pat, virtualPorts, listening, connection, delivered>>
waiting == <<pendingConnections, alarms>>
-------------------------------------------------------------------------------
(* The network manager: virtual addresses and tables of ports.             *)

Owner(r) == IF r \in Clients THEN r ELSE r[1]
Origin(r) == MachineOf[Owner(r)]
NodeOf(r) == HostOf[Origin(r)]

AddressedByAnyUser(user, vip) == {m \in attached : VipOf[m] = vip}

\* NetworkManager::searchNodeIP, followed by getVMid: the machine of a user with a
\* virtual address.
Addressed(user, vip) == {m \in attached : UserOf[m] = user /\ VipOf[m] = vip}

RowExchanged(v, real, m, user) == [virtual |-> real, real |-> v, vm |-> m, user |-> user]

\* PortTable::registerPort
Row(v, real, m, user) == [virtual |-> v, real |-> real, vm |-> m, user |-> user]

\* PortTable::getRealPort.  The first entry found wins.
RealPort(n, v, m) ==
    LET first == SelectInSeq(virtualPorts[n],
                             LAMBDA t : t.virtual = v /\ t.vm = m /\ t.user = UserOf[m])
    IN  IF first = 0 THEN NULL ELSE virtualPorts[n][first].real

\* LocalNetManager::manage_createConnection for a client: where to connect to, or NULL if
\* nobody listens at the port.  The address is that of a machine of the same user, which
\* closes none of its machines before its clients have ended.
Destination(c) ==
    LET m == CHOOSE m \in Addressed(UserOf[Origin(c)], AddressOf[c]) : TRUE
        real == RealPort(HostOf[m], PortOf[c], m)
    IN  IF real = NULL THEN NULL ELSE <<HostOf[m], real>>
-------------------------------------------------------------------------------
(* Translation of ports.                                                   *)

ListeningPorts(n) == {listening[n][i].port : i \in DOMAIN listening[n]}

NewPortBeforeIncrement(n) ==
    IF portHoles[n] # <<>> THEN Head(portHoles[n])
    ELSE IF portPtr[n] = LastPort THEN NULL
    ELSE Max({FirstPort, portPtr[n] - 1})

\* PortAddressTranslation::getNewPort: NULL when there is no free port.
NewPort(n) ==
    IF portHoles[n] # <<>> THEN Head(portHoles[n])
    ELSE IF portPtr[n] = LastPort THEN NULL
    ELSE Min({p \in portPtr[n] .. LastPort + Cardinality(freePorts[n]) : p \notin freePorts[n]})

\* A job of machine m listens at a virtual port at some nodes: manage_listen and
\* newListenConnection.  A second listener for a port is an error.
Listens(at, m, v, a) ==
    IF \E n \in at : NewPort(n) = NULL \/ NewPort(n) \in ListeningPorts(n)
    THEN fault' = "listen" /\ UNCHANGED network
    ELSE /\ portHoles' = [n \in Nodes |->
                IF n \in at /\ portHoles[n] # <<>> THEN Tail(portHoles[n]) ELSE portHoles[n]]
         /\ portPtr' = [n \in Nodes |->
                IF n \in at /\ portHoles[n] = <<>> THEN NewPort(n) + 1 ELSE portPtr[n]]
         /\ freePorts' = [n \in Nodes |->
                IF n \in at THEN freePorts[n] \union {NewPort(n)} ELSE freePorts[n]]
         /\ ports' = [n \in Nodes |->
                IF n \in at
                THEN [ports[n] EXCEPT ![m] =
                        Append(ports[n][m], [real |-> NewPort(n), virtual |-> v, id |-> NULL])]
                ELSE ports[n]]
         /\ virtualPorts' = [n \in Nodes |->
                IF n \in at THEN Append(virtualPorts[n], Row(v, NewPort(n), m, UserOf[m]))
                ELSE virtualPorts[n]]
         /\ listening' = [n \in Nodes |->
                IF n \in at THEN Append(listening[n], [port |-> NewPort(n), app |-> a])
                ELSE listening[n]]
         /\ UNCHANGED <<attached, connection, delivered, fault>>

\* LocalNetManager::connectionStablished.  The entry of the port table has the
\* identifiers of machine and user exchanged, and is neither found nor freed later.
ConnectionStablished(r, local, id) ==
    LET n == NodeOf(r)
        m == Origin(r)
        entries == Append(ports[n][m], [real |-> local, virtual |-> local, id |-> NULL])
        first == SelectInSeq(entries, LAMBDA e : e.real = local)
    IN  /\ ports' = [ports EXCEPT ![n][m] = [entries EXCEPT ![first].id = id]]
        /\ freePorts' = [freePorts EXCEPT ![n] = @ \union {local}]
        /\ virtualPorts' = [virtualPorts EXCEPT ![n] = Append(@, Row(local, local, UserOf[m], m))]

\* manage_listen for a server, and the creation of its cell, pat_createVM.
Listen(a) ==
    LET m == MachineOf[a] IN
    /\ fault = "none" /\ a \in apps \intersect Servers /\ phase[a] = "idle"
    /\ phase' = [phase EXCEPT ![a] = "listening"]
    /\ Listens({HostOf[m]}, m, PortOf[a], a)
    /\ UNCHANGED <<apps, waiting>>
-------------------------------------------------------------------------------
(* Connections.                                                            *)

NoConnection == [status |-> "none", local |-> NULL, node |-> NULL, remote |-> NULL]

\* Any port that the TCP module of the node does not use.
Ephemeral(n) ==
    (FirstPort .. LastPort - 1) \ (ListeningPorts(n) \union
        {connection[r].local : r \in {r \in Requests : NodeOf(r) = n
                                        /\ connection[r].status \in {"opening", "open"}}})

\* Sockets that closeConnection() has deleted and that TCP_ClientSideService still has.
Dangling(n) == \E r \in Requests : NodeOf(r) = n /\ connection[r].status = "closed"

\* TCP_ClientSideService::createConnection.  The new socket may take the memory of one
\* that was deleted; it is then mistaken for it when it is established.
CreateConnection(r, to) ==
    \E p \in Ephemeral(NodeOf(r)) :
    \E status \in {"opening"} \union (IF Dangling(NodeOf(r)) THEN {"aliased"} ELSE {}) :
        connection' = [connection EXCEPT ![r] =
            [status |-> status, local |-> p, node |-> to[1], remote |-> to[2]]]

\* SM_CREATE_CONNECTION in H_NET_SCHED_FIFO::schedulingNET, and enqueuePendingMessage.
AskConnection(c) ==
    LET n == HostOf[MachineOf[c]]
        to == Destination(c)
    IN
    /\ fault = "none" /\ c \in apps \intersect Clients /\ phase[c] = "idle"
    /\ phase' = [phase EXCEPT ![c] = "asking"]
    /\ \/ /\ to = NULL
          /\ pendingConnections' = [pendingConnections EXCEPT
                    ![n] = Append(@, [request |-> c, times |-> 0])]
          /\ alarms' = [alarms EXCEPT ![n] = @ + 1]
          /\ UNCHANGED <<network, fault>>
       \/ /\ to # NULL
          /\ CreateConnection(c, to)
          /\ UNCHANGED <<attached, pat, virtualPorts, listening, delivered, waiting, fault>>
    /\ UNCHANGED apps

Established(r) ==
    /\ connection[r].status = "opening"
    /\ connection' = [connection EXCEPT ![r].status = "open"]
    /\ ConnectionStablished(r, connection[r].local, r)
    /\ UNCHANGED <<attached, portPtr, portHoles, listening, delivered, waiting, fault>>

\* TCP_ClientSideService::socketEstablished and H_NETManager_Base::processResponseMessage.
ClientEstablished(c) ==
    /\ fault = "none" /\ c \in Clients
    /\ Established(c)
    /\ phase' = [phase EXCEPT ![c] = "connected"]
    /\ UNCHANGED apps

\* searchConnectionByConnId() finds the deleted socket, which has no message.
AliasEstablished(r) ==
    /\ fault = "none" /\ connection[r].status = "aliased"
    /\ fault' = "deleted socket"
    /\ UNCHANGED <<apps, network, waiting, phase>>
-------------------------------------------------------------------------------
(* Requests that wait: H_NETManager_Base::checkPendingMessages.            *)

Expired(e) == e.times > MaxTimes /\ e.times > ConnectionTimeOut
Found(e) == e.times <= MaxTimes /\ Destination(e.request) # NULL

LeavesQueue(e) == Expired(e) \/ Found(e)

\* The alarm after a second.  Erasing an element skips the one behind it; an element that
\* stays sets an alarm of its own.  A client whose port is found leaves the queue too, but
\* only requests of storage are sent on.
CheckPendingMessages(n) ==
    LET queue == pendingConnections[n]
        visited[i \in DOMAIN queue] ==
            i = 1 \/ ~(visited[i - 1] /\ LeavesQueue(queue[i - 1]))
        leaves(i) == visited[i] /\ LeavesQueue(queue[i])
        stay == {i \in DOMAIN queue : ~leaves(i)}
        order == Filter([i \in DOMAIN queue |-> i], stay)
        retried == {i \in stay : visited[i] /\ queue[i].times <= MaxTimes}
        expired == {queue[i].request : i \in {i \in DOMAIN queue : leaves(i) /\ Expired(queue[i])}}
    IN
    /\ fault = "none" /\ alarms[n] > 0
    /\ pendingConnections' = [pendingConnections EXCEPT ![n] =
            [k \in DOMAIN order |->
                IF visited[order[k]] THEN [queue[order[k]] EXCEPT !.times = @ + 1]
                ELSE queue[order[k]]]]
    /\ alarms' = [alarms EXCEPT ![n] = @ - 1 + Cardinality(retried)]
    /\ phase' = [a \in DOMAIN phase |-> IF a \in expired THEN "port not open" ELSE phase[a]]
    /\ UNCHANGED <<apps, network, fault>>
-------------------------------------------------------------------------------
(* Messages through a connection.                                          *)

\* manage_sendMessage and sendPacketToServer.  The connection decides where it goes.
Send(c) ==
    /\ fault = "none" /\ c \in Clients /\ phase[c] = "connected"
    /\ phase' = [phase EXCEPT ![c] = "sent"]
    /\ UNCHANGED <<apps, network, waiting, fault>>

\* TCP_ServerSideService::getAppIndexFromPort
AppIndexFromPort(n, port) ==
    listening[n][SelectInSeq(listening[n], LAMBDA l : l.port = port)].app

\* TCP_ServerSideService::socketDataArrived gives the job, and
\* H_NETManager_Base::getGateByVIP the machine.
Deliver(c) ==
    LET n == connection[c].node
        job == AppIndexFromPort(n, connection[c].remote)
        gates == {m \in Addressed(UserOf[MachineOf[c]], AddressOf[c]) : HostOf[m] = n}
    IN
    /\ fault = "none" /\ c \in Clients /\ phase[c] = "sent"
    /\ IF gates = {}
       THEN fault' = "no gate" /\ UNCHANGED <<delivered, phase>>
       ELSE /\ delivered' = delivered \union {<<c, job, m>> : m \in gates}
            /\ phase' = [phase EXCEPT ![c] = "delivered"]
            /\ UNCHANGED fault
    /\ UNCHANGED <<apps, attached, pat, virtualPorts, listening, connection, waiting>>

\* The response goes back through the connection, and the job of the client ends.
Answer(c) ==
    /\ fault = "none" /\ c \in Clients /\ phase[c] = "delivered"
    /\ phase' = [phase EXCEPT ![c] = "done"]
    /\ UNCHANGED <<apps, network, waiting, fault>>

\* A server ends after its clients have.
ServerEnds(a) ==
    LET m == MachineOf[a] IN
    /\ fault = "none" /\ a \in Servers /\ phase[a] = "listening"
    /\ \A c \in apps \intersect Clients :
          UserOf[MachineOf[c]] = UserOf[m] /\ AddressOf[c] = VipOf[m] /\ PortOf[c] = PortOf[a]
             => phase[c] = "done"
    /\ phase' = [phase EXCEPT ![a] = "done"]
    /\ UNCHANGED <<apps, network, waiting, fault>>
-------------------------------------------------------------------------------
(* The connections of a machine are closed.                                *)

Connected(n, m) == SelectSeq(ports[n][m], LAMBDA e : e.id # NULL)

\* LocalNetManager::manage_close_connections at some nodes, PortAddressTranslation's
\* pat_closeVM, and TCP_ClientSideService::closeConnection.  The ports that the machine
\* listens to are not returned, and nobody stops listening to them.
CloseConnections(at, m) ==
    LET mates == {o \in Machines : UserOf[o] = UserOf[m]}
        real(n) == [i \in DOMAIN Connected(n, m) |-> Connected(n, m)[i].real]
        rest(n) == {t \in Range(virtualPorts[n]) : ~(t.vm = m /\ t.user = UserOf[m])}
        closed == {e.id : e \in UNION {Range(Connected(n, m)) : n \in at}}
    IN
    IF \E n \in at : \A o \in mates : ports[n][o] = <<>>
    THEN fault' = "no user" /\ UNCHANGED network
    ELSE /\ attached' = attached \ {m}
         /\ virtualPorts' = [n \in Nodes |->
                IF n \in at
                THEN Filter(virtualPorts[n], rest(n))
                ELSE virtualPorts[n]]
         /\ portHoles' = [n \in Nodes |->
                IF n \in at THEN portHoles[n] \o real(n) ELSE portHoles[n]]
         /\ freePorts' = [n \in Nodes |->
                IF n \in at THEN freePorts[n] \ Range(real(n)) ELSE freePorts[n]]
         /\ ports' = [n \in Nodes |->
                IF n \in at THEN [ports[n] EXCEPT ![m] = <<>>] ELSE ports[n]]
         /\ connection' = [r \in Requests |->
                IF r \in closed THEN [connection[r] EXCEPT !.status = "closed"] ELSE connection[r]]
         /\ UNCHANGED <<portPtr, listening, delivered, fault>>

\* A user closes its machines once its jobs have ended (RemoteStorageApp::closeConnection).
UserDone(u) ==
    \A a \in apps : UserOf[MachineOf[a]] = u => phase[a] = "done"
-------------------------------------------------------------------------------
NetworkInit ==
    /\ attached = Machines
    /\ ports = [n \in Nodes |-> [m \in Machines |-> <<>>]]
    /\ portPtr = [n \in Nodes |-> FirstPort]
    /\ portHoles = [n \in Nodes |-> <<>>]
    /\ freePorts = [n \in Nodes |-> {}]
    /\ virtualPorts = [n \in Nodes |-> <<>>]
    /\ listening = [n \in Nodes |-> <<>>]
    /\ pendingConnections = [n \in Nodes |-> <<>>]
    /\ alarms = [n \in Nodes |-> 0]
    /\ connection = [r \in Requests |-> NoConnection]
    /\ phase = [a \in Servers \union Clients \union Jobs |-> "idle"]
    /\ delivered = {}
    /\ fault = "none"

NetworkNext ==
    \/ \E a \in Servers : Listen(a) \/ ServerEnds(a)
    \/ \E c \in Clients : \/ AskConnection(c) \/ ClientEstablished(c) \/ Send(c)
                          \/ Deliver(c) \/ Answer(c)
    \/ \E r \in Requests : AliasEstablished(r)
    \/ \E n \in Nodes : CheckPendingMessages(n)
-------------------------------------------------------------------------------
(* Properties.                                                             *)

\* A message reaches the job that listens at the address and port its client asked for,
\* at the machine of the client's user, whatever machines of other users have the same
\* address, and whatever ports were given before.
DeliveredToAddressee ==
    \A d \in delivered :
        LET c == d[1] job == d[2] m == d[3] IN
        /\ MachineOf[job] = m
        /\ UserOf[m] = UserOf[MachineOf[c]]
        /\ VipOf[m] = AddressOf[c] /\ PortOf[job] = PortOf[c]

\* The three tables of a node agree: a port that the network manager gives out for a
\* machine is translated back by the machine's cell and is listened to by a job of that
\* machine, and no real port has two listeners.
TablesAgree ==
    \A n \in Nodes :
        /\ \A i, j \in DOMAIN listening[n] :
              listening[n][i].port = listening[n][j].port => i = j
        /\ \A t \in Range(virtualPorts[n]) : t.vm \in Machines =>
              /\ \E e \in Range(ports[n][t.vm]) : e.real = t.real /\ e.virtual = t.virtual
              /\ \E l \in Range(listening[n]) :
                    l.port = t.real /\ MachineOf[l.app] = t.vm

\* A request that waits for a port is either found or refused: the alarms do not run out
\* while something waits, although erasing an element skips the next one.
PendingDecided ==
    <>[](fault = "none" => \A n \in Nodes : pendingConnections[n] = <<>>)
================================================================================
