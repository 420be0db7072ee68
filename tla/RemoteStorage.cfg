SPECIFICATION Spec
CONSTANTS
    h = h
    g = g
    s = s
    va = va
    vb = vb
    vc = vc
    vd = vd
    server = server
    server2 = server2
    server3 = server3
    server4 = server4
    server5 = server5
    client = client
    client2 = client2
    client3 = client3
    read = read
    open = open
    create = create
    nread = nread
    nopen = nopen
    NULL = NULL
    Nodes = {h, g, s}
    Machines = {va, vb, vc, vd}
    Servers = {server, server2, server3, server4, server5}
    Clients = {client, client2, client3}
    Jobs = {read, open, create, nread, nopen}
    UserOf <- MCUsers
    HostOf <- MCHosts
    VipOf <- MCVips
    MachineOf <- MCMachineOf
    PortOf <- MCPorts
    AddressOf <- MCAddresses
    StorageConnections <- MCConnections
    FirstPort = 1024
    LastPort = 1027
    MaxTimes = 1
    ConnectionTimeOut = 1
    Workloads <- MCWorkloads
    TargetsOf <- MCTargets
    FsOf <- MCFs
    OperationOf <- MCOperations
    NfsRequests = 2
    StoragePort = 20
INVARIANTS
    DeliveredToAddressee
    TablesAgree
    StopsOnlyAfterClose
PROPERTIES
    JobsAnswered
    KeepsPromise
CHECK_DEADLOCK FALSE
