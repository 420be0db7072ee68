---------------------------- MODULE CloudLifecycle ----------------------------
(***************************************************************************)
(* The life of virtual machines: cloud users (GeneralUser) request them,   *)
(* run container jobs on them and give them back; the cloud manager        *)
(* (AbstractCloudManager with CloudSchedulerFCFS) places them on nodes and *)
(* destroys them once the file system of the machine was formatted and its *)
(* connections were closed, which two separate notifications report.       *)
(*                                                                         *)
(* The requests of the users travel through the queue of module            *)
(* RequestsManagement.  One walk of schedule() over the queue is one       *)
(* simulation event: while cursor # 0 no other action is enabled.          *)
(*                                                                         *)
(* Each job has one local storage request (configuration without remote    *)
(* file systems), and all machines are of one type.                        *)
(***************************************************************************)
EXTENDS Naturals, Sequences, FiniteSets, SequencesExt, Filters

CONSTANTS
    Users,
    Jobs,
    JobsOf,       \* container jobs of each user, in the order of their submission
    VmQuantity,   \* machines each user may select
    NumNodes,     \* compute nodes, in the order of the node map
    MaxVmsPerNode, \* maximum_number_of_processes_per_node
    MaxVMs        \* machines ever created (bound of the model)

Nodes == 1 .. NumNodes
VMs   == 1 .. MaxVMs

ASSUME CloudAssumption ==
    /\ JobsOf \in [Users -> Seq(Jobs)]
    /\ \A u \in Users : JobsOf[u] # <<>> /\ IsInjective(JobsOf[u])
    /\ \A u, w \in Users : u # w => ToSet(JobsOf[u]) \cap ToSet(JobsOf[w]) = {}
    /\ \A j \in Jobs : \E u \in Users : j \in ToSet(JobsOf[u])
    /\ VmQuantity \in [Users -> Nat \ {0}]
    /\ NumNodes \in Nat \ {0} /\ MaxVmsPerNode \in Nat \ {0} /\ MaxVMs \in Nat

VARIABLES
    user,         \* what each user keeps (see UserState)
    selfMessages, \* alarms each user has set itself
    vm,           \* state and pending_operation of each machine
    requestsQueue, temporalRequestsQueue, cursor,  \* of RequestsManagement
    selectionQuantity, \* machines that a user's start request still asks for
    nextPid,      \* the next machine to be created
    hostOf,       \* instancedVMs: the node each machine is linked to, 0 if none
    nodesOn,
    pendingStorageRequests, \* jobs whose storage the nodes are preparing
    pendingRemoteStorageDeletion, connectionsDeletion, \* notifications due per machine
    reqPendingToDelete, \* machines whose shutdown request was attended, not yet notified
    userList,
    arrived,      \* users the generator has created
    no_more_users,
    executions,   \* times each job has run to its end
    ended,        \* finalizeManager was called
    fault         \* a run-time error ended the simulation

queueVars   == <<requestsQueue, temporalRequestsQueue, cursor>>
managerVars == <<selectionQuantity, nextPid, hostOf, nodesOn, pendingStorageRequests,
                 pendingRemoteStorageDeletion, connectionsDeletion, reqPendingToDelete>>
tenantVars  == <<userList, arrived, no_more_users>>
vars == <<user, selfMessages, vm, queueVars, managerVars, tenantVars, executions, ended, fault>>

\* compareReq tells requests apart by operation, user and process.
StartVM(u)  == <<"REQUEST_START_VM", u>>
Storage(j)  == <<"CONTAINER_REQUEST_LOCAL_STORAGE", j>>
Free(v)     == <<"REQUEST_FREE_RESOURCES", v>>
Abandon(u)  == <<"REQUEST_ABANDON_SYSTEM", u>>

StartRequests   == {StartVM(u) : u \in Users}
StorageRequests == {Storage(j) : j \in Jobs}
Requests == StartRequests \cup StorageRequests \cup {Free(v) : v \in VMs}
                          \cup {Abandon(u) : u \in Users}

Queue == INSTANCE RequestsManagement WITH MaxSent <- Cardinality(Jobs)

UserState == [
    containerWaitingQueue : Seq(Jobs),
    waitingForStorage     : SUBSET Jobs,  \* container_waiting_for_remote_storage_Queue
    containerRunningQueue : SUBSET Jobs,
    machinesMap           : Seq(VMs),
    machine               : [Jobs -> 0 .. MaxVMs],
    pendingVmsAtStartup   : Nat,
    pending_shutdown_requests : Nat,
    vms_waiting_remote_st : [VMs -> Nat], \* how often a machine is in the vector
    userFinalizing        : BOOLEAN]

Owner(v) == CHOOSE u \in Users : v \in ToSet(user[u].machinesMap)

Init ==
    /\ user = [u \in Users |->
                 [containerWaitingQueue |-> JobsOf[u], waitingForStorage |-> {},
                  containerRunningQueue |-> {}, machinesMap |-> <<>>,
                  machine |-> [j \in Jobs |-> 0], pendingVmsAtStartup |-> 0,
                  pending_shutdown_requests |-> 0,
                  vms_waiting_remote_st |-> [v \in VMs |-> 0],
                  userFinalizing |-> FALSE]]
    /\ selfMessages = [u \in Users |-> 0]
    /\ vm = [v \in VMs |-> [state |-> "off", pending |-> "NOT_PENDING_OPS"]]
    /\ Queue!Init
    /\ selectionQuantity = [u \in Users |-> 0]
    /\ nextPid = 1
    /\ hostOf = [v \in VMs |-> 0]
    /\ nodesOn = {}
    /\ pendingStorageRequests = {}
    /\ pendingRemoteStorageDeletion = [v \in VMs |-> 0]
    /\ connectionsDeletion = [v \in VMs |-> 0]
    /\ reqPendingToDelete = {}
    /\ userList = {} /\ arrived = {} /\ no_more_users = FALSE
    /\ executions = [j \in Jobs |-> 0]
    /\ ended = FALSE /\ fault = FALSE
-------------------------------------------------------------------------------
(* What a user does.  A handler is a function of w, the user's world: its  *)
(* own state u, the machines vm, and out, the requests it sends.           *)

World(u) == [u |-> user[u], vm |-> vm, out |-> <<>>]

\* Mutant: a machine with a pending operation is taken for free.
FreeVMAnyPending(w, v) == w.vm[v].state = "idle"

FreeVM(w, v) == w.vm[v].pending = "NOT_PENDING_OPS" /\ w.vm[v].state = "idle"
FreeVMs(w)    == Filter(w.u.machinesMap, {v \in VMs : FreeVM(w, v)})

\* The processes of a machine's operating system: createProcess puts a job there
\* when it is assigned, removeProcess takes it out when it ends.
Processes(w, v) ==
    {j \in w.u.waitingForStorage \cup w.u.containerRunningQueue : w.u.machine[j] = v}

\* Mutant: the shutdown is requested, the machine is not marked and not counted.
ShutdownVMsUnmarked(w, vs) ==
    LET on == Filter(vs, {v \in VMs : w.vm[v].state # "off"}) IN
    [w EXCEPT !.out = @ \o [i \in 1 .. Len(on) |-> Free(on[i])]]

\* shutdown_VM for each machine of vs: nothing happens to one that is off.
ShutdownVMs(w, vs) ==
    LET on == Filter(vs, {v \in VMs : w.vm[v].state # "off"}) IN
    [w EXCEPT !.u.pending_shutdown_requests = @ + Len(on),
              !.vm = [v \in VMs |-> IF v \in ToSet(on)
                                    THEN [@[v] EXCEPT !.pending = "PENDING_SHUTDOWN"]
                                    ELSE @[v]],
              !.out = @ \o [i \in 1 .. Len(on) |-> Free(on[i])]]

\* Each job of DOMAIN h gets the machine h[job] and requests its storage; the jobs of
\* rest still wait.
Assign(w, h, rest, requests) ==
    LET used == {h[j] : j \in DOMAIN h} IN
    [w EXCEPT !.u.containerWaitingQueue = rest,
              !.u.waitingForStorage = @ \cup DOMAIN h,
              !.u.machine = [j \in Jobs |-> IF j \in DOMAIN h THEN h[j] ELSE @[j]],
              !.u.vms_waiting_remote_st = [v \in VMs |-> IF v \in used THEN @[v] + 1 ELSE @[v]],
              !.vm = [v \in VMs |-> IF v \in used
                                    THEN [@[v] EXCEPT !.pending = "PENDING_STORAGE"] ELSE @[v]],
              !.out = @ \o requests]

\* createFSforContainerJob: the first jobs waiting get the free machines, in the
\* order of the machines map, and request their storage.
AssignJobs(w) ==
    LET free == FreeVMs(w)
        cwq  == w.u.containerWaitingQueue
        n    == IF Len(free) < Len(cwq) THEN Len(free) ELSE Len(cwq)
        vmOf == [j \in {cwq[i] : i \in 1 .. n} |->
                   free[CHOOSE i \in 1 .. n : cwq[i] = j]]
    IN  Assign(w, vmOf, SubSeq(cwq, n + 1, Len(cwq)), [i \in 1 .. n |-> Storage(cwq[i])])

\* GeneralUser::schedule.  When jobs are left without a free machine, the first one
\* goes to the end; when none is left, the machines that are not used are given back.
Schedule(w) ==
    LET a     == AssignJobs(w)
        cwq   == a.u.containerWaitingQueue
        anyOn == \E v \in ToSet(a.u.machinesMap) : a.vm[v].state # "off"
    IN
    IF cwq # <<>>
    THEN IF anyOn THEN [a EXCEPT !.u.containerWaitingQueue = Append(Tail(cwq), Head(cwq))] ELSE a
    ELSE ShutdownVMs(a, Filter(FreeVMs(a), {v \in VMs : Processes(a, v) = {}}))

ScheduleUnlessFinalizing(w) == IF w.u.userFinalizing THEN w ELSE Schedule(w)

\* The jobs whose machine waits for no storage start (start_up_container_job_execution).
ExecutePendingJobs(w) ==
    LET ready == {j \in w.u.waitingForStorage :
                     w.u.vms_waiting_remote_st[w.u.machine[j]] = 0}
        used  == {w.u.machine[j] : j \in ready}
    IN
    [w EXCEPT !.u.waitingForStorage = @ \ ready,
              !.u.containerRunningQueue = @ \cup ready,
              !.vm = [v \in VMs |-> IF v \in used THEN [@[v] EXCEPT !.state = "running"] ELSE @[v]]]

\* requestAttended of a start request: the machines that no waiting job needs are shut
\* down, which does nothing to a machine that is still off, and dropped from the request.
KeptVMs(w, vs) ==
    LET n == Len(w.u.containerWaitingQueue) IN
    SubSeq(vs, 1, IF n < Len(vs) THEN n ELSE Len(vs))

\* notify_UserRequestAttendeed for REQUEST_START_VM with the machines vs.
StartAttended(w, vs) ==
    LET added == [w EXCEPT !.u.machinesMap = @ \o vs]
        kept  == KeptVMs(w, vs)
        less  == ShutdownVMs(added, SubSeq(vs, Len(kept) + 1, Len(vs)))
        up    == [less EXCEPT
                    !.u.pendingVmsAtStartup = @ - Len(kept),
                    !.vm = [v \in VMs |-> IF v \in ToSet(kept)
                                          THEN [state |-> "idle", pending |-> "NOT_PENDING_OPS"]
                                          ELSE @[v]]]
    IN  ScheduleUnlessFinalizing(up)

\* notify_UserRequestAttendeed for the storage request of job j.
StorageAttended(w, j) ==
    LET v    == w.u.machine[j]
        less == [w EXCEPT !.u.vms_waiting_remote_st[v] = @ - 1]
        idle == IF less.u.vms_waiting_remote_st[v] = 0
                THEN [less EXCEPT !.vm[v] = [state |-> "idle", pending |-> "NOT_PENDING_OPS"]]
                ELSE less
    IN  ScheduleUnlessFinalizing(ExecutePendingJobs(idle))

\* Mutant: the machine is not set idle when its last process is gone.
JobFinishedStaysRunning(w, j) ==
    LET v       == w.u.machine[j]
        waiting == w.u.containerWaitingQueue # <<>>
        given   == IF Cardinality(Processes(w, v)) = 1 /\ ~waiting THEN ShutdownVMs(w, <<v>>) ELSE w
    IN  [given EXCEPT !.u.containerRunningQueue = @ \ {j}]

\* notify_UserContainerJobHasFinished: containerjobHasFinished gives the machine back
\* when no job is waiting, otherwise the user wakes itself up to schedule.
JobFinished(w, j) ==
    LET v       == w.u.machine[j]
        waiting == w.u.containerWaitingQueue # <<>>
        given   == IF Cardinality(Processes(w, v)) = 1 /\ ~waiting THEN ShutdownVMs(w, <<v>>) ELSE w
        moved   == [given EXCEPT !.u.containerRunningQueue = @ \ {j}]
    IN  IF Processes(moved, v) = {} THEN [moved EXCEPT !.vm[v].state = "idle"] ELSE moved

\* AbstractUser::finalizeUser: leaves unless requests are pending (hasPendingRequests).
FinalizeUser(w, u) ==
    IF \E v \in VMs : w.u.vms_waiting_remote_st[v] # 0
    THEN [w EXCEPT !.u.userFinalizing = FALSE]
    ELSE IF w.u.pending_shutdown_requests # 0
    THEN [w EXCEPT !.u.userFinalizing = FALSE]
    ELSE [w EXCEPT !.u.userFinalizing = TRUE, !.out = Append(@, Abandon(u))]

\* requestAttended of a shutdown: no job waits or runs and checkAllVMShutdown.
NothingLeft(w) ==
    /\ w.u.containerWaitingQueue = <<>> /\ w.u.containerRunningQueue = {}
    /\ \A v \in ToSet(w.u.machinesMap) : w.vm[v].state = "off"

\* Mutant: the user tries to leave whenever a machine is gone.
FreeAttendedLeaves(w, u, v) ==
    LET less == [w EXCEPT !.u.pending_shutdown_requests = @ - 1,
                          !.u.machinesMap = Filter(@, VMs \ {v})]
    IN  ScheduleUnlessFinalizing(FinalizeUser(less, u))

\* notify_UserRequestAttendeed for REQUEST_FREE_RESOURCES of machine v.
FreeAttended(w, u, v) ==
    LET less == [w EXCEPT !.u.pending_shutdown_requests = @ - 1,
                          !.u.machinesMap = Filter(@, VMs \ {v})]
    IN  ScheduleUnlessFinalizing(IF NothingLeft(less) THEN FinalizeUser(less, u) ELSE less)

Commit(u, w) ==
    /\ user' = [user EXCEPT ![u] = w.u]
    /\ vm' = w.vm
-------------------------------------------------------------------------------
(* Events: the user generator, the nodes and the machines.                 *)

Running == ~fault /\ ~ended /\ cursor = 0

\* newUser, then userInitialization: the user requests as many machines as it has
\* jobs, if it may select so many (selectVMs_ToStartUp).
UserArrives(u) ==
    LET n == IF VmQuantity[u] < Len(JobsOf[u]) THEN VmQuantity[u] ELSE Len(JobsOf[u]) IN
    /\ Running /\ ~no_more_users /\ u \notin arrived
    /\ arrived' = arrived \cup {u}
    /\ userList' = userList \cup {u}
    /\ selectionQuantity' = [selectionQuantity EXCEPT ![u] = n]
    /\ user' = [user EXCEPT ![u].pendingVmsAtStartup = n]
    /\ Queue!UserSendRequest(<<StartVM(u)>>)
    /\ UNCHANGED <<vm, nextPid, hostOf, nodesOn, pendingStorageRequests,
                   pendingRemoteStorageDeletion, connectionsDeletion, reqPendingToDelete,
                   no_more_users, executions, selfMessages, ended, fault>>

\* The generator created its last user (finalizeUserGenerator).
FinalizeUserGenerator ==
    /\ Running /\ arrived = Users /\ ~no_more_users
    /\ no_more_users' = TRUE
    /\ UNCHANGED <<user, vm, queueVars, managerVars, userList, arrived, executions, selfMessages, ended, fault>>

\* The alarm a user set itself when a job ended.
SelfMessage(u) ==
    /\ Running /\ u \in userList /\ selfMessages[u] > 0
    /\ selfMessages' = [selfMessages EXCEPT ![u] = @ - 1]
    /\ LET w == Schedule(ExecutePendingJobs(World(u))) IN
       Commit(u, w) /\ Queue!UserSendRequest(w.out)
    /\ UNCHANGED <<managerVars, tenantVars, executions, ended, fault>>

UserOfJob(j) == CHOOSE u \in Users : j \in ToSet(JobsOf[u])

\* A node reports the storage of a job ready (notifyStorageConnectionSuccesful).
StorageReady(j) ==
    /\ Running /\ j \in pendingStorageRequests
    /\ pendingStorageRequests' = pendingStorageRequests \ {j}
    /\ LET u == UserOfJob(j)
           w == StorageAttended(World(u), j)
       IN  \/ /\ user[u].vms_waiting_remote_st[user[u].machine[j]] > 0
              /\ Commit(u, w) /\ Queue!UserSendRequest(w.out)
              /\ UNCHANGED fault
           \/ /\ user[u].vms_waiting_remote_st[user[u].machine[j]] = 0
              /\ fault' = TRUE
              /\ UNCHANGED <<user, vm, queueVars>>
    /\ UNCHANGED <<selectionQuantity, nextPid, hostOf, nodesOn, pendingRemoteStorageDeletion,
                   connectionsDeletion, reqPendingToDelete, tenantVars, executions, selfMessages, ended>>

\* The application of a job ends.
JobFinishes(j) ==
    LET u == UserOfJob(j)
        w == JobFinished(World(u), j)
    IN
    /\ Running /\ j \in user[u].containerRunningQueue
    /\ executions' = [executions EXCEPT ![j] = @ + 1]
    /\ selfMessages' = IF user[u].containerWaitingQueue = <<>> THEN selfMessages
                       ELSE [selfMessages EXCEPT ![u] = @ + 1]
    /\ Commit(u, w) /\ Queue!UserSendRequest(w.out)
    /\ UNCHANGED <<managerVars, tenantVars, ended, fault>>

Linked(n) == Cardinality({v \in VMs : hostOf[v] = n})

\* unlinkVM and notify_shutdown_vm.  The node is turned off when it has no machine left.
UnlinkVM(v, u, w) ==
    /\ hostOf' = [hostOf EXCEPT ![v] = 0]
    /\ nodesOn' = IF Linked(hostOf[v]) = 1 THEN nodesOn \ {hostOf[v]} ELSE nodesOn
    /\ Commit(u, w)

\* What both notifications do when the other one has arrived: unlink the machine, tell
\* its user.  A machine with processes cannot be unlinked.
ShutDown(v) ==
    LET u   == Owner(v)
        off == [World(u) EXCEPT !.vm[v] = [state |-> "off", pending |-> "NOT_PENDING_OPS"]]
        w   == FreeAttended(off, u, v)
    IN
    \/ /\ \E x \in userList : v \in ToSet(user[x].machinesMap)
       /\ Processes(World(u), v) = {}
       /\ UnlinkVM(v, u, w)
       /\ reqPendingToDelete' = reqPendingToDelete \ {v}
       /\ Queue!UserSendRequest(w.out)
       /\ UNCHANGED fault
    \/ /\ \E x \in userList : v \in ToSet(user[x].machinesMap)
       /\ Processes(World(u), v) # {}
       /\ UNCHANGED <<user, vm, queueVars, hostOf, nodesOn, reqPendingToDelete, fault>>
    \/ /\ ~ \E x \in userList : v \in ToSet(user[x].machinesMap)
       /\ fault' = TRUE
       /\ UNCHANGED <<user, vm, queueVars, hostOf, nodesOn, reqPendingToDelete>>

\* notifyFSFormatted: the machine goes with the last notification, if its connections
\* are closed.
FSFormatted(v) ==
    LET last == pendingRemoteStorageDeletion[v] = 1 /\ connectionsDeletion[v] = 0 IN
    /\ Running /\ pendingRemoteStorageDeletion[v] > 0
    /\ pendingRemoteStorageDeletion' = [pendingRemoteStorageDeletion EXCEPT ![v] = @ - 1]
    /\ \/ last /\ ShutDown(v)
       \/ /\ ~last
          /\ UNCHANGED <<user, vm, queueVars, hostOf, nodesOn, reqPendingToDelete, fault>>
    /\ UNCHANGED <<selectionQuantity, nextPid, pendingStorageRequests, connectionsDeletion,
                   tenantVars, executions, selfMessages, ended>>

\* notifyVMConnectionsClosed, the other way round.
ConnectionsClosed(v) ==
    LET last == connectionsDeletion[v] = 1 /\ pendingRemoteStorageDeletion[v] = 0 IN
    /\ Running /\ connectionsDeletion[v] > 0
    /\ connectionsDeletion' = [connectionsDeletion EXCEPT ![v] = @ - 1]
    /\ \/ last /\ ShutDown(v)
       \/ /\ ~last
          /\ UNCHANGED <<user, vm, queueVars, hostOf, nodesOn, reqPendingToDelete, fault>>
    /\ UNCHANGED <<selectionQuantity, nextPid, pendingStorageRequests,
                   pendingRemoteStorageDeletion, tenantVars, executions, selfMessages, ended>>
-------------------------------------------------------------------------------
(* CloudSchedulerFCFS::schedule, once per alarm of the manager.            *)

Places   == Nodes \X (1 .. MaxVmsPerNode)

\* Places left on the first n nodes.
FreeUpTo(n) == Cardinality({p \in Places : p[1] <= n /\ p[2] > Linked(p[1])})

\* selectNode for the k-th machine of a request: the first node with a place left.
SelectNode(k) == CHOOSE n \in Nodes : FreeUpTo(n) >= k /\ FreeUpTo(n - 1) < k

Request == requestsQueue[cursor]

Walking == ~fault /\ ~ended /\ cursor \in 1 .. Len(requestsQueue)

\* A walk that would find only start requests and no place for them changes nothing;
\* such ticks of the alarm are left out.
ScheduleBegin ==
    /\ Running
    /\ \/ \E r \in ToSet(requestsQueue) : r \notin StartRequests
       \/ requestsQueue # <<>> /\ FreeUpTo(NumNodes) > 0
       \/ no_more_users /\ userList = {}
    /\ Queue!SchedulerBlock
    /\ UNCHANGED <<user, vm, managerVars, tenantVars, executions, selfMessages, ended, fault>>

\* userStorageRequest and manageStorageRequest.
AttendStorage(j) ==
    /\ Walking /\ Request = Storage(j)
    /\ pendingStorageRequests' = pendingStorageRequests \cup {j}
    /\ Queue!EraseStorageRequest
    /\ UNCHANGED <<user, vm, selectionQuantity, nextPid, hostOf, nodesOn,
                   pendingRemoteStorageDeletion, connectionsDeletion, reqPendingToDelete,
                   tenantVars, executions, selfMessages, ended, fault>>

\* request_start_vm: as many machines as there is place for; the user is told of them at
\* once, and a request that was not satisfied stays in the queue.
AttendStart(u) ==
    LET asked   == selectionQuantity[u]
        granted == IF asked < FreeUpTo(NumNodes) THEN asked ELSE FreeUpTo(NumNodes)
        vs      == [k \in 1 .. granted |-> nextPid + k - 1]
        w       == StartAttended(World(u), vs)
    IN
    /\ Walking /\ Request = StartVM(u) /\ nextPid + granted - 1 <= MaxVMs
    /\ \/ /\ granted > 0 /\ u \in userList
          /\ hostOf' = [v \in VMs |-> IF v \in ToSet(vs) THEN SelectNode(v - nextPid + 1)
                                      ELSE hostOf[v]]
          /\ nodesOn' = nodesOn \cup {SelectNode(k) : k \in 1 .. granted}
          /\ nextPid' = nextPid + granted
          /\ selectionQuantity' = [selectionQuantity EXCEPT ![u] = @ - granted]
          /\ Commit(u, w)
          /\ \/ granted = asked /\ Queue!EraseRequest(w.out)
             \/ granted < asked /\ Queue!PostponeRequest(w.out)
          /\ UNCHANGED fault
       \/ /\ granted = 0
          /\ Queue!PostponeRequest(<<>>)
          /\ UNCHANGED <<user, vm, hostOf, nodesOn, nextPid, selectionQuantity, fault>>
       \/ /\ granted > 0 /\ u \notin userList   \* getUserByModuleID throws
          /\ fault' = TRUE
          /\ UNCHANGED <<user, vm, queueVars, hostOf, nodesOn, nextPid, selectionQuantity>>
    /\ UNCHANGED <<pendingStorageRequests, pendingRemoteStorageDeletion, connectionsDeletion,
                   reqPendingToDelete, tenantVars, executions, selfMessages, ended>>

\* request_shutdown_vm: format the file system on the node and close the connections.
AttendFree(v) ==
    /\ Walking /\ Request = Free(v)
    /\ reqPendingToDelete' = reqPendingToDelete \cup {v}
    /\ pendingRemoteStorageDeletion' = [pendingRemoteStorageDeletion EXCEPT ![v] = @ + 1]
    /\ connectionsDeletion' = [connectionsDeletion EXCEPT ![v] = @ + 1]
    /\ Queue!EraseRequest(<<>>)
    /\ UNCHANGED <<user, vm, selectionQuantity, nextPid, hostOf, nodesOn, pendingStorageRequests,
                   tenantVars, executions, selfMessages, ended, fault>>

\* deleteUser.
AttendAbandon(u) ==
    /\ Walking /\ Request = Abandon(u)
    /\ userList' = userList \ {u}
    /\ Queue!EraseRequest(<<>>)
    /\ UNCHANGED <<user, vm, managerVars, arrived, no_more_users, executions, selfMessages, ended, fault>>

\* schedulerUnblock, then checkFinalization.
ScheduleEnd ==
    /\ ~fault /\ ~ended
    /\ Queue!SchedulerUnblock
    /\ ended' = (no_more_users /\ userList = {})
    /\ UNCHANGED <<user, vm, managerVars, tenantVars, executions, selfMessages, fault>>

\* The simulation has ended, or stopped with an error.
Stopped == (ended \/ fault) /\ UNCHANGED vars

Next ==
    \/ \E u \in Users : UserArrives(u) \/ SelfMessage(u)
    \/ FinalizeUserGenerator
    \/ \E j \in Jobs : StorageReady(j) \/ JobFinishes(j)
    \/ \E v \in VMs : FSFormatted(v) \/ ConnectionsClosed(v)
    \/ ScheduleBegin
    \/ \E j \in Jobs : AttendStorage(j)
    \/ \E u \in Users : AttendStart(u) \/ AttendAbandon(u)
    \/ \E v \in VMs : AttendFree(v)
    \/ ScheduleEnd
    \/ Stopped

Spec == Init /\ [][Next]_vars

\* The event queue delivers every scheduled event, an application ends, the generator
\* creates its users and the alarm of the manager rings again.  Each conjunct names what
\* tells the event from all others; its guard is that of the event.
StartServed(u) ==
    /\ Walking /\ Request = StartVM(u)
    /\ \/ cursor' = cursor /\ requestsQueue' = Queue!A!Erase(requestsQueue, cursor)
       \/ cursor' = cursor + 1 /\ requestsQueue' = requestsQueue

Fairness ==
    /\ \A u \in Users :
          /\ WF_arrived(Running /\ ~no_more_users /\ arrived' = arrived \cup {u})
          /\ WF_selfMessages(Running /\ u \in userList /\ selfMessages[u] > 0
                             /\ selfMessages' = [selfMessages EXCEPT ![u] = @ - 1])
          /\ WF_<<cursor, requestsQueue>>(StartServed(u))
          /\ WF_vars(AttendAbandon(u))
    /\ WF_vars(FinalizeUserGenerator)
    /\ \A j \in Jobs :
          /\ WF_pendingStorageRequests(Running /\ pendingStorageRequests' = pendingStorageRequests \ {j})
          /\ WF_executions(Running /\ j \in user[UserOfJob(j)].containerRunningQueue
                           /\ executions' = [executions EXCEPT ![j] = @ + 1])
          /\ WF_vars(AttendStorage(j))
    /\ \A v \in VMs :
          /\ WF_pendingRemoteStorageDeletion(
                /\ Running /\ pendingRemoteStorageDeletion[v] > 0
                /\ pendingRemoteStorageDeletion' = [pendingRemoteStorageDeletion EXCEPT ![v] = @ - 1])
          /\ WF_connectionsDeletion(
                /\ Running /\ connectionsDeletion[v] > 0
                /\ connectionsDeletion' = [connectionsDeletion EXCEPT ![v] = @ - 1])
          /\ WF_vars(AttendFree(v))
    /\ WF_vars(ScheduleBegin) /\ WF_vars(ScheduleEnd)

FairSpec == Spec /\ Fairness
-------------------------------------------------------------------------------
(* Properties.                                                             *)

TypeOK ==
    /\ user \in [Users -> UserState] /\ selfMessages \in [Users -> Nat]
    /\ vm \in [VMs -> [state : {"off", "idle", "running"},
                       pending : {"NOT_PENDING_OPS", "PENDING_STORAGE", "PENDING_SHUTDOWN"}]]
    /\ requestsQueue \in Seq(Requests) /\ temporalRequestsQueue \in Seq(Requests)
    /\ cursor \in Nat
    /\ selectionQuantity \in [Users -> Nat] /\ nextPid \in 1 .. MaxVMs + 1
    /\ hostOf \in [VMs -> Nodes \cup {0}] /\ nodesOn \subseteq Nodes
    /\ pendingStorageRequests \subseteq Jobs /\ reqPendingToDelete \subseteq VMs
    /\ pendingRemoteStorageDeletion \in [VMs -> Nat] /\ connectionsDeletion \in [VMs -> Nat]
    /\ userList \subseteq arrived /\ arrived \subseteq Users /\ no_more_users \in BOOLEAN
    /\ executions \in [Jobs -> Nat] /\ ended \in BOOLEAN /\ fault \in BOOLEAN

\* A job that waits for its storage or runs has a machine of its own, that is up and
\* linked to a node: assignment, shutdown and the late notifications never cross.
JobsOnOwnMachine ==
    \A u \in Users : \A v \in VMs :
        LET here == Processes(World(u), v) IN
        here # {} => /\ Cardinality(here) = 1
                     /\ v \in ToSet(user[u].machinesMap)
                     /\ hostOf[v] # 0 /\ vm[v].state # "off"
                     /\ vm[v].pending # "PENDING_SHUTDOWN"

\* The books of a user about what he has asked for are right, and no notification or
\* request finds its user, its machine or its entry gone (getUserByModuleID, getVmFromUser
\* and the control vectors throw).  Machines:
\* pending_shutdown_requests counts those marked PENDING_SHUTDOWN, and each of them is in
\* exactly one stage of its destruction: requested, or being deleted.  Storage: a job
\* waits for it exactly while its request is queued or its node works on it, and its
\* machine is in vms_waiting_remote_st once for each such job.
RequestsAccounted ==
    /\ ~fault
    /\ \A u \in userList :
        LET marked == {v \in ToSet(user[u].machinesMap) : vm[v].pending = "PENDING_SHUTDOWN"} IN
        /\ user[u].pending_shutdown_requests = Cardinality(marked)
        /\ \A v \in marked :
              (Free(v) \in ToSet(Queue!Outstanding)) # (v \in reqPendingToDelete)
    /\ \A u \in Users :
        /\ \A j \in ToSet(JobsOf[u]) :
              j \in user[u].waitingForStorage
                <=> (Storage(j) \in ToSet(Queue!Outstanding) \/ j \in pendingStorageRequests)
        /\ \A v \in VMs :
              user[u].vms_waiting_remote_st[v]
                = Cardinality({j \in user[u].waitingForStorage : user[u].machine[j] = v})

\* A user leaves the system only when each of his jobs has run to its end, once.
LeavesWithJobsDone ==
    \A u \in arrived \ userList : \A j \in ToSet(JobsOf[u]) : executions[j] = 1

\* A machine on a node belongs to a user that is still there to give it back.
NoOrphanVM ==
    \A v \in VMs : hostOf[v] # 0 => \E u \in userList : v \in ToSet(user[u].machinesMap)

\* What a user leaves behind: nothing that is his, and nothing undone (userFinalization
\* and deleteUser are reached from the answers to several requests).
LeavesCleanly == LeavesWithJobsDone /\ NoOrphanVM

\* Every user gets his machines, runs his jobs and leaves, and the simulation ends.
SimulationEnds == <>(ended /\ \A j \in Jobs : executions[j] = 1)
===============================================================================
