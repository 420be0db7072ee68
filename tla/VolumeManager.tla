------------------------------ MODULE VolumeManager ------------------------------
(***************************************************************************)
(* The volume of a node, between its file system and its disk: the volume  *)
(* manager (NullStorageManager, or StorageManager with SMS_RAID_0), the    *)
(* scheduler of the hypervisor's storage manager (H_STORAGE_SCHED_FIFO),   *)
(* which sends everything to the first disk, and that disk (SimpleDisk;    *)
(* Disk_LI differs in its times only).  Messages without delay between     *)
(* these modules are part of the step that sends them.                     *)
(*                                                                         *)
(* The state of a node changes only while none of its requests is          *)
(* pending: storage nodes host no virtual machine, and the jobs of a       *)
(* machine end before it is taken from its node.                           *)
(***************************************************************************)
EXTENDS Naturals, Sequences, FiniteSets, Functions

CONSTANTS
    Kinds,              \* volume managers to consider: a subset of {"null", "raid"}
    Overheads,          \* is io_overhead different from 0?  A subset of BOOLEAN
    Requests,           \* block lists that the file system sends
    SectorsOf,          \* sectors of the only branch of each one
    Deletions,          \* requests of deleteUser(), whose file has no branch
    NumStorageSystems,
    BlocksPerRequest    \* blocks of a stride

ASSUME VolumeAssumption ==
    /\ Kinds \subseteq {"null", "raid"}
    /\ SectorsOf \in [Requests -> Nat]
    /\ Deletions \subseteq Requests
    /\ NumStorageSystems \in Nat \ {0}
    /\ BlocksPerRequest \in Nat \ {0}

Disks == 0 .. NumStorageSystems - 1

VARIABLES
    kind, overhead,         \* configuration
    on,                     \* the node has been turned on
    asked, answered,        \* requests received from and returned to the file system
    isStorageSystemIdle,    \* as the volume manager sees them
    requestsQueue,          \* sub-requests that wait for each disk
    arrivedSubRequests,     \* counters of the pending requests
    disk,                   \* requests at the first disk, the one in service first
    delayed,                \* responses delayed by the hypervisor
    transferred,            \* history: blocks of each request that a disk has served
    fault

volume == <<isStorageSystemIdle, requestsQueue, arrivedSubRequests>>
vars == <<kind, overhead, on, asked, answered, volume, disk, delayed, transferred, fault>>
-------------------------------------------------------------------------------
(* SMS_RAID_0 and the system that splits messages.                         *)

\* SMS_RAID_0::splitRequest, for one branch at offset 0: strides of BlocksPerRequest blocks,
\* the last of which may be shorter, for one disk after the other.
NumSubRequest(r) == (SectorsOf[r] + BlocksPerRequest - 1) \div BlocksPerRequest

SubRequest(r, i) ==
    LET offset  == i * BlocksPerRequest
        remains == SectorsOf[r] - offset
    IN  [parent |-> r, first |-> offset, disk |-> i % NumStorageSystems,
         size   |-> IF remains >= BlocksPerRequest THEN BlocksPerRequest ELSE remains]

SubRequests(r) == {SubRequest(r, i) : i \in 0 .. NumSubRequest(r) - 1}

\* Those of disk d, in their order.
SubRequestsOn(r, d) ==
    [k \in 1 .. (NumSubRequest(r) + NumStorageSystems - 1 - d) \div NumStorageSystems |->
        SubRequest(r, d + (k - 1) * NumStorageSystems)]

WholeRequest(r) == [parent |-> r, first |-> 0, size |-> SectorsOf[r], disk |-> 0]

BlocksOf(sub) == sub.first .. sub.first + sub.size - 1

ArrivesAllButOne(r, arrived) == arrived[r] >= NumSubRequest(r) - 1

ArrivesAllSubRequest(r, arrived) == arrived[r] = NumSubRequest(r)
-------------------------------------------------------------------------------
(* Requests.                                                               *)

\* NullStorageManager::processRequestMessage and schedulingStorage.
NullRequest(r) ==
    /\ kind = "null"
    /\ disk' = Append(disk, WholeRequest(r))
    /\ UNCHANGED <<volume, fault>>

\* The disks whose first sub-request is sent, and the order in which they are visited.
Ready(idle, queues) == {d \in Disks : idle[d] /\ queues[d] # <<>>}

Visits(ready) ==
    {order \in [1 .. Cardinality(ready) -> ready] :
        \A i, j \in 1 .. Cardinality(ready) : i < j => order[i] < order[j]}

SendFirst(ready, queues) ==
    /\ requestsQueue' = [d \in Disks |-> IF d \in ready THEN Tail(queues[d]) ELSE queues[d]]
    /\ \E order \in Visits(ready) :
          disk' = disk \o [i \in 1 .. Cardinality(ready) |-> Head(queues[order[i]])]

CheckBusesStayIdle(queues) ==
    /\ SendFirst(Ready(isStorageSystemIdle, queues), queues)
    /\ UNCHANGED isStorageSystemIdle

\* StorageManager::checkBuses
CheckBuses(queues) ==
    LET ready == Ready(isStorageSystemIdle, queues) IN
    /\ SendFirst(ready, queues)
    /\ isStorageSystemIdle' = [d \in Disks |-> isStorageSystemIdle[d] /\ d \notin ready]

\* StorageManager::processRequestMessage.  Asking a file without branches for the offset
\* of one is an error.
RaidRequest(r) ==
    /\ kind = "raid"
    /\ IF r \in Deletions
       THEN fault' = "branch" /\ UNCHANGED <<volume, disk>>
       ELSE /\ CheckBuses([d \in Disks |-> requestsQueue[d] \o SubRequestsOn(r, d)])
            /\ UNCHANGED <<arrivedSubRequests, fault>>

\* A block list arrives from the file system.
ProcessRequest(r) ==
    /\ on /\ fault = "none" /\ r \notin asked
    /\ asked' = asked \union {r}
    /\ NullRequest(r) \/ RaidRequest(r)
    /\ UNCHANGED <<kind, overhead, on, answered, delayed, transferred>>
-------------------------------------------------------------------------------
(* Responses.                                                              *)

Answer(r) == answered' = answered \union {r}

NullResponse(sub, queue) ==
    /\ kind = "null"
    /\ Answer(sub.parent)
    /\ disk' = queue
    /\ UNCHANGED <<volume, fault>>

RaidResponseOnly(sub, queue) ==
    LET d       == sub.disk
        arrived == [arrivedSubRequests EXCEPT ![sub.parent] = @ + 1]
    IN  /\ kind = "raid"
        /\ arrivedSubRequests' = arrived
        /\ IF ArrivesAllSubRequest(sub.parent, arrived)
           THEN Answer(sub.parent) /\ fault' \in {"none", "double deletion"}
           ELSE UNCHANGED <<answered, fault>>
        /\ isStorageSystemIdle' = [isStorageSystemIdle EXCEPT ![d] = TRUE]
        /\ disk' = queue
        /\ UNCHANGED requestsQueue

\* StorageManager::processResponseMessage.  A sub-request that arrives is linked to its
\* request and deleted; when the last one arrives, removeRequest() deletes them again,
\* which may go unnoticed.
RaidResponse(sub, queue) ==
    LET d       == sub.disk
        arrived == [arrivedSubRequests EXCEPT ![sub.parent] = @ + 1]
        waiting == requestsQueue[d]
    IN  /\ kind = "raid"
        /\ arrivedSubRequests' = arrived
        /\ IF ArrivesAllSubRequest(sub.parent, arrived)
           THEN Answer(sub.parent) /\ fault' \in {"none", "double deletion"}
           ELSE UNCHANGED <<answered, fault>>
        /\ isStorageSystemIdle' = [isStorageSystemIdle EXCEPT ![d] = waiting = <<>>]
        /\ requestsQueue' = [requestsQueue EXCEPT ![d] = IF @ = <<>> THEN <<>> ELSE Tail(@)]
        /\ disk' = IF waiting = <<>> THEN queue ELSE Append(queue, Head(waiting))

\* H_StorageManager_Base::processResponseMessage: the response goes up at once, or later.
\* The disk, which has answered, serves its next request.
EndOfService ==
    /\ fault = "none" /\ disk # <<>>
    /\ transferred' = [transferred EXCEPT ![Head(disk).parent] = @ \union BlocksOf(Head(disk))]
    /\ IF overhead
       THEN /\ delayed' = delayed \union {Head(disk)}
            /\ disk' = Tail(disk)
            /\ UNCHANGED <<answered, volume, fault>>
       ELSE /\ NullResponse(Head(disk), Tail(disk)) \/ RaidResponse(Head(disk), Tail(disk))
            /\ UNCHANGED delayed
    /\ UNCHANGED <<kind, overhead, on, asked>>

\* H_StorageManager_Base::processSelfMessage.  The delay is a multiple of the time of the
\* service, so that responses overtake each other.
EndOfOverhead(sub) ==
    /\ fault = "none" /\ sub \in delayed
    /\ delayed' = delayed \ {sub}
    /\ NullResponse(sub, disk) \/ RaidResponse(sub, disk)
    /\ UNCHANGED <<kind, overhead, on, asked, transferred>>

\* SM_CHANGE_DISK_STATE.  No state of a machine is DISK_OFF, the only one that would make
\* the volume manager hold its requests.
ChangeDiskState ==
    /\ fault = "none" /\ disk = <<>> /\ delayed = {}
    /\ on' = ~on
    /\ isStorageSystemIdle' = [d \in Disks |-> TRUE]
    /\ UNCHANGED <<kind, overhead, asked, answered, requestsQueue, arrivedSubRequests, disk,
                   delayed, transferred, fault>>
-------------------------------------------------------------------------------
AllSubRequests == UNION {SubRequests(r) \union {WholeRequest(r)} : r \in Requests}

Init ==
    /\ kind \in Kinds /\ overhead \in Overheads
    /\ on = FALSE
    /\ asked = {} /\ answered = {}
    /\ isStorageSystemIdle = [d \in Disks |-> TRUE]
    /\ requestsQueue = [d \in Disks |-> <<>>]
    /\ arrivedSubRequests = [r \in Requests |-> 0]
    /\ disk = <<>> /\ delayed = {}
    /\ transferred = [r \in Requests |-> {}]
    /\ fault = "none"

Next ==
    \/ \E r \in Requests : ProcessRequest(r)
    \/ EndOfService
    \/ \E sub \in AllSubRequests : EndOfOverhead(sub)
    \/ ChangeDiskState

\* A disk ends what it serves, and a delay ends.
Fairness ==
    /\ WF_vars(EndOfService)
    /\ \A sub \in AllSubRequests : WF_vars(EndOfOverhead(sub))

Spec == Init /\ [][Next]_vars /\ Fairness
-------------------------------------------------------------------------------
(* Properties.                                                             *)

\* The volume keeps its promise: with either manager, whatever the order of the stripes
\* and of their responses, a request is answered once and after all its blocks.
Abstract == INSTANCE AbstractVolume WITH
    Blocks <- [r \in Requests |-> 0 .. SectorsOf[r] - 1]

KeepsPromise == Abstract!Spec

\* Sub-requests sent and not yet returned.
Outstanding == Range(disk) \union delayed

\* What StorageManager believes is true: a disk is idle exactly when none of its
\* sub-requests is out, at most one is, none waits for an idle disk, and every stripe of
\* a request is waiting, out or counted as arrived.
StripesAccounted ==
    kind = "raid" /\ fault = "none" =>
        /\ \A d \in Disks :
              LET out == {s \in Outstanding : s.disk = d} IN
              /\ Cardinality(out) <= 1
              /\ isStorageSystemIdle[d] <=> out = {}
              /\ isStorageSystemIdle[d] => requestsQueue[d] = <<>>
        /\ \A r \in asked :
              LET mine(s) == s.parent = r
                  queued == UNION {Range(requestsQueue[d]) : d \in Disks}
              IN  arrivedSubRequests[r] + Cardinality({s \in queued \union Outstanding : mine(s)})
                      = NumSubRequest(r)

\* Every request that has a sector is answered, whatever waits before it, unless an error
\* ends the simulation.  (A read of fewer bytes than a sector has none: with the RAID
\* manager it has no sub-request either, and is never answered.)
RequestsAnswered ==
    \A r \in Requests :
        r \in asked /\ SectorsOf[r] > 0 ~> r \in answered \/ fault # "none"
================================================================================
