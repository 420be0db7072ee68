# TLA+ models of DockerSim

DockerSim is iCanCloud, a discrete-event simulator of cloud data centres written in C++ for OMNeT++,
extended with Docker containers. This directory holds TLA+ models of the simulator's own control logic,
the TLC runs that check them on small instances, and TLAPS proofs of some of their properties.

The program under study is the *simulator*: its modules exchange messages, each handler runs to completion
inside one event of the OMNeT++ event queue, and two handlers never overlap. What interleaves is the order in
which pending events are delivered. A wrong order does not corrupt memory, it loses a request, frees a core
twice, or leaves a virtual machine booked for ever, and the results of the simulation are then wrong without
any message saying so. `showErrorMessage` throws `cRuntimeError` and ends the simulation.

## Inventory

| Component (under `src/src/`) | State | Operations | Talks to | Hard behaviour | What makes it correct |
|---|---|---|---|---|---|
| CPU schedulers FIFO and RR (`Architecture/NodeComponents/OperatingSystems/CPU_Schedulers`) | idle flag per virtual core, queue of blocks | request, response, requeue, state message | application above, hypervisor below | flags and queue drift apart; quantum of RR | a flag is busy iff one block is out; each block answered once |
| Hypervisor CPU manager (`Virtualization/Hypervisor/HypervisorManagers/H_CPUManager`) | owner of each core, queue of blocks, one overhead slot per core | request, response, overhead response, setVM, freeVM | guest schedulers, cores | slot and core are reused while a response is pending | a core works for one block; a saved response is delivered |
| CPU core (`.../Hardware/CPUs/CPUcores/CPUcore`) | block being executed, its remaining load | request, latency, state change | hypervisor | quantum arithmetic | never two blocks; a block finishes |
| VM message controller (`VMManagement/VmMsgController`) | migration flag, pending messages, link and communication tables, request counters | request, response, start and finish migration, link and unlink of applications | applications, VM OS, hypervisor | messages caught in a migration, stale gates | nothing lost or reordered, counters return to zero |
| Docker engine (`Virtualization/VirtualMachines/Containers/DockerEngine.cc`) | container links, communication ids | request, response, link, unlink | VM OS, containers | ids of removed containers | a response reaches the container that asked |
| Users (`Users/Profiles`, `Users/Base`, `Applications/Base/Management`) | job queues, VM states and pending requests | start, schedule, shut down, job finished, request attended | data-centre manager, VMs | answers arrive out of order with job ends | one job per VM, every VM released, user terminates |
| Requests queue (`Management/DataCenterManagement/Base/RequestsManagement.cc`) | request queue, temporal queue, block flag | block, unblock, send, reinsert, erase | users, scheduler | arrivals while the scheduler walks the queue | nothing lost, order kept |
| Cloud manager (`Management/CloudManagement`) | VMs per user, pending storage, pending deletions | start VM, storage, shut down, notifications | users, nodes, file systems | two asynchronous phases of deletion | each VM freed exactly once, node resources returned |
| Cloud schedulers FCFS, FCFS_gnup, RR, Random (`Management/CloudManagement/ResourcesProvisioning`) | position, seeds | schedule, selectNode, storage nodes | cloud manager | erasing while iterating | no request starves although resources exist |
| Data-centre manager (`Management/DataCenterManagement`) | users, bookings, node maps, storage connections | newUser, booking, manage storage, finalise | users, nodes | bookings against live allocation | capacity never exceeded, the run ends |
| Nodes and machine sets (`Architecture/Node`, `Architecture/Machine`, `MachinesStructure`) | free memory, storage, linked VMs, on or off | link, unlink, turn on and off | cloud manager, hypervisor | free counters drift | free + used = total |
| Hypervisor memory, storage and network managers | per-VM tables, remote storage cells, port translation | allocate, read, write, listen, connect, migrate | VM OS, network | migration phases, half-open connections | per-VM accounting; ports unique |
| VM system calls and processes (`Architecture/NodeComponents/OperatingSystems/SyscallManager`, `VirtualOS`) | process table | create, remove | users, applications | iterator erased inside a loop | table equals the live processes |
| RAM, disks, file systems, branch scheduler, storage manager, SMS | block cache, file tables, sub-requests | read, write, split, join | OS | eviction with requests in flight | a split request is answered once |
| Network (`NetworkManager`, `PortTable`, `VirtualIPs`, network service) | ports and virtual addresses | open, close, migrate | cloud manager | reuse of ports | no port is given twice |
| Applications (MPI, HPC, HTC, checkpoint, CPU intensive, server, containers) | program counters, mailboxes | send, receive, barrier, broadcast | API_OS | collective operations | no rank waits for ever |
| Energy states, meters, power supplies (`EnergySystem`, `HWEnergyInterface`, `StatesApplication`) | state of each part, accumulated time per state | state change, sample | hardware, operating system of the node | states reach a part on several ways | parts follow their node; time is neither lost nor counted twice |
| User generator | arrivals | create users | data-centre manager | last arrival | `no_more_users` set once |
| Gates manager (`Base/cGateManager.cc`) | gate connections | new, connect, free | VMs, hypervisor | reuse of freed gates | a gate serves one peer |

What couples the components: a request of an application climbs down a chain of modules (container, Docker
engine, message controller, system calls, device) and its answer climbs back through the gates recorded in the
message; users and the cloud manager talk through one queue of requests that the scheduler walks once per alarm
and through direct calls back into the user (`requestAttended`, `notify_...`); the data-centre manager creates
and deletes users; everything on a node shares its hypervisor.

Three facts about the code narrow what can happen, and the models use them:

* only *container* jobs run. `VMSyscallManager::createProcess` uses the cast to `Container_UserJob` without
  testing it, so a plain `UserJob` (the HPC and MPI applications) never gets a process on a virtual machine.
  `MpiApplications` models the MPI library and `ApplicationHPC` as their classes are written, not a run of them
  that this commit could make;
* nothing in the repository sends `SM_STOP_AND_DOWN_VM` or `SM_VM_ACTIVATION`, so the migration branches of the
  message controller are never entered;
* `GeneralUser` places one job on a machine at a time.

## Plan

Order: first what decides whether a simulation ends with the right results (cores, requests, the life of
machines, the way of a message), then the resources behind it, then the devices, then the applications.

| # | Module | Models | Composes | Status |
|---|---|---|---|---|
| 1 | `CpuScheduling` | guest schedulers, hypervisor CPU manager, cores | - | done; types, `WorkConserving`, `BusyFlagTruthful` and `AnsweredOnceWhenComplete` proved |
| 2 | `AbstractRequests`, `RequestsManagement` | promise and implementation of the requests queue | refinement | done, proved |
| 3 | `CloudLifecycle` | users, cloud manager, FCFS scheduler, alarm, tenants | `RequestsManagement`, `Filters` | done; `JobsOnOwnMachine`, `RequestsAccounted` and `LeavesCleanly` proved |
| 4 | `GateManagers`, `ContainerMessaging` | containers, Docker engine, message controller, system calls | `GateManagers` | done; `GatesAgree`, `ResponseReachesSender` and `CountersExact` proved |
| 5 | `VmPlacement` | the four cloud schedulers, `NodeVL`, `Node`, virtual addresses, the answers of storage nodes | `Sums` | done; all three properties proved |
| 6 | `AbstractVolume`, `VolumeManager` | promise and implementation of a volume: splitting, RAID 0, disk | refinement | done; `StripesAccounted` and the refinement proved |
| 7 | `NodeStorage` | memory, file systems, preloading, on and off of a node | - | done, model-checked |
| 8 | `HypervisorNetwork`, `RemoteStorage` | ports, connections, TCP services; storage cells, PFS and NFS | `RemoteStorage` extends the network and implements `AbstractVolume` | done; `DeliveredToAddressee`, `TablesAgree` and the refinement proved |
| 9 | `MpiApplications` | `MPI_Base`, `ApplicationHPC` | - | done, model-checked |
| 10 | `JobQueues`, `UserGeneration` | user generators, the alarm, the end of a simulation | `JobQueues` | done, model-checked |
| 11 | `NodeEnergy` | energy states of a node, meters, p-states | extends `CpuScheduling` and `Sums` | done; `MeterExact` and `PartsFollowNode` proved |

The proofs are in modules of their own: `DataProofs` (what a sum over a finite set does when one term changes, and what a
`Filter` keeps; used by `VmPlacementProofs`, `NodeEnergyProofs`, `CloudLifecycleProofs` and `RemoteStorageProofs`),
`NodeEnergyProofs` (which holds also the types and the sharing of the cores of `CpuScheduling`), `RequestsManagementProofs`,
`VmPlacementProofs`, `ContainerMessagingProofs`, `VolumeManagerProofs`, `CloudLifecycleProofs` and `RemoteStorageProofs`
(the network, too).

Left: proofs of the invariants of `NodeStorage` and `UserGeneration`.

## Modules and code

### `CpuScheduling`: computing blocks

One message per computing block (`SM_CPU_EXEC`) and per state message (`SM_CHANGE_CPU_STATE`). `at[m]` says which
module holds it or which hop it travels. Handlers are actions: `SchedRequest`, `SchedResponse`, `SchedRequeue`,
`SchedStateFIFO`, `SchedStateRR` (`CPU_Scheduler_FIFO`, `CPU_Scheduler_RR`), `HypRequest`, `HypResponse`,
`HypState`, `HypSaveResponse`, `HypOverheadResponse` (`H_CPUManager_Base`, `H_CPU_SCHED_FIFO`), `CoreRequest`,
`CoreLatency` (`CPUcore`). `Policy` selects FIFO or round robin, `Overhead` the virtualisation overhead.
`isCPU_Idle`, `requestsQueue`, `vmIDs`, `overheadStructure` and `pendingMessage` are the code's variables; a map
of flags is written as the set of cores whose flag is true. Time is counted in ticks, a core executes `Ipt` MIs
per tick. A slice is one latency here; how a core stretches a long latency and changes its p-state is in
`NodeEnergy`.

### `AbstractRequests` and `RequestsManagement`: the queue of requests

`AbstractRequests` is what users are promised: a FIFO of distinct requests, new ones join at the end, a request
leaves because it was attended. `RequestsManagement` is the code: `requestsQueue`, `temporalRequestsQueue`, and
the walk of `CloudSchedulerFCFS::schedule` split into one step per request (`cursor` is the loop's index, 0
outside). `schedulerQueueBlocked` is true exactly inside the walk. Requests sent by handlers inside the walk go
to the temporal queue. `EraseStorageRequest` keeps the code's peculiarity that a storage request is erased without
stepping back, so the walk skips the next one. The refinement mapping is `outstanding <- requestsQueue \o
temporalRequestsQueue`.

### `CloudLifecycle`: users and their machines

Composes the users with the queue (`Queue == INSTANCE RequestsManagement`) and the cloud manager. Per user a record
with the code's counters and queues (`pendingVmsAtStartup`, `pending_shutdown_requests`, the waiting, storage and
running queues, `machinesMap`, `vms_waiting_remote_st`). Actions: `UserArrives`, `SelfMessage` (the user's alarm),
`FinalizeUserGenerator`, `StorageReady`, `JobFinishes`, `FSFormatted`, `ConnectionsClosed`, and the walk:
`ScheduleBegin`, `AttendStart`, `AttendStorage`, `AttendFree`, `AttendAbandon`, `ScheduleEnd`. The walk is one
simulation event: nothing else is enabled while `cursor # 0`. A handler called inside another one (a user's
`schedule()` inside `requestAttended`, for instance) is an operator on the user's record, so that the action
contains all it changes.

Simplifications, each checked against the code: all machines are of one type; a job has one local storage request
(no remote file system in its configuration); one job per machine makes `pendingStorageRequests` a set of jobs.
The delays of messages to oneself are not kept: they are delivered at any later time, which includes the order of
the code. Alarm ticks that find nothing to do are left out of `ScheduleBegin`, so that TLC's deadlock check means
that the simulation is stuck. `CloudAssumption` says what the configuration gives: every job is of one user, jobs and
users are different things.

What a loop erases from a list is a `Filter` (module `Filters`): it means what `SelectSeq` means, but is a recursive
function and not a recursive operator, so that the prover can unfold it.

### `GateManagers` and `ContainerMessaging`: the way of a container's request

`GateManagers` has the operations of `cGateManager` on a record `[gates, holes]`: `newGate` reuses the oldest hole.
`ContainerMessaging` has the ten gate vectors a container is linked through and the process table. `CreateProcess`
is `createProcess` with `linkNewDocker` and `linkNewContainer`; each output gate records the input gate behind it.
`RemoveProcess` is `removeProcess` with `unlinkDocker` and `unlinkContainer`. A message carries the gate it arrives
on and its trace; `Forward` and `Return` are the two directions of `icancloud_Base`. `EngineRequest`, `VmRequest`,
`SysRequest`, `SysResponse`, `VmResponse` and `EngineResponse` are the handlers; the device in between answers at
any time. `Start`, `Hit`, `IntensiveResponse` and `ServerResponse` are the two container classes. A hit of a server
is one chain of requests: each answer is followed by exactly one request, so a chain number identifies a message.
`uptimeLimit` is the number `UptimeHits` of interval events at or before it. `VMSyscallManager` accepts any number
of processes; `MaxProcesses` bounds it.

### `VmPlacement`: nodes and the machines placed on them

`SelectNode` has one case per cloud scheduler; `TestLinkVM`, `LinkVM`, `UnlinkVM` and `TurnOn`
are the power and the memory of `NodeVL`; `IncVirtualIP` and `SearchNodeIP` are `VirtualIPs` and the network manager.
`UpdateVmManagementStructures` is `AllocationManagement`, `NotifyFSFormatted` and `NotifyVMConnectionsClosed` the two answers of
each storage node, the last of which unlinks the machine and turns an empty node off. Nodes start in the state
"off", which is neither of the states the code compares with: such a node is charged the hypervisor's overhead
once more than one that is turned on later, and the property counts it.

### `AbstractVolume` and `VolumeManager`: the volume of a node

`AbstractVolume` promises that each block of a request is served once and the request answered once, after its
last block. `VolumeManager` is `NullStorageManager` or `StorageManager` with `SMS_RAID_0`: `SubRequest` cuts a
request in strides, which `SubRequestsOn` deals out to the queues of the disks, `CheckBuses` sends the next stride to
an idle disk, `EndOfService` and `EndOfOverhead` bring
it back, `ArrivesAllSubRequest` joins. The code's loops over the sectors and over the disks are written by their
closed forms: the stride of a number, and the visit of the ready disks in their order (`Visits`). The refinement maps
the blocks a disk has served.

### `NodeStorage`: memory and files of a node

`Issue` sends the next request of a job; memory requests pass the cell of the machine (`H_MEM_SCHED_FIFO`), then
`RAMmemory`; file requests pass the virtual file system and the file system, then the volume, of which only
`AbstractVolume`'s promise is used. `SetIor` and `CreateResponse` are the preloading of `RemoteStorageApp`;
`TurnOn`, `UnlinkVM` and `DeleteUserFSFiles` are the life of the node.

### `HypervisorNetwork` and `RemoteStorage`: ports, connections and remote files

`HypervisorNetwork` has the tables of `LocalNetManager`, `PortAddressTranslation`, `NetworkManager` and
`PortTable`, the queue of pending connections (`CheckPendingMessages` erases while it walks and so
skips elements, as the code does) and the TCP services of a node. The TCP of INET is external: establishing takes time and an ephemeral
port is any port not in use. `RemoteStorage` adds the cells of the hypervisor's storage manager, the split of an
operation by `SMS_PFS` or `SMS_NFS`, and its answer, which implements `AbstractVolume` again. A job that finds its
cell not yet active loses its operation; the properties say so by name (`lost`).

### `MpiApplications`: the MPI library and ApplicationHPC

A record per process holds what `MPI_Base` and the application keep; `Run` takes the steps of a handler until the
process waits, because each call of `continueExecution` and `calculateNextState` is the last one of its function.
Channels are FIFO per pair. Files may fail, connections may be refused. The program "collectives" is a script that
every process runs in the same order, because no class of the repository calls the collective operations.

### `JobQueues` and `UserGeneration`: the clock of a simulation

`JobQueues` has the operations of `JobQueue` and `Container_JobQueue`. `UserGeneration` has the future-event set:
events carry the time left and those due together happen in the order they were scheduled. `WaitToExecute`,
`HourEvent` and `IntervalEvent` are the messages of `UserGeneratorDay`, `Alarm` and `Finalize` those
of the manager. What a user does between two events takes any time.

### `NodeEnergy`: states of a node and of its parts

Extends `CpuScheduling` with a clock, the node's own state (`LinkVM`, `UnlinkVM`), the state messages of
`StatesApplication` to cores, disk and network, the IDLE messages of the FIFO scheduler (`Idle`), the p-state
and the time a block takes (`Execute`, `Continue`, `Complete`), and a meter per part (`ChangeState`,
`StateTime`). Every handler of `CpuScheduling` that FIFO with overhead
enables is taken inside an action of its own here, so that this run covers them; `cpu_rr` runs `RoundRobinSpec`, the
disjuncts that round robin without overhead enables. Messages without delay
are delivered before the clock advances, in any order that keeps that of each path. Energy is not computed, as it
is real-valued: a meter counts seconds, and `MeterExact` gives every state a consumption of one.

## Runs

| Run | Instance | Shows |
|---|---|---|
| `cpu_rr` | 2 guests, 3 blocks of 5, 2 and 1 MIs, quantum 2, 2 virtual and 2 physical cores, one state message | idle flags tell the truth, nothing waits beside a free core, each block is answered once and complete, and is answered |
| `cpu_overhead_queue` | FIFO with overhead, one busy guest, two virtual cores on one physical core | **violation** of `SavedResponseKept` |
| `node_energy` | FIFO with overhead on a node of 2 cores with a disk and a network, 2 machines, 3 blocks of 1 or 3 s, 4 s | parts follow their node, meters lose no second, types |
| `containers_share` | 2 computing containers (1 and 2 iterations), 1 server with 2 hits, two at a time | gate vectors agree, answers reach the sender, counters are exact, computing containers end |
| `requests_queue` | 5 requests, one sent per handler | nothing stranded, FIFO refinement, every request is considered |
| `cloud_ample` | 2 users, 4 jobs, 3 machines, 2 nodes with room for 2 each | jobs have a machine of their own, books are right, users leave cleanly, the simulation ends |
| `vm_placement` | the 4 schedulers, 2 users, 3 machines, 2 sets of nodes (one of 5 units, two of 9), a storage node | node memory and power are exact, addresses resolve, a machine goes when all have answered |
| `volume_manager` | 5 block lists, 2 disks, strides of 2 blocks, both managers, with and without overhead | stripes are accounted for, the promise of a volume is kept, requests are answered |
| `node_storage` | 3 jobs of 2 machines, cells of 5 blocks each on a memory of 6, a node turned on twice | no request lost, no block counted twice, jobs start when preloaded and end |
| `remote_storage` | 4 machines of 2 users on 2 nodes with equal virtual addresses, a storage node, ports 1024-1027, 6 workloads | messages reach their addressee, tables agree, only closing stops the run, jobs are answered |
| `mpi_applications` | 3 processes, 2 iterations or 6 collective calls | iterations and collectives in step, jobs finish |
| `user_generation` | 6 configurations of one or two cells, 6 ticks an hour | users on schedule, nothing left behind, files requested once, the run ends |

### Bounds, and why they are enough

* CPU: three blocks on two cores give a queue, a requeue and a free core at once; loads of 1, 2 and 5 MIs are below,
  at and above (and no multiple of) what a quantum executes.
* Energy: 3 s is the shortest block that is continued twice and speeds up twice; two machines give a node that stays on
  when one leaves, and one that is turned off and on again; `MaxTime` is 4 and `MaxUses` one operation of a device;
  four p-states instead of 13, so that the fastest one is reached.
* Requests: two storage requests in a row are needed for the walk to skip one, and a request behind them to be
  skipped; a handler that sends one request is enough to fill the temporal queue in any order, because the walk has
  several handlers.
* Cloud: `MaxVMs` is the sum of the machines the users may ask for, so it never binds; a user with more jobs than
  machines, and one with fewer.
* Placement: an octet counts to 1 instead of 256, so that the carry of an address happens with the second machine;
  the image is larger than the machine placed, which the schedulers confuse; one node is too small for two machines.
* Containers: three containers and two places, so that a position is reused while another container has a request
  under way. `pendingHits` is no longer counted down below `-MaxHits`, where no later hit can bring it back to
  zero; the code only compares it with zero once all hits have come.
* Volume: requests of 5, 4, 1 and 0 sectors are of an odd number of strides, of an even one, within one, and empty;
  the deletion has no branch.
* Node storage: the cells together exceed the memory, so that either of the two refusals happens.
* Network: `MaxTimes` is 1 (60 in the code) and `ConnectionTimeOut` 1: a request expires, is retried, or is found;
  four ports are fewer than the connections of a workload with a closed machine. The workloads are separate because
  their product is out of TLC's reach.
* MPI: three processes are a master and two workers, which can overtake one another, and a root that is neither.
* Users: an hour of 6 ticks and an alarm every 2 put events at the same tick and apart; `MaxUsers` only names the
  users the fairness condition quantifies over.

Each run with `CHECK_DEADLOCK FALSE` ends in states where its jobs have ended or the simulation was stopped by an error
(`fault`), which are terminal in the program as well; the liveness property of the run tells that end from a
deadlock. `vm_placement` has no liveness: its machines stop coming at `MaxVMs`.

### Fairness

Weak fairness of what the event queue schedules, and only of that: the delivery of every message that was sent,
latencies, timers, the alarm of the manager, the arrival of users the generator has scheduled, and the end of an
application that runs. It is justified by OMNeT++: an event in the queue is delivered once its time has come, and
there are finitely many before it. No fairness is assumed of *choices* (which node, whether a request can be
granted), nor of `CreateProcess`, which is up to the user. `MpiApplications` and `RemoteStorage` have weak fairness of
any step: their behaviours are finite, and the step that is next is the next event of the queue. `vm_placement`,
`node_energy` and `requests_queue`'s safety part state no fairness because they check no liveness with it.

## Findings

One run shows a disagreement between code and comments:

* `cpu_overhead_queue`: `H_CPUManager_Base::processResponseMessage` saves a response in the slot of its core, and
  then schedules the next queued block on the same core before the slot is read. With more load than cores the
  saved response is overwritten and lost, and its application waits for ever.

The models follow the code in what else was met while reading; these are read from the source and have no run of their own.

Processors and energy

* A block given as CPU time whose time is no multiple of the quantum keeps its time in the last branch of
  `CPUcore::processRequestMessage` (`CPUcore.cc:186`), and round robin requeues it for ever.
* Round robin treats a state message as a block: nobody answers it, so a virtual core stays busy for ever.
  `WorkConserving` is stated in terms of the flags and holds, with one core less.
* The FIFO scheduler, when its queue is empty after an answer, sends IDLE naming the *virtual* core, which the
  hypervisor takes as a physical one: a core that executes a block of another machine is metered and clocked as idle.
* A block of T > 1 seconds takes T(T-1)/2+1 seconds: the rest after a second is both the delay and what is left
  (`CPUcore.cc:203-222`); 3 s take 4 s and 10 s take 46 s.
* The copy of a block that stands for its overhead keeps the remaining MIs of the whole block, so that the
  overhead takes as long as the block.
* `EnergyMeterStates::changeState` credits the time since the last change to the state *entered*, while
  `EnergyMeterStates.h` says "the amount of time that the component has been at the given state". Sums over states
  are right (`MeterExact`), energy is not, and can fall between two readings.
* `CPUMeterCore` reads the times of every core from the meter of core 0.
* The network is metered off after each response and on again only by the next state of the node.
* The schedulers' INCREMENT and DECREMENT messages name no core and change nothing. A node whose initial state is not "off_state" keeps its cores off.
* A machine with more virtual cores than its node has cores makes `toNodeCPU` run out of its range.

Users, machines and requests

* `shutdown_VM` ignores a machine that is still off, which every machine is when it has just been granted
  (`AbstractCloudUser.cc:175`): one granted after the last job has found another machine is never returned.
* What is left of a partly granted start request outlives its user (`AbstractCloudManager.cc:522`); attending it
  later throws.
* `NodeVL::unlinkVM` gives back memory that `testLinkVM` refused to charge (`NodeVL.cc:97`), so a node can have
  more free memory than memory; `NodesExact` excludes such nodes by name (`uncharged`).
* The allocation vectors of storage nodes give undefined results when a user has several machines; the count of storage
  connections goes wrong when a job has both local and remote file systems (`StorageManagement.cc:110`); a
  storage request without room is dropped without an answer (`AbstractDCManager.cc:917`).
* With "no_distribution" the hours of a generator never advance and it never ends; of several cells the first that
  ends sets `no_more_users`, and later users are refused without a word; storage nodes are never turned off.
* With several file systems only the first path filters the files to preload.

Containers

* `executeCPU` of `Container_ServerApplication` is never reset (`Container_ServerApplication.cc:226`), so every
  computing answer sends another computing request and takes one from `pendingHits`. The counter passes zero while the limit is not
  over, and the test for exactly zero afterwards never succeeds. If it does succeed, the request that follows the
  end is sent on a gate that has just been disconnected, and the simulation stops (`fault` in `ContainerMessaging`).
  `ServerApplication` has the same code.

Storage and network

* With the RAID manager a request of no sector has no sub-request and is never answered.
* `nodeOn` of the memory manager is never reset: the hypervisor's own memory is not taken again after a node was
  off (`H_MemoryManager_Base.cc:130`). A job that ends without release keeps its blocks until the node is off.
* The answer to a job's own CREATE is swallowed while another job of the machine preloads (`RemoteStorageApp.cc:206`).
* A second job that asks for NFS while its cell is not active is answered before the connections are up, or its
  operation is lost; a PFS cell with one target never answers a second job.
* The ports of servers that stopped listening are never returned, an old listener wins over a new one, and a
  closed machine that never ran a job stops the simulation.

## Proofs

| Theorem | Module | Statement |
|---|---|---|
| `TypeCorrect` | `NodeEnergyProofs` | `Spec => []TypeOK`, for every number of guests, blocks, state messages and cores |
| `Conserving` | `NodeEnergyProofs` | `Spec => []WorkConserving`, with and without overhead, FIFO and round robin |
| `SharingInvariant`, `FlagsTruthful`, `AnsweredOnce` | `NodeEnergyProofs` | without overhead: `BusyFlagTruthful` and `AnsweredOnceWhenComplete` |
| `NothingIsStranded` | `RequestsManagementProofs` | `Spec => []NothingStranded`, for every set of requests and any number sent by a handler |
| `QueueRefinement` | `RequestsManagementProofs` | `Spec => A!Spec`: the two queues implement the FIFO |
| `BooksAreRight`, `CloudTyped` | `CloudLifecycleProofs` | the inductive invariant of users, queue and machines, and `Spec => []TypeOK`, for every number of users, jobs, nodes and machines |
| `JobsKeepTheirMachine` | `CloudLifecycleProofs` | `Spec => []JobsOnOwnMachine` |
| `UsersLeaveWithJobsDone` | `CloudLifecycleProofs` | a user is gone only when all its jobs are finished |
| `GrantsAreRight` | `CloudLifecycleProofs` | `Ample => (Spec => [](IInv /\ AInv))`: with room for all machines, start requests are granted at once |
| `UsersBooksRight`, `UsersLeaveCleanly` | `CloudLifecycleProofs` | with `Ample`: `Spec => []RequestsAccounted`, `Spec => []LeavesCleanly` |
| `MessagingInvariant`, `VectorsAgree` | `ContainerMessagingProofs` | `Spec => []GatesAgree`, for every set of containers, creation and removal in any order |
| `ResponsesReachSenders`, `CountersAreExact` | `ContainerMessagingProofs` | `Spec => []ResponseReachesSender`, `Spec => []CountersExact` |
| `PlacementInvariant`, `NodesStayExact` | `VmPlacementProofs` | `Spec => []NodesExact`, for every number of nodes, machines, sizes and users |
| `AddressesResolve` | `VmPlacementProofs` | `Spec => []VirtualIPsResolve` |
| `UnlinkedOnce` | `VmPlacementProofs` | the action property `UnlinkedWhenAllAnswered` |
| `NodeInvariant`, `PartsFollow` | `NodeEnergyProofs` | `EnergySpec => []PartsFollowNode`, FIFO with overhead, for every number of cores, devices, machines and state messages |
| `MetersLoseNothing` | `NodeEnergyProofs` | `EnergySpec => []MeterExact`, for every number of parts, states and changes |
| `VolumeInvariant`, `StripesAreAccounted` | `VolumeManagerProofs` | `Spec => []StripesAccounted`, for all requests, strides and numbers of disks |
| `VolumeImplements` | `VolumeManagerProofs` | `Spec => Abstract!Spec`: both volume managers implement `AbstractVolume` |
| `NetworkInvariant`, `MessagesReachAddressee` | `RemoteStorageProofs` | `Spec => []DeliveredToAddressee`, for every number of users, machines, nodes, ports and jobs |
| `TablesStayRight` | `RemoteStorageProofs` | `Spec => []TablesAgree`, whatever is opened, closed or retried |
| `PortsInvariant`, `NothingStopsBeforeClose` | `RemoteStorageProofs` | `PortsSuffice => (Spec => []StopsOnlyAfterClose)`: no port collides until one is returned |
| `StorageInvariant`, `StorageImplements` | `RemoteStorageProofs` | `SameStorage => (Spec => KeepsPromise)`: PFS and NFS implement `AbstractVolume` |

Each module assumes the named assumption on its constants and nothing else, but for the theorems that state
`~Overhead`, `Ample`, `SameStorage` or `PortsSuffice` themselves. Every inductive invariant was given to TLC as an invariant of the component's run before it
was proved. In each module there is one lemma per action, or per operation several actions share, and lemmas for
the operators the model is built from.

### Cores (`NodeEnergyProofs`)

`TypeOK` is inductive as it stands: the two searches of the code (first idle flag, first free core) return a core
they have, queues hold messages of the run only, and what remains of a block stays a natural number because a slice
is never longer than it.

`WorkConserving` holds with and without overhead: a message is only queued when the search found nothing, and every
answer that frees a core is followed by the look at the queue in the same handler.

`BusyFlagTruthful` and `AnsweredOnceWhenComplete` need to know where every message is: each queue holds, once, the
messages marked as waiting there; two messages past a scheduler have different virtual cores; the hypervisor's table
has exactly the cores of the messages past it, one each; and what is left of a block is what its state says. They
are proved for `~Overhead`, and that hypothesis is the code's and not the proof's: with overhead
`HypOverheadResponse` reads the slot of the core after the hypervisor has already given the core to another
message (the violation `cpu_overhead_queue` finds), so that two blocks come to share a core.

### Queue of requests (`RequestsManagementProofs`)

`NothingStranded` alone is not inductive: `Inv` adds `TypeOK`. The refinement needs `Inv` in every step, because a
step of the walk that erases a request maps to `Attend` only when the concatenation of the two queues loses exactly
that position (`EraseConcat`) and stays free of repetitions (`EraseDistinct`, `FreshType`). `SchedulerUnblock`, which
moves the temporal queue, is a stutter of the abstract specification.

### Users and their machines (`CloudLifecycleProofs`)

A handler of this component calls others inside it (a user's `schedule()` inside the cloud manager's
`requestAttended` inside the scheduler's walk), so what is proved of a handler is about the *world* it changes: the
user's record, the requests, the machines and the messages. There is one lemma per operator, and the actions put
them together.

`JobsOnOwnMachine` relates a job to the machine it holds, but a machine passes through a start request, the list of
machines of its user, the job it is given to, a finalization and a shutdown request, and a job through the waiting,
storage and running queues. `IInv` therefore says, of every user (`UserRight`): a job is in one queue once, and the jobs in
the storage and running queues hold different machines of the user, on which nobody else is (`JobsRight`); the
machines the user lists are the ones on nodes (`MachinesRight`); a start or storage request in the queue is one of those the
counters stand for (`RequestsRight`); what the user has asked to finalize is its own (`FinalizingRight`). To these come the
tenants table (`TenantRight`), the placement of machines on the nodes (`MachinesPlaced`), the queue
(`QueueRight`, from the component `RequestsManagement`), and the notifications on their way (`NotificationsRight`). None of
them is inductive alone: that a job's machine is its user's needs that an answer to a storage request names
a job that still waits for it, which needs the counters, which need the queue.

`RequestsAccounted` and `LeavesCleanly` do *not* hold for every configuration. A start request that waits for room
when its user leaves names a user that is gone, and the code throws at it (`AbstractCloudManager.cc:522`; hazard list).
`Ample` is the assumption under which the run `cloud_ample` checks them, stated for every size: the machines that users ask
for on their arrival (`Demand`) fit on the nodes (`Places`). The proof is a count: `AInv` says that the
machines ever placed are exactly those demanded by the users whose request was attended, so that while one request
remains there is a place left (`PlacesLeft`), and a request is granted in the walk that meets it first. `JobsOnOwnMachine`
and that users leave with their jobs done need no such assumption.

### Gates and messages (`ContainerMessagingProofs`)

`GatesAgree` says nothing of the gates that are linked but are in nobody's table, so that it is not inductive. `GatesInv`
says that the ten vectors have the same length and the same holes in the same order; that the holes are the free
positions, once each; that a linked container has one position in all of them, with the gate behind it that
`Behind` names; and that every position that is not free has a container. From it follows that the ten calls of
`newGate` return the same position (`HoleTaken`, `GateLinked`) and that the search of `searchGate` finds the position of the
container that ends and of no other (`ProcessRemoved`). `TrafficInv` adds, while nothing has failed: every message has a
running container and carries as its trace the position of this container once per module passed; every chain of
requests has one message, and a computing container one chain, so that nothing is on its way when its process is
removed. A server may have other chains under way at its end; the simulation stops there, and that is why
`ResponseReachesSender` has two cases. The counters follow from `SharesAddUp`: a message that is replaced takes its share of each
counter with it and brings its own.

### Machines on nodes (`VmPlacementProofs`, `DataProofs`)

`NodesExact` needs the sum of what the machines of a node use as a sum over a set (`Sums`), which changes by one
term when a machine comes or goes. `VirtualIPsResolve` needs that addresses only grow and that a user's cell in the table
is never removed while the user has machines, so that a new address is different from every one given before; and
that an entry names the node on which its machine is linked. `UnlinkedWhenAllAnswered` is an action property: of the
two actions that answer, only the one that finds the other answered unlinks.

### Energy of a node (`NodeEnergyProofs`)

`NodeEnergy` is about FIFO with overhead and no more virtual cores than cores (`EnergyAssumption`), so that the
sharing invariant above is not available. The one used here says less: one
block at most *holds* a core (`OneHolder`), the hypervisor's slot of that core belongs to it (`SlotsKept`), the message
put aside while the overhead is computed is on its core (`PendingOnCore`), and queues hold each block once
(`QueuesOK`). Together with `WorkConserving`, it gives that the core an answer releases is the one the next
block takes. For the states: the last state message on its way to a core is "off" exactly when the node is, and
nothing on its way turns a core off while a block is active on it. For the meters: the seconds credited to the states
of a part add up to the time of its last change, so that with the open interval they are the clock.

### Volumes (`VolumeManagerProofs`)

Both properties follow from one invariant, `IInv`, about what is *held*: the pieces that wait in a queue, are at the
disk, or are delayed by the hypervisor. Each is at one place only and belongs to a request that has not been answered;
what has left the disk has been transferred; and with `StorageManager` a busy disk has exactly one piece out, an idle one
an empty queue, and the pieces of a request that are held are as many as have not been counted as arrived. So when the
count reaches the number of stripes nothing of the request is held, and with what was transferred that is all of its
blocks (`LastBlocks`): the answer is a step of `AbstractVolume`. That the stripes dealt out to the disks are those
of the request, once each, and cover it is arithmetic (`RoundedUp`, `StripesCover`, `StripesOfDisk`). After an error
(`fault`) the simulation has stopped; only the error of a deletion, which is found before the request is
split, breaks the invariant, and `IInv` excludes it by name.

### Network and remote storage (`RemoteStorageProofs`)

`TablesAgree` is not inductive: it says that rows of the port table and the cells of the machines agree, and not why a
new row or a removed one keeps that. `NetInv` adds the shapes of the tables; that every row the port table has for a
machine has its user, an entry in the cell of the machine and a listener; that a real port has one listener; and, of
established connections, whose rows have the ids of user and machine exchanged, that they are for no machine (the module
ids of OMNeT++ are unique). For messages (`ClientsRight`): a connection that is being opened or sent through is bound to the
server the client asked for, and the user of a client that has not begun still has all its machines, so that the address it
asks for resolves. `Deliver` finds the job by the port (`ListenerFound`), and the gates by the address, which is of one
machine because the virtual addresses of a user differ: the assumption here is what `AddressesResolve` proves of
`VmPlacement`.

The refinement is a count again. `StorageInv` says: the jobs of a machine that wait for connections are there once each
(`WaitingRight`); what was asked is of jobs that have begun (`BegunRight`); an active PFS cell has as many servers as its
jobs have target nodes, one connection to each (`CellsRight`; `LengthOfRange` and `CellEstablished` do the counting);
every part of an operation is in one place, in the queue, in its latency or sent, until it is served, and NFS serves
its parts in order (`PartsRight`); and the responses counted for an operation are as many as its parts served (`CountRight`). So an
operation whose count has reached the number of its parts has had all of them served, and its answer is a step of `AbstractVolume`.

`SameStorage` is its hypothesis: the jobs of a machine use the same file system and the same storage nodes. A cell is made by the first job
of its machine, and the others share its connections, so that without it the servers of the cell are not the job's targets and an
answer comes after too many or too few responses. The code gives it as long as no storage node fills up:
`selectStorageNodes` (`CloudSchedulerFCFS.cc:276`) takes the first nodes with space, for every job the same. The configuration of the run has it,
and TLC evaluates it there (`MCSameStorage`).
`NetworkInvariant`, `MessagesReachAddressee`, `TablesStayRight` and `NothingStopsBeforeClose` do not need it.

`StopsOnlyAfterClose` is again a count, of ports this time. PAT and the TCP module of a node choose ports on their own: PAT the
next number that it does not hold for in use, TCP any that no socket or listener has. PAT is told of the port of a connection only once
it is established, so that it may give to a listener the port of a connection still on its way; `existsConnection` looks
at listeners only, and accepts that. What would stop a run is a pointer at the last port, or a port that has a
listener already. `OpenInv` therefore says, while no machine is closed: no port has been returned (`portHoles` is empty), all
ports below the pointer are in use and so are those of listeners, and each port in use is taken by a listener or an established
connection (`PortsGiven`). What takes a port (a job, or a machine and a node of storage, at either end: `PortUsers`) takes one only, because
servers and clients begin once, a machine listens once at a node of storage and connects to it once
(`ListenersOnce`, `RequestsOnce`, `TakesOne`). So while something still needs a port, those in use are fewer than those there are
(`PortFree`, by an injection from the ports to their takers). The errors of a close (`no user`) and of the gates are excluded
by `HostsRight`, which says that a machine has ports at each node where it will be closed, and by `NetInv`. After the first close
all this ends: ports are returned while they are listened to, and closed sockets are found again.

`PortsSuffice` is the hypothesis: no node has more takers than ports that the PAT has (1024 to 65534). The code throws otherwise
(`PortAddressTranslation.cc:232`). TLC evaluates it for the run, whose nodes have three ports (`MCPortsSuffice`).

### Model-checked only

* Every liveness property: TLAPS does not reason about fairness or ENABLED.
* `MpiApplications`: its collectives are RECURSIVE operators, which a module with a theorem may not reach. What a
  recursive definition computes for every input is out of the prover's reach in any case.
* `NodeStorage` and `UserGeneration`: their
  handlers are folds and filters of sequences, about which each step would need an induction over data.

## Not modelled, and why

`PROJECT.json` lists every component with its reason.

* Energy in watts, the sampling of the power supply and memorization: sums of real numbers, which TLC cannot
  represent. What the sums are taken over, the time in each state, is in `NodeEnergy`.
* `RAMMemory_BlockModel`: it answers nothing as written (its latency branch sends the original request on and never its
  sub-requests, and deletes the answer), and no configuration uses it.
* `ApplicationHTC`, `ApplicationCheckpoint`, `CPU_Intensive`, `ServerApplication`: no machine can run them (see
  above); HTC and Checkpoint also read parameters their NED files do not declare and handle no SM_SUPER.
* Bookings: nothing calls them. `SmartUser`: its module cannot be created. Migration: nothing starts it.
* The TCP of INET, which is not here; configuration parsers, logs, reports and the packing of messages, which are
  input and output. Random arrivals are choices of an interval.
* Network messages of containers, because neither container class sends any.
* More than one storage connection per process in the cloud manager: `notifyStorageConnectionSuccesful` uses
  iterators of erased elements.

### How much of the source this is

The map names about 12,700 lines, some 19% of the implementation and over two fifths of the files of the modelled
components. What is left of those files is mostly logging, getters and setters, the packing of messages, printing of results and code
that nothing calls; the rest of the implementation is configuration parsers, headers, third-party code
(`uthash.h`), and the components above.
