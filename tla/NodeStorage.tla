------------------------------- MODULE NodeStorage -------------------------------
(***************************************************************************)
(* Memory and files of a node.  A compute node hosts virtual machines,     *)
(* whose jobs use memory and local files; a storage node keeps the files   *)
(* of machines that run elsewhere.  Requests cross the operating system    *)
(* (SyscallManager, RemoteStorageApp), the hypervisor's memory manager     *)
(* (H_MEM_SCHED_FIFO), main memory (RAMmemory), a virtual file system and  *)
(* a file system (those of the machine, or those of the node, which keep   *)
(* the files per user), and the volume, of which AbstractVolume says what  *)
(* it promises.  A step handles a request until it waits for a latency.    *)
(*                                                                         *)
(* The allocation of memory is counted in blocks; a request to read or     *)
(* write is of at least one sector.                                        *)
(***************************************************************************)
EXTENDS Naturals, Integers, Sequences, FiniteSets, FiniteSetsExt, SequencesExt

CONSTANTS
    Roles,          \* a subset of {"compute", "storage"}
    VMs, UserOf,    \* virtual machines and the user of each one
    Jobs, VmOf,     \* jobs and the machine of each one
    Paths,          \* per job, the sequence of its paths in the file system
    Preload,        \* per job, the files to preload
    Script,         \* per job, its requests: sequence of records [op, arg]
    TotalBlocks,    \* of main memory
    CellBlocks,     \* of the memory of each machine
    OverheadBlocks, \* memory that the hypervisor uses
    MaxTurnOns      \* bound of the model

ASSUME NodeAssumption ==
    /\ Roles \subseteq {"compute", "storage"}
    /\ VmOf \in [Jobs -> VMs]
    /\ \A j \in Jobs : Paths[j] # <<>>
    /\ TotalBlocks \in Nat \ {0} /\ CellBlocks \in [VMs -> Nat \ {0}]
    /\ OverheadBlocks \in Nat /\ MaxTurnOns \in Nat

MemoryOps  == {"allocate", "release"}
LatencyOps == {"create", "open", "close"}
DiskOps    == {"read", "write"}
NoFile     == "none"

VARIABLES
    role,
    actualState,        \* of StatesApplication
    turnOns,
    nodeOn,             \* the memory manager has allocated the overhead
    memoryCells,        \* of the machines, in the order of their creation: [vm, left]
    freeAppBlocks,
    writing, searching, \* requests under the latencies of main memory
    pathTable,          \* paths, per machine or per user
    fileList,           \* files, per machine or per user
    pending,            \* requests under the latencies of the file systems
    volume,             \* block lists sent to the volume
    iors,               \* SM_SET_IOR requests on their way
    iorCreation, filesCreation, \* sm_ior_creation, sm_files_creation: [vm, job, iors, files]
    job,                \* [status, pc, waiting, held] of each job
    gone,               \* machines whose files were deleted or that were unlinked
    fault

memory  == <<nodeOn, memoryCells, freeAppBlocks, writing>>
files   == <<pathTable, fileList, pending, volume>>
preload == <<iors, iorCreation, filesCreation>>
vars == <<role, actualState, turnOns, memory, searching, files, preload, job, gone, fault>>
-------------------------------------------------------------------------------
(* Answers to a job.                                                       *)

Answered(r) == [r EXCEPT !.waiting = FALSE, !.pc = @ + 1]
Answer(j)   == job' = [job EXCEPT ![j] = Answered(@)]
Waits(j)    == job' = [job EXCEPT ![j].waiting = TRUE]

Request(j) == Script[j][job[j].pc]
-------------------------------------------------------------------------------
(* Main memory (RAMmemory).                                                *)

RamAllocateMiscounted(message, blocks) ==
    /\ freeAppBlocks' = IF blocks < freeAppBlocks THEN freeAppBlocks - blocks ELSE freeAppBlocks
    /\ writing' = Append(writing, [message EXCEPT !.granted = blocks <= freeAppBlocks])

\* A request that does not fit is answered all the same, after the latency.
RamAllocate(message, blocks) ==
    /\ freeAppBlocks' = IF blocks <= freeAppBlocks THEN freeAppBlocks - blocks ELSE freeAppBlocks
    /\ writing' = Append(writing, [message EXCEPT !.granted = blocks <= freeAppBlocks])

RamRelease(message, blocks) ==
    /\ freeAppBlocks' = Min({freeAppBlocks + blocks, TotalBlocks})
    /\ writing' = Append(writing, message)

Message(j) == [job |-> j, op |-> Request(j).op, arg |-> Request(j).arg, granted |-> TRUE]
Hypervisor == [job |-> "hypervisor", op |-> "allocate", arg |-> OverheadBlocks, granted |-> TRUE]

\* StatesApplication::changeState, H_MemoryManager_Base and RAMmemory::changeDeviceState.
\* The state of a machine that is off is "off_state", never "off".
ChangeState(newState) ==
    /\ actualState' = newState
    /\ nodeOn' = (nodeOn \/ OverheadBlocks # 0)
    /\ IF ~nodeOn /\ OverheadBlocks # 0
       THEN RamAllocate(Hypervisor, OverheadBlocks)
       ELSE /\ freeAppBlocks' = IF newState = "off_state" THEN TotalBlocks ELSE freeAppBlocks
            /\ UNCHANGED writing

Unchanging == UNCHANGED <<actualState, nodeOn, freeAppBlocks, writing>>
-------------------------------------------------------------------------------
(* Memory of the machines (H_MEM_SCHED_FIFO).                              *)

CellOf(v) == SelectInSeq(memoryCells, LAMBDA c : c.vm = v)

\* The cell that a release credits: the first one of the user, since the identifier of
\* the machine is compared with itself.
CreditedCell(v) == SelectInSeq(memoryCells, LAMBDA c : UserOf[c.vm] = UserOf[v])

AllocateRefusedAnyway(j, blocks) ==
    LET cell     == CellOf(VmOf[j])
        temporal == memoryCells[cell].left - blocks
    IN  /\ memoryCells' = [memoryCells EXCEPT ![cell].left = Max({@ - blocks, 0})]
        /\ RamAllocate(Message(j), blocks)
        /\ IF temporal <= 0 THEN Answer(j) ELSE Waits(j)
        /\ UNCHANGED nodeOn

\* A request for all that is left is refused.
Allocate(j, blocks) ==
    LET cell     == CellOf(VmOf[j])
        temporal == memoryCells[cell].left - blocks
    IN  IF temporal <= 0
        THEN Answer(j) /\ UNCHANGED memory
        ELSE /\ memoryCells' = [memoryCells EXCEPT ![cell].left = temporal]
             /\ RamAllocate(Message(j), blocks)
             /\ Waits(j)
             /\ UNCHANGED nodeOn

Release(j, blocks) ==
    LET cell == CreditedCell(VmOf[j]) IN
    /\ memoryCells' = [memoryCells EXCEPT ![cell].left =
                          Min({@ + blocks, CellBlocks[memoryCells[cell].vm]})]
    /\ RamRelease(Message(j), blocks)
    /\ job' = [job EXCEPT ![j].waiting = TRUE, ![j].held = @ - blocks]
    /\ UNCHANGED nodeOn
-------------------------------------------------------------------------------
(* Virtual file systems and file systems.  A machine on this node has its  *)
(* own; the machines of a user elsewhere share those of the node.          *)

Owner(v) == IF role = "compute" THEN v ELSE UserOf[v]

\* processRequestMessage, SM_SET_IOR.  The machine's searches its paths.  The node's
\* compares the path with the first one of the user for ever, past the end of the table.
SetIorAtVM(v, path) ==
    /\ role = "compute"
    /\ pathTable' = [pathTable EXCEPT ![v] = @ \union {path}]
    /\ UNCHANGED fault

SetIorAtNode(v, path) ==
    LET known == pathTable[UserOf[v]] IN
    /\ role = "storage"
    /\ IF known = {} THEN pathTable' = [pathTable EXCEPT ![UserOf[v]] = {path}] /\ UNCHANGED fault
       ELSE /\ fault' \in IF path \in known THEN {"none", "path table"} ELSE {"path table"}
            /\ UNCHANGED pathTable

\* Without a path the request of a file is lost (or, for a machine, sent away).
PathFound(v) == pathTable[Owner(v)] # {}

\* processIORequest: the latency of a control operation.  A file to open must exist.
FsControl(v, message) ==
    LET known == fileList[Owner(v)] IN
    IF message.op = "open" /\ message.arg \notin known
    THEN fault' = "no file" /\ UNCHANGED <<fileList, pending>>
    ELSE /\ fileList' = IF message.op = "create"
                        THEN [fileList EXCEPT ![Owner(v)] = @ \union {message.arg}] ELSE fileList
         /\ pending' = [pending EXCEPT ![message.op] = Append(@, message)]
         /\ UNCHANGED fault

\* translateIORequests: one block list, sent to the volume.
FsTransfer(v, message) ==
    IF message.arg \notin fileList[Owner(v)]
    THEN fault' = "no file" /\ UNCHANGED volume
    ELSE volume' = volume \union {message} /\ UNCHANGED fault

Control(j) ==
    /\ Waits(j)
    /\ IF PathFound(VmOf[j]) THEN FsControl(VmOf[j], Message(j))
       ELSE UNCHANGED <<fileList, pending, fault>>
    /\ UNCHANGED <<pathTable, volume>>

\* deleteUser of the node: the files and paths of all the machines of the user.
DeleteUser(v) ==
    LET user == UserOf[v] IN
    /\ pathTable' = [pathTable EXCEPT ![user] = {}]
    /\ fileList' = [fileList EXCEPT ![user] = {}]
    /\ volume' = volume \union {[job |-> "deletion", op |-> v, arg |-> f, granted |-> TRUE] :
                                f \in fileList[user]}
-------------------------------------------------------------------------------
(* Preloading of files (RemoteStorageApp).                                 *)

PreloadMessage(j, f) == [job |-> "preload", op |-> "create", arg |-> f, granted |-> TRUE]

\* SM_NOTIFY_PRELOAD_FINALIZATION: the manager starts the job.
Notify(j) == job' = [job EXCEPT ![j].status = "running"]

CreateFilesToPreload(j) ==
    /\ fault = "none" /\ actualState # "off_state"
    /\ job[j].status = "new" /\ VmOf[j] \notin gone
    /\ role = "compute" => CellOf(VmOf[j]) # 0
    /\ job' = [job EXCEPT ![j].status = "preloading"]
    /\ iors' = iors \o [i \in DOMAIN Paths[j] |-> [vm |-> VmOf[j], path |-> Paths[j][i]]]
    /\ iorCreation' = Append(iorCreation, [vm |-> VmOf[j], job |-> j,
                                           iors |-> Len(Paths[j]), files |-> Preload[j]])
    /\ UNCHANGED <<role, turnOns, actualState, memory, searching, files, filesCreation, gone, fault>>

LastEntryOf(v, entries) == SelectLastInSeq(entries, LAMBDA c : c.vm = v)

\* Jobs of a machine share its entries; the first one is taken.
EntryOf(v, entries) == SelectInSeq(entries, LAMBDA c : c.vm = v)

\* processIOCallResponse, SM_SET_IOR: the first entry of the machine; after the last
\* response, its files are created, if there are any.
SetIorResponse(v) ==
    LET at    == EntryOf(v, iorCreation)
        entry == iorCreation[at]
        order == SetToSeq(entry.files)
    IN  IF entry.iors > 1
        THEN /\ iorCreation' = [iorCreation EXCEPT ![at].iors = @ - 1]
             /\ UNCHANGED <<filesCreation, fileList, pending, job>>
        ELSE /\ iorCreation' = RemoveAt(iorCreation, at)
             /\ IF entry.files = {}
                THEN Notify(entry.job) /\ UNCHANGED <<filesCreation, fileList, pending>>
                ELSE /\ filesCreation' = Append(filesCreation, entry)
                     /\ fileList' = [fileList EXCEPT ![Owner(v)] = @ \union entry.files]
                     /\ pending' = [pending EXCEPT !["create"] = @ \o
                            [i \in DOMAIN order |-> [vm |-> v] @@ PreloadMessage(entry.job, order[i])]]
                     /\ UNCHANGED job

SetIor ==
    /\ fault = "none" /\ iors # <<>>
    /\ iors' = Tail(iors)
    /\ SetIorAtVM(Head(iors).vm, Head(iors).path) \/ SetIorAtNode(Head(iors).vm, Head(iors).path)
    /\ SetIorResponse(Head(iors).vm)
    /\ UNCHANGED <<role, actualState, turnOns, memory, searching, volume, gone>>

CreateResponseLate(v, message) ==
    LET at   == EntryOf(v, filesCreation)
        left == filesCreation[at].files \ {message.arg}
    IN  IF at = 0 THEN Answer(message.job) /\ UNCHANGED filesCreation
        ELSE IF filesCreation[at].files = {}
        THEN Notify(filesCreation[at].job) /\ filesCreation' = RemoveAt(filesCreation, at)
        ELSE filesCreation' = [filesCreation EXCEPT ![at].files = left] /\ UNCHANGED job

\* processIOCallResponse, SM_CREATE_FILE: any file of a machine that preloads is taken for
\* a preloaded one, and its answer is deleted.
CreateResponse(v, message) ==
    LET at   == EntryOf(v, filesCreation)
        left == filesCreation[at].files \ {message.arg}
    IN  IF at = 0 THEN Answer(message.job) /\ UNCHANGED filesCreation
        ELSE IF left = {}
        THEN Notify(filesCreation[at].job) /\ filesCreation' = RemoveAt(filesCreation, at)
        ELSE filesCreation' = [filesCreation EXCEPT ![at].files = left] /\ UNCHANGED job
-------------------------------------------------------------------------------
(* The life of the node and of its machines.                               *)

\* Node::turnOn
TurnOn ==
    /\ fault = "none" /\ actualState = "off_state" /\ turnOns < MaxTurnOns
    /\ turnOns' = turnOns + 1
    /\ ChangeState("idle")
    /\ UNCHANGED <<role, memoryCells, searching, files, preload, job, gone, fault>>

\* setVM of the hypervisor, then NodeVL::setVMInstance.  Whether the memory suffices was
\* tested before, and the result ignored.
LinkVM(v) ==
    /\ fault = "none" /\ role = "compute" /\ actualState # "off_state"
    /\ v \notin gone /\ CellOf(v) = 0
    /\ memoryCells' = Append(memoryCells, [vm |-> v, left |-> CellBlocks[v]])
    /\ IF actualState = "idle" THEN ChangeState("running") ELSE Unchanging
    /\ UNCHANGED <<role, turnOns, searching, files, preload, job, gone, fault>>

JobsDone(v) == \A j \in Jobs : VmOf[j] = v => job[j].status = "done"

\* unlinkVM: a node without machines goes idle and is turned off.
UnlinkVM(v) ==
    /\ fault = "none" /\ CellOf(v) # 0 /\ JobsDone(v)
    /\ memoryCells' = RemoveAt(memoryCells, CellOf(v))
    /\ gone' = gone \union {v}
    /\ IF Len(memoryCells) = 1 THEN ChangeState("off_state") ELSE Unchanging
    /\ UNCHANGED <<role, turnOns, searching, files, preload, job, fault>>

\* deleteUserFSFiles, answered at once with SM_NOTIFY_USER_FS_DELETED.
DeleteUserFSFiles(v) ==
    /\ fault = "none" /\ role = "storage" /\ v \notin gone /\ JobsDone(v)
    /\ DeleteUser(v)
    /\ gone' = gone \union {v}
    /\ UNCHANGED <<role, actualState, turnOns, memory, searching, pending, preload, job, fault>>
-------------------------------------------------------------------------------
(* Requests of the jobs and ends of latencies.                             *)

\* A storage node sees the files of a job, not its memory.
Issue(j) ==
    /\ fault = "none" /\ job[j].status = "running" /\ ~job[j].waiting
    /\ IF job[j].pc > Len(Script[j])
       THEN /\ job' = [job EXCEPT ![j].status = "done"]
            /\ UNCHANGED <<memory, searching, files, fault>>
       ELSE LET r == Request(j) IN
            \/ r.op \in MemoryOps /\ role = "storage"
               /\ Answer(j) /\ UNCHANGED <<memory, searching, files, fault>>
            \/ r.op = "allocate" /\ role = "compute" /\ Allocate(j, r.arg)
               /\ UNCHANGED <<searching, files, fault>>
            \/ r.op = "release" /\ role = "compute" /\ Release(j, Min({r.arg, job[j].held}))
               /\ UNCHANGED <<searching, files, fault>>
            \/ r.op \in LatencyOps /\ Control(j) /\ UNCHANGED <<memory, searching>>
            \/ r.op \in DiskOps /\ Waits(j) /\ searching' = Append(searching, Message(j))
               /\ UNCHANGED <<memory, files, fault>>
    /\ UNCHANGED <<role, actualState, turnOns, preload, gone>>

\* The answer of the hypervisor's own allocation is deleted by its memory manager.
EndOfWrite ==
    /\ fault = "none" /\ writing # <<>>
    /\ writing' = Tail(writing)
    /\ LET m == Head(writing) IN
       IF m.job = "hypervisor" THEN UNCHANGED job
       ELSE job' = [job EXCEPT ![m.job] = Answered([@ EXCEPT !.held =
                        IF m.op = "allocate" /\ m.granted THEN @ + m.arg ELSE @])]
    /\ UNCHANGED <<role, actualState, turnOns, nodeOn, memoryCells, freeAppBlocks, searching,
                   files, preload, gone, fault>>

EndOfSearch ==
    /\ fault = "none" /\ searching # <<>>
    /\ searching' = Tail(searching)
    /\ LET v == VmOf[Head(searching).job] IN
       IF PathFound(v) THEN FsTransfer(v, Head(searching)) ELSE UNCHANGED <<volume, fault>>
    /\ UNCHANGED <<role, actualState, turnOns, memory, pathTable, fileList, pending, preload,
                   job, gone>>

\* Answers of a virtual machine's own file system go to its own operating system.
EndOfLatency(op) ==
    /\ fault = "none" /\ pending[op] # <<>>
    /\ pending' = [pending EXCEPT ![op] = Tail(@)]
    /\ LET m == Head(pending[op]) IN
       IF op = "create" /\ m.job = "preload" THEN CreateResponse(m.vm, m)
       ELSE IF op = "create" /\ role = "storage" THEN CreateResponse(VmOf[m.job], m)
       ELSE Answer(m.job) /\ UNCHANGED filesCreation
    /\ UNCHANGED <<role, actualState, turnOns, memory, searching, pathTable, fileList, volume,
                   iors, iorCreation, gone, fault>>

\* checkResponseMsg: the answers to the block lists of deleteUser are recognised.
EndOfTransfer(m) ==
    /\ fault = "none" /\ m \in volume
    /\ volume' = volume \ {m}
    /\ IF m.job = "deletion" THEN UNCHANGED job ELSE Answer(m.job)
    /\ UNCHANGED <<role, actualState, turnOns, memory, searching, pathTable, fileList, pending,
                   preload, gone, fault>>
-------------------------------------------------------------------------------
Owners == VMs \union Range(UserOf)

Init ==
    /\ role \in Roles
    /\ actualState = "off_state" /\ turnOns = 0
    /\ nodeOn = FALSE /\ memoryCells = <<>> /\ freeAppBlocks = TotalBlocks
    /\ writing = <<>> /\ searching = <<>>
    /\ pathTable = [o \in Owners |-> {}] /\ fileList = [o \in Owners |-> {}]
    /\ pending = [op \in LatencyOps |-> <<>>] /\ volume = {}
    /\ iors = <<>> /\ iorCreation = <<>> /\ filesCreation = <<>>
    /\ job = [j \in Jobs |-> [status |-> "new", pc |-> 1, waiting |-> FALSE, held |-> 0]]
    /\ gone = {}
    /\ fault = "none"

Next ==
    \/ TurnOn
    \/ \E v \in VMs : LinkVM(v) \/ UnlinkVM(v) \/ DeleteUserFSFiles(v)
    \/ \E j \in Jobs : CreateFilesToPreload(j) \/ Issue(j)
    \/ SetIor \/ EndOfWrite \/ EndOfSearch
    \/ \E op \in LatencyOps : EndOfLatency(op)
    \/ \E m \in volume : EndOfTransfer(m)

\* Latencies end, the volume answers (AbstractVolume) and jobs go on.
Fairness ==
    /\ WF_vars(SetIor) /\ WF_vars(EndOfWrite) /\ WF_vars(EndOfSearch)
    /\ \A op \in LatencyOps : WF_vars(EndOfLatency(op))
    /\ \A j \in Jobs : /\ WF_vars(Issue(j))
                       /\ WF_vars(\E m \in volume : m.job = j /\ EndOfTransfer(m))

Spec == Init /\ [][Next]_vars /\ Fairness
-------------------------------------------------------------------------------
(* Properties.                                                             *)

Copies(j) ==
    LET mine(m) == m.job = j
        in(s) == Len(SelectSeq(s, mine))
    IN  in(writing) + in(searching) + Cardinality({m \in volume : m.job = j})
            + in(pending["create"]) + in(pending["open"]) + in(pending["close"])

\* A job that waits has one request in the node, under a latency or at the disk, and a job
\* that goes on has none: no path from the operating system to a device and back loses a
\* request, answers it twice or gives its answer to another application.
RequestsNotLost ==
    fault = "none" => \A j \in Jobs : Copies(j) = IF job[j].waiting THEN 1 ELSE 0

HeldBy(some) == MapThenSumSet(LAMBDA j : job[j].held, some)

\* The hypervisor's own memory, until the node is turned off for the first time.
Overhead == IF turnOns = 1 /\ actualState # "off_state" THEN OverheadBlocks ELSE 0

\* The memory manager and main memory count the same blocks: what the jobs hold, the
\* hypervisor's own part and what is free fit in the node, and what the jobs of a machine
\* hold and what its cell has left fit in the cell, whatever was refused or given back.
NoBlockCountedTwice ==
    /\ freeAppBlocks >= 0 /\ freeAppBlocks + HeldBy({j \in Jobs : VmOf[j] \notin gone}) + Overhead
                                <= TotalBlocks
    /\ \A i \in DOMAIN memoryCells :
          LET v == memoryCells[i].vm IN
          memoryCells[i].left + HeldBy({j \in Jobs : VmOf[j] = v}) <= CellBlocks[v]

\* A job starts once, when all its paths are set and all its files exist, although the
\* application that waits for them tells the entries of a machine apart by their order.
StartsWhenPreloaded ==
    [][\A j \in Jobs : 
          job[j].status # "running" /\ job'[j].status = "running" /\ fault' = "none" =>
          /\ job[j].status = "preloading"
          /\ Range(Paths[j]) \subseteq pathTable'[Owner(VmOf[j])]
          /\ Preload[j] \subseteq fileList'[Owner(VmOf[j])]
          /\ \A i \in DOMAIN iorCreation' : iorCreation'[i].job # j
          /\ \A i \in DOMAIN filesCreation' : filesCreation'[i].job # j]_vars

\* A job whose preloading was asked for starts and ends, unless an error ends the
\* simulation.
JobsEnd == \A j \in Jobs : job[j].status = "preloading" ~> job[j].status = "done" \/ fault # "none"
================================================================================
