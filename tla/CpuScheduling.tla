---------------------------- MODULE CpuScheduling ----------------------------
(***************************************************************************)
(* The path of a computing block: application -> CPU scheduler of its      *)
(* operating system (CPU_Scheduler_FIFO or CPU_Scheduler_RR) -> hypervisor *)
(* CPU manager (H_CPUManager_Base with H_CPU_SCHED_FIFO) -> physical core  *)
(* (CPUcore), and back.                                                    *)
(*                                                                         *)
(* Every handler runs to completion inside one simulation event; a message *)
(* between two modules is a later event.  at[m] is the module that holds   *)
(* message m or the hop it is travelling; hops of different messages are   *)
(* delivered in any order, which includes the order of the event queue.    *)
(***************************************************************************)
EXTENDS Naturals, Sequences, FiniteSets

CONSTANTS
    Guests,      \* operating systems above the hypervisor (VMs and the node's own)
    Blocks,      \* computing blocks (SM_CPU_EXEC messages)
    StateMsgs,   \* SM_CHANGE_CPU_STATE messages sent by the operating system
    Owner,       \* the operating system each message belongs to
    Work,        \* MIs of a block that counts MIs, ticks of one that counts time
    TimeBlocks,  \* the blocks whose load is given as a CPU time
    Policy,      \* "FIFO" or "RR": the scheduler every operating system uses
    Quantum,     \* RR quantum, in ticks
    Ipt,         \* million instructions a core executes per tick
    NumVCpus,    \* numCPUs of an operating system's scheduler
    NumCPUs,     \* numCPUs of the hypervisor's CPU manager
    Overhead,    \* computing_overhead != 0
    NULL

Msgs  == Blocks \cup StateMsgs
VCpus == 0 .. NumVCpus - 1
Cores == 0 .. NumCPUs - 1

ASSUME ConstantsAssumption ==
    /\ NumVCpus \in Nat \ {0} /\ NumCPUs \in Nat \ {0}
    /\ Quantum \in Nat \ {0} /\ Ipt \in Nat \ {0}
    /\ Blocks \cap StateMsgs = {}
    /\ Owner \in [Msgs -> Guests]
    /\ Work \in [Blocks -> Nat]
    /\ TimeBlocks \subseteq Blocks
    /\ Policy \in {"FIFO", "RR"}
    /\ Overhead \in BOOLEAN /\ (Overhead => Policy = "FIFO")
    /\ NULL \notin Msgs /\ NULL \notin (Blocks \X {"exec", "overhead"})
    /\ NULL \notin (Guests \X Nat)

VARIABLES
    isCPU_Idle,        \* per operating system: the virtual cores flagged idle
    requestsQueue,     \* per operating system: blocks waiting for a virtual core
    nextModuleIndex,   \* per message: the virtual core it was dispatched on
    vmIDs,             \* per physical core: the gate it works for, or NULL when free
    coreQueue,         \* blocks waiting for a physical core
    overheadStructure, \* per physical core: the overhead block or the saved response
    pendingMessage,    \* per physical core: the block it executes
    at,                \* where each message is
    overheadAt,        \* where the VM_OVERHEAD duplicate of each block is
    coreOf,            \* the physical core a block was last sent to
    remaining,         \* what is left of each block (remainingMIs or cpuTime)
    answers,           \* responses of each block handed to its application
    fault              \* the run-time error that ended the simulation, if any

schedVars == <<isCPU_Idle, requestsQueue, nextModuleIndex>>
hypVars   == <<vmIDs, coreQueue, overheadStructure>>
coreVars  == <<pendingMessage, remaining>>
msgVars   == <<at, overheadAt, coreOf, answers>>
vars      == <<schedVars, hypVars, coreVars, msgVars, fault>>

Places == {"app", "queued", "toHyp", "hypQueue", "toCore", "core", "fromCore",
           "saved", "toGuest", "done", "deleted"}
OverheadPlaces == {"none", "saved", "toCore", "core", "fromCore", "toGuest", "deleted"}

\* The run-time errors that end a simulation.
Faults == {"message is NULL", "core currently processing another computing block"}

Exec(b)    == <<b, "exec">>
VMOverhead(b) == <<b, "overhead">>
CoreMsgs   == Blocks \X {"exec", "overhead"}

\* Mutant: the search does not stop at a match and returns the index after the last one.
PastHighest(S) == (CHOOSE x \in S : \A y \in S : x >= y) + 1

Lowest(S) == CHOOSE x \in S : \A y \in S : x <= y

Init ==
    /\ isCPU_Idle = [g \in Guests |-> VCpus]
    /\ requestsQueue = [g \in Guests |-> <<>>]
    /\ nextModuleIndex = [m \in Msgs |-> 0]
    /\ vmIDs = [c \in Cores |-> NULL]
    /\ coreQueue = <<>>
    /\ overheadStructure = [c \in Cores |-> NULL]
    /\ pendingMessage = [c \in Cores |-> NULL]
    /\ at = [m \in Msgs |-> "app"]
    /\ overheadAt = [b \in Blocks |-> "none"]
    /\ coreOf = [b \in Blocks |-> 0]
    /\ remaining = Work
    /\ answers = [b \in Blocks |-> 0]
    /\ fault = NULL
-----------------------------------------------------------------------------
(* The scheduler of an operating system.                                   *)

\* searchIdleCPU and what follows: a message with no idle virtual core is queued,
\* otherwise it takes the lowest one.
Admit(m) ==
    LET g == Owner[m] IN
    \/ /\ isCPU_Idle[g] = {}
       /\ requestsQueue' = [requestsQueue EXCEPT ![g] = Append(@, m)]
       /\ at' = [at EXCEPT ![m] = "queued"]
       /\ UNCHANGED <<isCPU_Idle, nextModuleIndex>>
    \/ /\ isCPU_Idle[g] # {}
       /\ LET v == Lowest(isCPU_Idle[g]) IN
          /\ nextModuleIndex' = [nextModuleIndex EXCEPT ![m] = v]
          /\ isCPU_Idle' = [isCPU_Idle EXCEPT ![g] = @ \ {v}]
       /\ at' = [at EXCEPT ![m] = "toHyp"]
       /\ UNCHANGED requestsQueue

\* processRequestMessage for a computing block, the same in both policies.
SchedRequest(b) ==
    /\ fault = NULL /\ at[b] = "app"
    /\ Admit(b)
    /\ UNCHANGED <<hypVars, coreVars, overheadAt, coreOf, answers, fault>>

\* CPU_Scheduler_FIFO forwards a state message and keeps its own state;
\* the hypervisor's manager copies it to the cores it names and deletes it.
SchedStateFIFO(s) ==
    /\ fault = NULL /\ Policy = "FIFO" /\ at[s] = "app"
    /\ at' = [at EXCEPT ![s] = "deleted"]
    /\ UNCHANGED <<schedVars, hypVars, coreVars, overheadAt, coreOf, answers, fault>>

\* CPU_Scheduler_RR does not look at the operation: a state message is admitted
\* like a computing block.
SchedStateRR(s) ==
    /\ fault = NULL /\ Policy = "RR" /\ at[s] = "app"
    /\ Admit(s)
    /\ UNCHANGED <<hypVars, coreVars, overheadAt, coreOf, answers, fault>>

\* Mutant: the virtual core is flagged idle although a queued block takes it.
RedispatchStillIdle(g, v, q, places) ==
    /\ isCPU_Idle' = [isCPU_Idle EXCEPT ![g] = @ \cup {v}]
    /\ \/ /\ q = <<>>
          /\ at' = places
          /\ UNCHANGED <<requestsQueue, nextModuleIndex>>
       \/ /\ q # <<>>
          /\ requestsQueue' = [requestsQueue EXCEPT ![g] = Tail(q)]
          /\ nextModuleIndex' = [nextModuleIndex EXCEPT ![Head(q)] = v]
          /\ at' = [places EXCEPT ![Head(q)] = "toHyp"]

\* Mutant: the queue is not looked at when a virtual core becomes idle.
RedispatchNoQueue(g, v, q, places) ==
    /\ isCPU_Idle' = [isCPU_Idle EXCEPT ![g] = @ \cup {v}]
    /\ requestsQueue' = [requestsQueue EXCEPT ![g] = q]
    /\ at' = places
    /\ UNCHANGED nextModuleIndex

\* Virtual core v of g has just answered: the head of queue q goes to it, if any.
Redispatch(g, v, q, places) ==
    \/ /\ q = <<>>
       /\ isCPU_Idle' = [isCPU_Idle EXCEPT ![g] = @ \cup {v}]
       /\ at' = places
       /\ UNCHANGED <<requestsQueue, nextModuleIndex>>
    \/ /\ q # <<>>
       /\ isCPU_Idle' = [isCPU_Idle EXCEPT ![g] = @ \ {v}]
       /\ requestsQueue' = [requestsQueue EXCEPT ![g] = Tail(q)]
       /\ nextModuleIndex' = [nextModuleIndex EXCEPT ![Head(q)] = v]
       /\ at' = [places EXCEPT ![Head(q)] = "toHyp"]

\* Mutant: the answer goes up whatever is left of the block.
SchedResponseAnyTime(b) ==
    LET g == Owner[b] IN
    /\ fault = NULL /\ at[b] = "toGuest"
    /\ Redispatch(g, nextModuleIndex[b], requestsQueue[g], [at EXCEPT ![b] = "done"])
    /\ answers' = [answers EXCEPT ![b] = @ + 1]
    /\ UNCHANGED <<hypVars, coreVars, overheadAt, coreOf, fault>>

\* CPU_Scheduler_FIFO::processResponseMessage (and the RR branch for a block
\* that is finished): the answer goes to the application.
SchedResponse(b) ==
    LET g == Owner[b] IN
    /\ fault = NULL /\ at[b] = "toGuest"
    /\ Policy = "RR" => remaining[b] = 0
    /\ Redispatch(g, nextModuleIndex[b], requestsQueue[g], [at EXCEPT ![b] = "done"])
    /\ answers' = [answers EXCEPT ![b] = @ + 1]
    /\ UNCHANGED <<hypVars, coreVars, overheadAt, coreOf, fault>>

\* CPU_Scheduler_RR::processResponseMessage for an unfinished block: it goes to
\* the tail of the queue, and the head of the queue takes the virtual core.
SchedRequeue(b) ==
    LET g == Owner[b] IN
    /\ fault = NULL /\ at[b] = "toGuest" /\ Policy = "RR" /\ remaining[b] > 0
    /\ Redispatch(g, nextModuleIndex[b], Append(requestsQueue[g], b),
                  [at EXCEPT ![b] = "queued"])
    /\ UNCHANGED <<hypVars, coreVars, overheadAt, coreOf, answers, fault>>

\* The scheduler handles a VM_OVERHEAD message that comes up as if it were the
\* response: it carries the same virtual core and goes on to the application.
SchedOverheadResponse(b) ==
    LET g == Owner[b] IN
    /\ fault = NULL /\ overheadAt[b] = "toGuest"
    /\ Redispatch(g, nextModuleIndex[b], requestsQueue[g], at)
    /\ overheadAt' = [overheadAt EXCEPT ![b] = "deleted"]
    /\ answers' = [answers EXCEPT ![b] = @ + 1]
    /\ UNCHANGED <<hypVars, coreVars, coreOf, fault>>
-----------------------------------------------------------------------------
(* The hypervisor's CPU manager.                                           *)

\* The gate a block arrived on, recorded by schedulingCPU for its core.
Gate(m) == <<Owner[m], nextModuleIndex[m]>>

FreeCores(ids) == {c \in Cores : ids[c] = NULL}

\* schedulingCPU and sendRequestToCore on the given manager state.
\* The lowest free core gets b; with overhead its duplicate is kept for later.
ScheduleOn(b, c, ids, oh, places) ==
    /\ vmIDs' = [ids EXCEPT ![c] = Gate(b)]
    /\ overheadStructure' = IF Overhead THEN [oh EXCEPT ![c] = VMOverhead(b)] ELSE oh
    /\ coreOf' = [coreOf EXCEPT ![b] = c]
    /\ at' = [places EXCEPT ![b] = "toCore"]

\* H_CPUManager_Base::processRequestMessage for a computing block.
HypRequest(b) ==
    /\ fault = NULL /\ at[b] = "toHyp"
    /\ \/ /\ FreeCores(vmIDs) # {}
          /\ ScheduleOn(b, Lowest(FreeCores(vmIDs)), vmIDs, overheadStructure, at)
          /\ overheadAt' = IF Overhead THEN [overheadAt EXCEPT ![b] = "saved"] ELSE overheadAt
          /\ UNCHANGED coreQueue
       \/ /\ FreeCores(vmIDs) = {}
          /\ coreQueue' = Append(coreQueue, b)
          /\ at' = [at EXCEPT ![b] = "hypQueue"]
          /\ UNCHANGED <<vmIDs, overheadStructure, coreOf, overheadAt>>
    /\ UNCHANGED <<schedVars, coreVars, answers, fault>>

\* H_CPUManager_Base::processRequestMessage for a state message sent by a
\* scheduler: copies go to the cores, the message is deleted, nobody answers it.
HypState(s) ==
    /\ fault = NULL /\ at[s] = "toHyp"
    /\ at' = [at EXCEPT ![s] = "deleted"]
    /\ UNCHANGED <<schedVars, hypVars, coreVars, overheadAt, coreOf, answers, fault>>

\* Mutant: the queue is not looked at when a core is released.
HardwareResponseNoQueue(c, places) ==
    /\ vmIDs' = [vmIDs EXCEPT ![c] = NULL]
    /\ at' = places
    /\ UNCHANGED <<coreQueue, coreOf, overheadStructure>>

\* processHardwareResponse: core c is free, the head of coreQueue is scheduled.
\* places are the message places it starts from.
HardwareResponse(c, places) ==
    LET ids == [vmIDs EXCEPT ![c] = NULL] IN
    \/ /\ coreQueue = <<>>
       /\ vmIDs' = ids
       /\ at' = places
       /\ UNCHANGED <<coreQueue, coreOf, overheadStructure>>
    \/ /\ coreQueue # <<>>
       /\ coreQueue' = Tail(coreQueue)
       /\ ScheduleOn(Head(coreQueue), Lowest(FreeCores(ids)), ids, overheadStructure, places)

\* processResponseMessage without overhead: the block goes back to its guest.
HypResponse(b) ==
    /\ fault = NULL /\ at[b] = "fromCore" /\ ~Overhead
    /\ HardwareResponse(coreOf[b], [at EXCEPT ![b] = "toGuest"])
    /\ UNCHANGED <<schedVars, coreVars, overheadAt, answers, fault>>

\* processResponseMessage with overhead: the response is saved in the slot of its
\* core and the overhead block that was there is sent to that core.
HypSaveResponse(b) ==
    LET c == coreOf[b] IN
    /\ fault = NULL /\ at[b] = "fromCore" /\ Overhead
    /\ \/ /\ overheadStructure[c] # NULL
          /\ overheadStructure' = [overheadStructure EXCEPT ![c] = Exec(b)]
          /\ at' = [at EXCEPT ![b] = "saved"]
          /\ overheadAt' = [overheadAt EXCEPT ![overheadStructure[c][1]] = "toCore"]
          /\ UNCHANGED fault
       \/ /\ overheadStructure[c] = NULL
          /\ fault' = "message is NULL"
          /\ UNCHANGED <<overheadStructure, at, overheadAt>>
    /\ UNCHANGED <<schedVars, vmIDs, coreQueue, coreVars, coreOf, answers>>

\* processResponseMessage for VM_OVERHEAD: the core is released and the next
\* block scheduled BEFORE the slot of the core is read; whatever the slot then
\* holds is sent up as the response and the slot is cleared.
HypOverheadResponse(b) ==
    LET c     == coreOf[b]
        ids   == [vmIDs EXCEPT ![c] = NULL]
        queued == coreQueue # <<>>
        n     == Head(coreQueue)
        k     == Lowest(FreeCores(ids))
        slots == IF queued THEN [overheadStructure EXCEPT ![k] = VMOverhead(n)]
                           ELSE overheadStructure
        msg   == slots[c]
        started == IF queued THEN [at EXCEPT ![n] = "toCore"] ELSE at
        kept  == IF queued THEN [overheadAt EXCEPT ![b] = "deleted", ![n] = "saved"]
                           ELSE [overheadAt EXCEPT ![b] = "deleted"]
    IN
    /\ fault = NULL /\ overheadAt[b] = "fromCore"
    /\ coreQueue' = IF queued THEN Tail(coreQueue) ELSE coreQueue
    /\ coreOf' = IF queued THEN [coreOf EXCEPT ![n] = k] ELSE coreOf
    /\ vmIDs' = IF queued THEN [ids EXCEPT ![k] = Gate(n)] ELSE ids
    /\ overheadStructure' = [slots EXCEPT ![c] = NULL]
    /\ \/ /\ msg # NULL /\ msg[2] = "exec"
          /\ at' = [started EXCEPT ![msg[1]] = "toGuest"]
          /\ overheadAt' = kept
          /\ UNCHANGED fault
       \/ /\ msg # NULL /\ msg[2] = "overhead"
          /\ at' = started
          /\ overheadAt' = [kept EXCEPT ![msg[1]] = "toGuest"]
          /\ UNCHANGED fault
       \/ /\ msg = NULL
          /\ fault' = "message is NULL"
          /\ at' = started /\ overheadAt' = kept
    /\ UNCHANGED <<schedVars, coreVars, answers>>
-----------------------------------------------------------------------------
(* A physical core.                                                        *)

\* What is left of b after the time its quantum gives it.  FIFO assigns the
\* infinite quantum.  The quotient is an integer division, and a block given as
\* CPU time is only charged when it needs at least a whole quantum.
AfterSlice(b) ==
    LET left == remaining[b] IN
    IF b \in TimeBlocks
    THEN IF Policy = "FIFO" \/ Quantum > left THEN left ELSE left - Quantum
    ELSE IF Policy = "FIFO" \/ Quantum >= left \div Ipt THEN 0 ELSE left - Ipt * Quantum

\* CPUcore::processRequestMessage: a core that is executing a block stops the
\* simulation; otherwise the block is charged and its latency is scheduled.
CoreRequest(b) ==
    LET c == coreOf[b] IN
    /\ fault = NULL /\ at[b] = "toCore"
    /\ \/ /\ pendingMessage[c] # NULL
          /\ fault' = "core currently processing another computing block"
          /\ UNCHANGED <<pendingMessage, remaining, at>>
       \/ /\ pendingMessage[c] = NULL
          /\ pendingMessage' = [pendingMessage EXCEPT ![c] = Exec(b)]
          /\ remaining' = [remaining EXCEPT ![b] = AfterSlice(b)]
          /\ at' = [at EXCEPT ![b] = "core"]
          /\ UNCHANGED fault
    /\ UNCHANGED <<schedVars, hypVars, overheadAt, coreOf, answers>>

\* The same for the VM_OVERHEAD duplicate, which has its own load.
CoreOverheadRequest(b) ==
    LET c == coreOf[b] IN
    /\ fault = NULL /\ overheadAt[b] = "toCore"
    /\ \/ /\ pendingMessage[c] # NULL
          /\ fault' = "core currently processing another computing block"
          /\ UNCHANGED <<pendingMessage, overheadAt>>
       \/ /\ pendingMessage[c] = NULL
          /\ pendingMessage' = [pendingMessage EXCEPT ![c] = VMOverhead(b)]
          /\ overheadAt' = [overheadAt EXCEPT ![b] = "core"]
          /\ UNCHANGED fault
    /\ UNCHANGED <<schedVars, hypVars, at, coreOf, remaining, answers>>

\* CPUcore::processSelfMessage: the latency of the block on core c is over.
CoreLatency(c) ==
    LET m == pendingMessage[c] IN
    /\ fault = NULL /\ m # NULL
    /\ pendingMessage' = [pendingMessage EXCEPT ![c] = NULL]
    /\ \/ /\ m[2] = "exec"
          /\ at' = [at EXCEPT ![m[1]] = "fromCore"]
          /\ UNCHANGED overheadAt
       \/ /\ m[2] = "overhead"
          /\ overheadAt' = [overheadAt EXCEPT ![m[1]] = "fromCore"]
          /\ UNCHANGED at
    /\ UNCHANGED <<schedVars, hypVars, coreOf, remaining, answers, fault>>
-----------------------------------------------------------------------------
\* Every message of the run has been served, or the simulation has stopped.
Finished ==
    /\ \/ fault # NULL
       \/ \A m \in Msgs : at[m] \in {"done", "deleted"}
    /\ UNCHANGED vars

Deliver(b) ==
    \/ SchedRequest(b) \/ HypRequest(b) \/ CoreRequest(b)
    \/ HypResponse(b) \/ SchedResponse(b) \/ SchedRequeue(b)

DeliverOverhead(b) ==
    \/ HypSaveResponse(b) \/ CoreOverheadRequest(b)
    \/ HypOverheadResponse(b) \/ SchedOverheadResponse(b)

DeliverState(s) == SchedStateFIFO(s) \/ SchedStateRR(s) \/ HypState(s)

Next ==
    \/ \E b \in Blocks : Deliver(b) \/ DeliverOverhead(b)
    \/ \E s \in StateMsgs : DeliverState(s)
    \/ \E c \in Cores : CoreLatency(c)
    \/ Finished

Spec == Init /\ [][Next]_vars

\* The event queue delivers every message and every latency that is scheduled.
Fairness ==
    /\ \A b \in Blocks : WF_vars(Deliver(b)) /\ WF_vars(DeliverOverhead(b))
    /\ \A s \in StateMsgs : WF_vars(DeliverState(s))
    /\ \A c \in Cores : WF_vars(CoreLatency(c))

FairSpec == Spec /\ Fairness
-----------------------------------------------------------------------------
SchedTypeOK ==
    /\ isCPU_Idle \in [Guests -> SUBSET VCpus]
    /\ requestsQueue \in [Guests -> Seq(Msgs)]
    /\ nextModuleIndex \in [Msgs -> VCpus]

HypTypeOK ==
    /\ vmIDs \in [Cores -> (Guests \X VCpus) \cup {NULL}]
    /\ coreQueue \in Seq(Blocks)
    /\ overheadStructure \in [Cores -> CoreMsgs \cup {NULL}]

CoreTypeOK ==
    /\ pendingMessage \in [Cores -> CoreMsgs \cup {NULL}]
    /\ remaining \in [Blocks -> Nat]

MsgTypeOK ==
    /\ at \in [Msgs -> Places]
    /\ overheadAt \in [Blocks -> OverheadPlaces]
    /\ coreOf \in [Blocks -> Cores]
    /\ answers \in [Blocks -> Nat]
    /\ fault \in Faults \cup {NULL}

\* Every variable keeps its type: the indexes the schedulers and the hypervisor
\* compute are cores they have, and their queues hold messages of the run.
TypeOK == SchedTypeOK /\ HypTypeOK /\ CoreTypeOK /\ MsgTypeOK

\* The message is between the scheduler that dispatched it and its response
\* there; the state message round robin dispatches is never answered.
Dispatched(m) ==
    \/ at[m] \in {"toHyp", "hypQueue", "toCore", "core", "fromCore", "saved", "toGuest"}
    \/ Policy = "RR" /\ m \in StateMsgs /\ at[m] = "deleted"

\* The block, or its overhead duplicate, occupies the core coreOf says.
OnCore(b) ==
    \/ at[b] \in {"toCore", "core", "fromCore"}
    \/ Overhead /\ at[b] = "saved"

\* Two blocks never share a physical core, and the hypervisor's table names the
\* gate of the block each core works for: the core is released exactly once.
CoreExclusive ==
    /\ \A b1, b2 \in Blocks :
         OnCore(b1) /\ OnCore(b2) /\ coreOf[b1] = coreOf[b2] => b1 = b2
    /\ \A c \in Cores :
         vmIDs[c] # NULL <=> \E b \in Blocks : OnCore(b) /\ coreOf[b] = c /\ vmIDs[c] = Gate(b)

\* The cores are shared without loss: CoreExclusive, and a scheduler's busy flag is set
\* exactly while one of its messages is out on that virtual core, and never for two at
\* once; a state message keeps it for ever.
BusyFlagTruthful ==
    /\ CoreExclusive
    /\ \A g \in Guests, v \in VCpus :
           Cardinality({m \in Msgs : Owner[m] = g /\ Dispatched(m) /\ nextModuleIndex[m] = v})
               = IF v \in isCPU_Idle[g] THEN 0 ELSE 1

\* No block waits, in a scheduler or in the hypervisor, while a core it could
\* run on is free.
WorkConserving ==
    /\ \A g \in Guests : requestsQueue[g] # <<>> => isCPU_Idle[g] = {}
    /\ coreQueue # <<>> => FreeCores(vmIDs) = {}

\* The response saved while the overhead of its block runs is still in the slot
\* of its core.
SavedResponseKept ==
    \A b \in Blocks : at[b] = "saved" => overheadStructure[coreOf[b]] = Exec(b)

\* A block is answered once, and only after all its load has been executed.
AnsweredOnceWhenComplete ==
    \A b \in Blocks :
        /\ answers[b] = IF at[b] = "done" THEN 1 ELSE 0
        /\ at[b] = "done" /\ b \notin TimeBlocks => remaining[b] = 0

\* Every computing block submitted is eventually answered.
EveryBlockAnswered == \A b \in Blocks : <>(answers[b] > 0)
=============================================================================
