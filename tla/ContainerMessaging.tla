------------------------- MODULE ContainerMessaging -------------------------
(***************************************************************************)
(* The containers of one virtual machine and their requests:               *)
(*   container -> DockerEngine -> VmMsgController -> VMSyscallManager      *)
(*             -> CPU scheduler or file system, and the same way back.     *)
(*                                                                         *)
(* A process is linked through ten gate vectors of three modules.  A       *)
(* request carries the positions of the gates it must come back through    *)
(* (the message trace), and a position is reused by another container when *)
(* its process ends.  The containers are Container_CPU_Intensive, which    *)
(* has one request under way, and Container_ServerApplication, which has   *)
(* one per hit of its clients.                                             *)
(***************************************************************************)
EXTENDS Integers, Sequences, FiniteSets, SequencesExt, GateManagers

CONSTANTS
    Intensive,     \* containers of class Container_CPU_Intensive
    Servers,       \* containers of class Container_ServerApplication
    Iterations,    \* parameter iterations of each of the first class
    UptimeHits,    \* interval events of a server at or before its uptimeLimit
    MaxProcesses   \* containers a user places on the machine at a time

Containers == Intensive \cup Servers

ASSUME ContainersAssumption ==
    /\ Intensive \cap Servers = {}
    /\ Iterations \in [Intensive -> Nat] /\ UptimeHits \in Nat /\ MaxProcesses \in Nat \ {0}
    /\ Free \notin Containers \cup Nat

\* The gate vectors of DockerEngine (eng), VmMsgController (vm) and
\* VMSyscallManager (sys).
Managers == {"engToContainers", "engFromContainers", "engToVm", "engFromVm",
             "vmToEngine", "vmFromEngine", "vmToOS", "vmFromOS", "sysTo", "sysFrom"}

\* The hit after the limit is still served; a hit is one chain of requests.
MaxHits == UptimeHits + 1
Chains == 1 .. MaxHits
Kinds == {"io", "cpu"}

VARIABLES
    mgr,               \* the gate manager of each vector
    toOS,              \* per container: the engine's gate its toOS is connected to
    processesRunning,  \* the process table of VMSyscallManager
    phase,             \* per container: new, linked, running or ended
    currentIteration,  \* per container of Intensive
    hits,              \* per server: interval events so far
    pendingHits,       \* per server: hits not served yet
    executeCPU,        \* the servers whose executeCPU flag is set
    msgs,              \* requests and responses under way
    enginePending,     \* pendingCPUMsg and pendingIOMsg of DockerEngine
    vmPending,         \* those of VmMsgController
    fault              \* the run-time error that ended the simulation

linkVars == <<mgr, toOS, processesRunning>>
appVars  == <<phase, currentIteration, hits, pendingHits, executeCPU>>
vars == <<linkVars, appVars, msgs, enginePending, vmPending, fault>>

Faults == {"none", "gate not connected", "gate is not hit"}

\* Mutant: one more interval event is scheduled.
UptimeOverLate(c) == hits[c] > UptimeHits + 1

\* processSelfMessage sets uptimeLimit to -1 at the first event after the limit.
UptimeOver(c) == hits[c] > UptimeHits

\* A message: the container and chain it belongs to, the operation, the module
\* it arrives at and the gate it arrives on, and the positions of the gates to
\* go back through, one per module it has passed.
Message == [job : Containers, chain : Chains, op : {"read", "write", "cpu"},
            resp : BOOLEAN, at : {"engine", "vm", "sys", "device", "app"},
            gate : Nat \cup Containers \cup {Free}, trace : Seq(Nat)]

Kind(m) == IF m.op = "cpu" THEN "cpu" ELSE "io"
-----------------------------------------------------------------------------
Init ==
    /\ mgr = [v \in Managers |-> NoGates]
    /\ toOS = [c \in Containers |-> Free]
    /\ processesRunning = <<>>
    /\ phase = [c \in Containers |-> "new"]
    /\ currentIteration = [c \in Intensive |-> 1]
    /\ hits = [c \in Servers |-> 0]
    /\ pendingHits = [c \in Servers |-> 0]
    /\ executeCPU = {}
    /\ msgs = {}
    /\ enginePending = [k \in Kinds |-> 0]
    /\ vmPending = [k \in Kinds |-> 0]
    /\ fault = "none"
-----------------------------------------------------------------------------
(* Processes *)

\* What each new gate of container c is connected with: an output gate with the
\* position of the input gate behind it, an input gate with nothing (0).
Peer(v, c) ==
    CASE v = "engToContainers" -> c
      [] v = "engToVm"         -> NewGate(mgr["vmFromEngine"])
      [] v = "vmToEngine"      -> NewGate(mgr["engFromVm"])
      [] v = "vmToOS"          -> NewGate(mgr["sysFrom"])
      [] v = "sysTo"           -> NewGate(mgr["vmFromOS"])
      [] OTHER                 -> 0

\* VMSyscallManager::createProcess with linkNewDocker and linkNewContainer.
CreateProcess(c) ==
    /\ fault = "none" /\ phase[c] = "new"
    /\ Len(processesRunning) < MaxProcesses
    /\ mgr' = [v \in Managers |-> LinkGate(mgr[v], Peer(v, c))]
    /\ toOS' = [toOS EXCEPT ![c] = NewGate(mgr["engFromContainers"])]
    /\ processesRunning' = Append(processesRunning,
           [process |-> c, toGateIdx |-> NewGate(mgr["sysTo"])])
    /\ phase' = [phase EXCEPT ![c] = "linked"]
    /\ UNCHANGED <<currentIteration, hits, pendingHits, executeCPU, msgs,
                   enginePending, vmPending, fault>>

\* Mutant: the position of another container.
PositionOfFirst(c) == Head(processesRunning).toGateIdx

\* searchGate: the position, in toContainers, of the gate before the container.
Position(c) == CHOOSE i \in DOMAIN mgr["engToContainers"].gates :
                   mgr["engToContainers"].gates[i] = c

\* Mutant: removeProcess frees one vector of its own instead of two.
UnlinkedButSysFrom(p) ==
    [v \in Managers |-> IF v = "sysFrom" THEN mgr[v] ELSE FreeGate(mgr[v], p)]

\* VMSyscallManager::removeProcess with unlinkDocker and unlinkContainer: all ten
\* gates are freed at the position found in the first vector.
Unlinked(p) == [v \in Managers |-> FreeGate(mgr[v], p)]

\* deleteJobFromStructures: the first entry of the container in the process table.
Entry(c) == CHOOSE i \in DOMAIN processesRunning : processesRunning[i].process = c

RemoveProcess(c) ==
    /\ mgr' = Unlinked(Position(c))
    /\ toOS' = [toOS EXCEPT ![c] = Free]
    /\ processesRunning' = RemoveAt(processesRunning, Entry(c))

\* freeGate throws when the gate at the position is free already.
RemovalFault(c) ==
    IF \A v \in Managers : GateHit(mgr[v], Position(c)) THEN fault ELSE "gate is not hit"
-----------------------------------------------------------------------------
(* Containers *)

\* A request an application sends on its gate toOS.
Request(c, h, op) ==
    [job |-> c, chain |-> h, op |-> op, resp |-> FALSE, at |-> "engine",
     gate |-> toOS[c], trace |-> <<>>]

\* SM_WAIT_TO_EXECUTE: the computing container writes, the server waits for its
\* first interval event.
Start(c) ==
    /\ fault = "none" /\ phase[c] = "linked"
    /\ phase' = [phase EXCEPT ![c] = "running"]
    /\ msgs' = IF c \in Intensive THEN msgs \cup {Request(c, 1, "write")} ELSE msgs
    /\ UNCHANGED <<linkVars, currentIteration, hits, pendingHits, executeCPU,
                   enginePending, vmPending, fault>>

\* intervalEvent of a server: newHit reads the page of one more client.
Hit(c) ==
    /\ fault = "none" /\ phase[c] = "running" /\ ~UptimeOver(c)
    /\ hits' = [hits EXCEPT ![c] = @ + 1]
    /\ pendingHits' = [pendingHits EXCEPT ![c] = @ + 1]
    /\ msgs' = msgs \cup {Request(c, hits[c] + 1, "read")}
    /\ UNCHANGED <<linkVars, phase, currentIteration, executeCPU,
                   enginePending, vmPending, fault>>

\* The operation that follows an answered one: write, read, compute.
NextOp(op) == CASE op = "write" -> "read" [] op = "read" -> "cpu" [] op = "cpu" -> "write"

LastWrite(c, m) == m.op = "write" /\ currentIteration[c] >= Iterations[c]

\* Mutant: a write is not counted.
IterationUncounted(c, m) == currentIteration[c]

Iteration(c, m) == IF m.op = "write" THEN currentIteration[c] + 1 ELSE currentIteration[c]

\* processResponseMessage of Container_CPU_Intensive, printResults included: the
\* user is told and removes the process in the same call.
IntensiveResponse(m) ==
    LET c == m.gate IN
    /\ fault = "none" /\ m.at = "app" /\ c \in Intensive
    /\ currentIteration' = [currentIteration EXCEPT ![c] = Iteration(c, m)]
    /\ \/ /\ ~LastWrite(c, m)
          /\ msgs' = (msgs \ {m}) \cup {Request(c, m.chain, NextOp(m.op))}
          /\ UNCHANGED <<linkVars, phase, fault>>
       \/ /\ LastWrite(c, m)
          /\ phase' = [phase EXCEPT ![c] = "ended"]
          /\ RemoveProcess(c)
          /\ fault' = RemovalFault(c)
          /\ msgs' = msgs \ {m}
    /\ UNCHANGED <<hits, pendingHits, executeCPU, enginePending, vmPending>>

\* pendingHits is only compared with 0 once no hit can come any more: below
\* -MaxHits its value makes no difference.
Served(n) == IF n > -MaxHits THEN n - 1 ELSE n

\* processResponseMessage of Container_ServerApplication.  executeCPU is never
\* reset, so that every response is followed by a computing request.
ServerResponse(m) ==
    LET c == m.gate
        served == IF m.op = "cpu" THEN Served(pendingHits[c]) ELSE pendingHits[c]
        last == m.op = "cpu" /\ served = 0 /\ UptimeOver(c)
    IN
    /\ fault = "none" /\ m.at = "app" /\ c \in Servers
    /\ pendingHits' = [pendingHits EXCEPT ![c] = served]
    /\ executeCPU' = executeCPU \cup {c}
    /\ \/ /\ ~last
          /\ msgs' = (msgs \ {m}) \cup {Request(c, m.chain, "cpu")}
          /\ UNCHANGED <<linkVars, phase, fault>>
       \/ /\ last
          /\ phase' = [phase EXCEPT ![c] = "ended"]
          /\ RemoveProcess(c)
          /\ msgs' = msgs \ {m}
          /\ fault' = "gate not connected"   \* the request that follows the end
    /\ UNCHANGED <<currentIteration, hits, enginePending, vmPending>>
-----------------------------------------------------------------------------
(* The way to the devices and back *)

\* Mutant: getOutGate always finds the first gate of the vector.
ForwardFirst(m, out, next) ==
    [m EXCEPT !.at = next, !.gate = mgr[out].gates[m.gate], !.trace = Append(@, 1)]

\* A module adds the way back to the trace and sends the request on through the
\* gate at the same position of the vector out.
Forward(m, out, next) ==
    [m EXCEPT !.at = next, !.gate = mgr[out].gates[m.gate], !.trace = Append(@, m.gate)]

\* sendResponseMessage: the last gate of the trace, in the vector back.
Return(m, back, next) ==
    [m EXCEPT !.at = next, !.gate = mgr[back].gates[Last(m.trace)], !.trace = Front(@)]

\* send through a gate that is not connected ends the simulation.
Send(m, sent) ==
    /\ msgs' = (msgs \ {m}) \cup {sent}
    /\ fault' = IF sent.gate = Free THEN "gate not connected" ELSE fault

Counted(pending, m, quantity) == [pending EXCEPT ![Kind(m)] = @ + quantity]

At(m, place, resp) == fault = "none" /\ m.at = place /\ m.resp = resp

EngineRequest(m) ==
    /\ At(m, "engine", FALSE)
    /\ Send(m, Forward(m, "engToVm", "vm"))
    /\ enginePending' = Counted(enginePending, m, 1)
    /\ UNCHANGED <<linkVars, appVars, vmPending>>

VmRequest(m) ==
    /\ At(m, "vm", FALSE)
    /\ Send(m, Forward(m, "vmToOS", "sys"))
    /\ vmPending' = Counted(vmPending, m, 1)
    /\ UNCHANGED <<linkVars, appVars, enginePending>>

\* The system calls have one gate to each device.
SysRequest(m) ==
    /\ At(m, "sys", FALSE)
    /\ msgs' = (msgs \ {m}) \cup
               {[m EXCEPT !.at = "device", !.gate = 0, !.trace = Append(@, m.gate)]}
    /\ UNCHANGED <<linkVars, appVars, enginePending, vmPending, fault>>

\* The CPU scheduler or the file system has answered: processResponseMessage.
SysResponse(m) ==
    /\ At(m, "device", FALSE)
    /\ Send(m, [Return(m, "sysTo", "vm") EXCEPT !.resp = TRUE])
    /\ UNCHANGED <<linkVars, appVars, enginePending, vmPending>>

VmResponse(m) ==
    /\ At(m, "vm", TRUE)
    /\ Send(m, Return(m, "vmToEngine", "engine"))
    /\ vmPending' = Counted(vmPending, m, -1)
    /\ UNCHANGED <<linkVars, appVars, enginePending>>

\* Mutant: the engine does not count the response.
EngineResponseUncounted(m) ==
    /\ At(m, "engine", TRUE)
    /\ Send(m, Return(m, "engToContainers", "app"))
    /\ UNCHANGED <<linkVars, appVars, enginePending, vmPending>>

EngineResponse(m) ==
    /\ At(m, "engine", TRUE)
    /\ Send(m, Return(m, "engToContainers", "app"))
    /\ enginePending' = Counted(enginePending, m, -1)
    /\ UNCHANGED <<linkVars, appVars, vmPending>>
-----------------------------------------------------------------------------
\* The simulation has stopped, or every container has ended.
Stopped ==
    /\ fault # "none" \/ \A c \in Containers : phase[c] = "ended"
    /\ UNCHANGED vars

Deliver(m) ==
    \/ EngineRequest(m) \/ VmRequest(m) \/ SysRequest(m) \/ SysResponse(m)
    \/ VmResponse(m) \/ EngineResponse(m)
    \/ IntensiveResponse(m) \/ ServerResponse(m)

Next ==
    \/ \E c \in Containers : CreateProcess(c) \/ Start(c)
    \/ \E c \in Servers : Hit(c)
    \/ \E m \in msgs : Deliver(m)
    \/ Stopped

Spec == Init /\ [][Next]_vars

\* The event queue delivers the message of every chain and every timer.
DeliverChain(c, h) == \E m \in msgs : m.job = c /\ m.chain = h /\ Deliver(m)

Fairness ==
    /\ \A c \in Containers : WF_vars(Start(c))
    /\ \A c \in Servers : WF_vars(Hit(c))
    /\ \A c \in Intensive : WF_vars(DeliverChain(c, 1))
    /\ \A c \in Servers, h \in Chains : WF_vars(DeliverChain(c, h))

FairSpec == Spec /\ Fairness
-----------------------------------------------------------------------------
ManagerTypeOK(g) ==
    /\ g.gates \in Seq(Nat \cup Containers \cup {Free})
    /\ g.holes \in Seq(DOMAIN g.gates)

TypeOK ==
    /\ \A v \in Managers : ManagerTypeOK(mgr[v])
    /\ toOS \in [Containers -> Nat \cup {Free}]
    /\ processesRunning \in Seq([process : Containers, toGateIdx : Nat])
    /\ phase \in [Containers -> {"new", "linked", "running", "ended"}]
    /\ currentIteration \in [Intensive -> Nat]
    /\ hits \in [Servers -> 0 .. MaxHits]
    /\ pendingHits \in [Servers -> Int]
    /\ executeCPU \subseteq Servers
    /\ msgs \subseteq Message
    /\ enginePending \in [Kinds -> Int] /\ vmPending \in [Kinds -> Int]
    /\ fault \in Faults

Linked(c) == phase[c] \in {"linked", "running"}

\* unlinkDocker and removeProcess free, in nine vectors, the position they found
\* in a tenth: the vectors must agree on who is where, the process table
\* included, and every free position must be a hole exactly once.
GatesAgree ==
    /\ \A c \in Containers : Linked(c) <=>
         \E p \in ToSet(processesRunning) :
             /\ p.process = c /\ toOS[c] = p.toGateIdx
             /\ mgr["engToContainers"].gates[p.toGateIdx] = c
             /\ \A v \in Managers : mgr[v].gates[p.toGateIdx] \in {p.toGateIdx, 0, c}
    /\ \A v \in Managers :
         /\ mgr[v].holes = mgr["sysTo"].holes
         /\ IsInjective(mgr[v].holes)
         /\ ToSet(mgr[v].holes) =
                {i \in DOMAIN mgr["sysTo"].gates : mgr[v].gates[i] = Free}

\* Positions are reused, but a response is handed to the container that sent the
\* request, which has not ended; and nothing meets a gate that has been freed: the only
\* run-time error is the request a server sends after its end.
ResponseReachesSender ==
    IF fault = "none"
    THEN \A m \in msgs : m.at = "app" => m.gate = m.job /\ phase[m.job] = "running"
    ELSE /\ \A m \in msgs : m.gate # Free
         /\ \E c \in Servers : phase[c] = "ended"

\* The counters migrationPrepared reads are the requests that have passed the
\* module and are still to come back.
Beyond(modules, k) == {m \in msgs : Kind(m) = k /\ m.at \in modules}

CountersExact ==
    \A k \in Kinds :
        /\ vmPending[k] = Cardinality(Beyond({"sys", "device"}, k)
                              \cup {m \in Beyond({"vm"}, k) : m.resp})
        /\ enginePending[k] = Cardinality(Beyond({"vm", "sys", "device"}, k)
                              \cup {m \in Beyond({"engine"}, k) : m.resp})

\* Every computing container that is linked ends, whatever the servers beside it
\* do short of stopping the simulation.
IntensiveEnds ==
    \A c \in Intensive : phase[c] = "linked" ~> (phase[c] = "ended" \/ fault # "none")
=============================================================================
