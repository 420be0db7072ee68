------------------------------ MODULE NodeEnergy ------------------------------
(***************************************************************************)
(* The energy states of a node that executes the computing blocks of       *)
(* CpuScheduling.  The node (Node, NodeVL) is turned on when a machine is  *)
(* placed on it and off when its last machine leaves; StatesApplication    *)
(* sends each of its states to the parts: the cores through the scheduler  *)
(* and the hypervisor, the memory, the disk and the network directly.  A   *)
(* FIFO scheduler sends states of its own to the cores.  Every part has a  *)
(* meter (EnergyMeterStates) that counts the time it spends in each state. *)
(*                                                                         *)
(* Hops take no time: the clock only advances when no message is on its    *)
(* way.  The schedulers are FIFO, the memorization technique is off.       *)
(***************************************************************************)
EXTENDS CpuScheduling, SequencesExt, FiniteSetsExt, Sums

CONSTANTS
    memory, disk, network,
    Devices,     \* the devices of the node that are looked at
    TopPState,   \* the fastest p-state of a core (12 in the code)
    Durations,   \* seconds a block may take at the speed of its core
    MaxTime,     \* length of a run (bound of the model)
    MaxUses      \* operations of the devices in a run (bound of the model)

Parts        == Cores \cup Devices
EnergyStates == 0 .. TopPState   \* 0 is off; of a device, 1 is idle or on, 2 is in use

ASSUME EnergyAssumption ==
    /\ Policy = "FIFO" /\ Overhead /\ NumVCpus <= NumCPUs
    /\ Devices \subseteq {memory, disk, network} /\ Devices \cap Cores = {}
    /\ IsFiniteSet(StateMsgs)
    /\ TopPState \in Nat /\ TopPState >= 2
    /\ Durations \subseteq Nat \ {0}

VARIABLES
    now,
    nodeState,     \* actualState of StatesApplication
    linked,        \* instancedVMs: the operating systems of the machines on the node
    stateOrder,    \* state messages of the node on their way to its scheduler
    changingState, \* the state each of them carries
    inbox,         \* states on their way to each core
    busyUntil,     \* when the operation of each device ends, 0 if it has none
    uses,          \* operations of the devices so far
    meter,         \* of each part: state, lastEvent and the time credited to each state
    clock,         \* of each core: currentTime, its alarm and whether that continues a block
    coreOff        \* a block met a core that is off, which ends the simulation

nodeVars   == <<nodeState, linked, stateOrder, changingState>>
deviceVars == <<busyUntil, uses>>
energyVars == <<now, nodeVars, deviceVars, inbox, meter, clock, coreOff>>

NodeStates == {"off_state", "idle", "running"}
Stopped    == fault # NULL \/ coreOff
-------------------------------------------------------------------------------
(* EnergyMeterStates and the meters that read it.                          *)

NewMeter == [state |-> 0, lastEvent |-> 0, time |-> [s \in EnergyStates |-> 0]]

\* Mutant: the time stamp of the last change is not moved.
ChangeStateNoStamp(m, s) ==
    IF m.state = s THEN m
    ELSE [m EXCEPT !.state = s, !.time[s] = @ + (now - m.lastEvent)]

\* changeState: the time since the last change is credited to the state that is
\* entered, not to the one that is left.
ChangeState(m, s) ==
    IF m.state = s THEN m
    ELSE [state |-> s, lastEvent |-> now, time |-> [m.time EXCEPT ![s] = @ + (now - m.lastEvent)]]

\* getStateTime of a position: the state of now has its open interval as well.
StateTime(m, s) == m.time[s] + (IF m.state = s THEN now - m.lastEvent ELSE 0)

\* getEnergyConsumed of one component; value is the consumption of each state.
EnergyOf(m, value) ==
    Total([k \in 1 .. TopPState + 1 |-> value[k - 1] * StateTime(m, k - 1)], TopPState + 1)

\* CPUMeterCore::getEnergyConsumed of all the cores: e_getStateTime is called without
\* the component, so every core is read from the meter of core 0.
CpuEnergyConsumed(value) == NumCPUs * EnergyOf(meter[0], value)
-------------------------------------------------------------------------------
(* The states of the node and of its parts.                                *)

\* changeDeviceState of CPUcore, and of SimpleDisk, RAMmemory and NetworkService.
PartState(p, s) ==
    IF s = "off_state" THEN 0
    ELSE IF p \in Cores /\ s = "running" THEN 2 ELSE 1

\* Mutant: a core takes the last state that was sent first.
DeliverLatest(c) ==
    /\ ~Stopped /\ inbox[c] # <<>>
    /\ meter' = [meter EXCEPT ![c] = ChangeState(@, PartState(c, Last(inbox[c])))]
    /\ inbox' = [inbox EXCEPT ![c] = Front(@)]
    /\ UNCHANGED <<vars, now, nodeVars, deviceVars, clock, coreOff>>

\* SM_CHANGE_CPU_STATE reaches a core.
DeliverCoreState(c) ==
    /\ ~Stopped /\ inbox[c] # <<>>
    /\ meter' = [meter EXCEPT ![c] = ChangeState(@, PartState(c, Head(inbox[c])))]
    /\ inbox' = [inbox EXCEPT ![c] = Tail(@)]
    /\ UNCHANGED <<vars, now, nodeVars, deviceVars, clock, coreOff>>

\* The scheduler of the node forwards a state message, and the hypervisor copies it to
\* every core it names; messages that follow one another on this path keep their order.
ForwardState ==
    LET s == Head(stateOrder) IN
    /\ ~Stopped /\ stateOrder # <<>>
    /\ SchedStateFIFO(s)
    /\ stateOrder' = Tail(stateOrder)
    /\ inbox' = [c \in Cores |-> Append(inbox[c], changingState[s])]
    /\ UNCHANGED <<now, nodeState, linked, changingState, deviceVars, meter, clock, coreOff>>

\* The meter of a device after the states the node goes through, two at most.
MeterAfter(p, states) ==
    LET first == IF states = <<>> THEN meter[p] ELSE ChangeState(meter[p], PartState(p, states[1]))
    IN  IF Len(states) = 2 THEN ChangeState(first, PartState(p, states[2])) ELSE first

\* StatesApplication::changeState for the states the node goes through, one after the
\* other: a message to the processors and one to each device, which nothing overtakes
\* on its way: the devices are shown to take them at once.
SendStates(states) ==
    LET unused == StateMsgs \ ToSet(stateOrder)
        sent   == CHOOSE q \in [DOMAIN states -> unused] : IsInjective(q)
    IN
    /\ Len(states) <= Cardinality(unused)
    /\ stateOrder' = stateOrder \o sent
    /\ changingState' = [s \in StateMsgs |->
          IF s \in ToSet(sent) THEN states[CHOOSE i \in DOMAIN sent : sent[i] = s] ELSE changingState[s]]
    /\ at' = [m \in Msgs |-> IF m \in ToSet(sent) THEN "app" ELSE at[m]]
    /\ meter' = [p \in Parts |->
          IF p \in Devices THEN MeterAfter(p, states) ELSE meter[p]]
    /\ nodeState' = IF states = <<>> THEN nodeState ELSE Last(states)

JobsEnded(g) ==
    \A b \in Blocks : Owner[b] = g => at[b] = "done" /\ overheadAt[b] \in {"none", "deleted"}

\* A machine is placed: turnOn of a node that is off, then setVMInstance.
LinkVM(g) ==
    /\ ~Stopped /\ g \notin linked /\ ~JobsEnded(g)
    /\ SendStates(CASE nodeState = "off_state" -> <<"idle", "running">>
                    [] nodeState = "idle" -> <<"running">>
                    [] nodeState = "running" -> <<>>)
    /\ linked' = linked \cup {g}
    /\ UNCHANGED <<schedVars, hypVars, coreVars, overheadAt, coreOf, answers, fault,
                   now, deviceVars, inbox, clock, coreOff>>

\* Mutant: the node is turned off while another machine is on it.
UnlinkVMAlone(g) ==
    /\ ~Stopped /\ g \in linked /\ JobsEnded(g) /\ \A d \in Devices : busyUntil[d] = 0
    /\ SendStates(<<"idle", "off_state">>)
    /\ linked' = linked \ {g}
    /\ UNCHANGED <<schedVars, hypVars, coreVars, overheadAt, coreOf, answers, fault,
                   now, deviceVars, inbox, clock, coreOff>>

\* The machine leaves when its jobs have ended; the last one turns the node off
\* (unlinkVM of NodeVL and of the manager).
UnlinkVM(g) ==
    /\ ~Stopped /\ g \in linked /\ JobsEnded(g) /\ \A d \in Devices : busyUntil[d] = 0
    /\ SendStates(IF linked = {g} THEN <<"idle", "off_state">> ELSE <<>>)
    /\ linked' = linked \ {g}
    /\ UNCHANGED <<schedVars, hypVars, coreVars, overheadAt, coreOf, answers, fault,
                   now, deviceVars, inbox, clock, coreOff>>
-------------------------------------------------------------------------------
(* Computing blocks.                                                       *)

Delivered == stateOrder = <<>> /\ \A c \in Cores : inbox[c] = <<>>

\* A job starts after the states its machine was placed with have reached the parts:
\* they were sent earlier and the block has the longer way.
Request(b) ==
    /\ ~Stopped /\ Owner[b] \in linked /\ Delivered
    /\ SchedRequest(b)
    /\ UNCHANGED energyVars

Hypervise(b) ==
    /\ ~Stopped /\ HypRequest(b)
    /\ UNCHANGED energyVars

SaveResponse(b) ==
    /\ ~Stopped /\ HypSaveResponse(b)
    /\ UNCHANGED energyVars

EndOverhead(b) ==
    /\ ~Stopped /\ HypOverheadResponse(b)
    /\ UNCHANGED energyVars

\* processResponseMessage of the scheduler, when nothing is queued, sends IDLE to the
\* core with the number of the VIRTUAL core that has become idle.
Idle(b) ==
    /\ inbox' = IF requestsQueue[Owner[b]] = <<>>
                THEN [inbox EXCEPT ![nextModuleIndex[b]] = Append(@, "idle")] ELSE inbox
    /\ UNCHANGED <<now, nodeVars, deviceVars, meter, clock, coreOff>>

Respond(b) ==
    /\ ~Stopped /\ SchedResponse(b)
    /\ Idle(b)

RespondToOverhead(b) ==
    /\ ~Stopped /\ SchedOverheadResponse(b)
    /\ Idle(b)

\* Mutant: the fastest p-state is not the limit.
IncrementPast(m) == ChangeState(m, (m.state + 1) % (TopPState + 1))

\* changeDeviceState(INCREMENT_SPEED)
IncrementSpeed(m) == IF m.state < TopPState THEN ChangeState(m, m.state + 1) ELSE m

\* The part of CPUcore::processRequestMessage that takes time: with more than a second
\* left the core speeds up, and what is left less one second is both the delay and
\* what it goes on with afterwards.
Execute(c, time) ==
    IF time <= 1
    THEN /\ clock' = [clock EXCEPT ![c] = [left |-> time, alarm |-> now + time, continue |-> FALSE]]
         /\ UNCHANGED meter
    ELSE /\ clock' = [clock EXCEPT ![c] =
                        [left |-> time - 1, alarm |-> now + time - 1, continue |-> TRUE]]
         /\ meter' = [meter EXCEPT ![c] = IncrementSpeed(@)]

\* A core that is off ends the simulation; one that executes another block does so as
\* well (the fault of CoreRequest).
MeetsCoreOff == coreOff' = TRUE /\ UNCHANGED <<vars, meter, clock>>

Starts(c) ==
    /\ IF pendingMessage[c] = NULL THEN \E time \in Durations : Execute(c, time)
                                   ELSE UNCHANGED <<meter, clock>>
    /\ UNCHANGED coreOff

Arrive(b) ==
    /\ ~Stopped /\ at[b] = "toCore"
    /\ IF meter[coreOf[b]].state = 0 THEN MeetsCoreOff
                                     ELSE CoreRequest(b) /\ Starts(coreOf[b])
    /\ UNCHANGED <<now, nodeVars, deviceVars, inbox>>

ArriveOverhead(b) ==
    /\ ~Stopped /\ overheadAt[b] = "toCore"
    /\ IF meter[coreOf[b]].state = 0 THEN MeetsCoreOff
                                     ELSE CoreOverheadRequest(b) /\ Starts(coreOf[b])
    /\ UNCHANGED <<now, nodeVars, deviceVars, inbox>>

\* The self message "continueExecuting".
Continue(c) ==
    /\ ~Stopped /\ pendingMessage[c] # NULL /\ clock[c].continue /\ clock[c].alarm = now
    /\ IF meter[c].state = 0 THEN MeetsCoreOff
                             ELSE Execute(c, clock[c].left) /\ UNCHANGED <<vars, coreOff>>
    /\ UNCHANGED <<now, nodeVars, deviceVars, inbox>>

\* The latency message.
Complete(c) ==
    /\ ~Stopped /\ ~clock[c].continue /\ clock[c].alarm = now
    /\ CoreLatency(c)
    /\ clock' = [clock EXCEPT ![c].left = 0]
    /\ UNCHANGED <<now, nodeVars, deviceVars, inbox, meter, coreOff>>
-------------------------------------------------------------------------------
(* The devices.                                                            *)

\* A request makes the disk active (the memory: searching or writing) for a second.
UseDevice(d) ==
    /\ ~Stopped /\ d # network /\ uses < MaxUses /\ busyUntil[d] = 0
    /\ Delivered /\ \E g \in linked : ~JobsEnded(g)
    /\ meter' = [meter EXCEPT ![d] = ChangeState(@, 2)]
    /\ busyUntil' = [busyUntil EXCEPT ![d] = now + 1]
    /\ uses' = uses + 1
    /\ UNCHANGED <<vars, now, nodeVars, inbox, clock, coreOff>>

DeviceLatency(d) ==
    /\ ~Stopped /\ busyUntil[d] = now /\ now > 0
    /\ meter' = [meter EXCEPT ![d] = ChangeState(@, 1)]
    /\ busyUntil' = [busyUntil EXCEPT ![d] = 0]
    /\ UNCHANGED <<vars, now, nodeVars, inbox, uses, clock, coreOff>>

\* NetworkService::processResponseMessage: the network is metered off after every
\* response, and on again only with the next state of the node.
NetworkResponse ==
    /\ ~Stopped /\ network \in Devices /\ uses < MaxUses
    /\ Delivered /\ \E g \in linked : ~JobsEnded(g)
    /\ meter' = [meter EXCEPT ![network] = ChangeState(@, 0)]
    /\ uses' = uses + 1
    /\ UNCHANGED <<vars, now, nodeVars, inbox, busyUntil, clock, coreOff>>
-------------------------------------------------------------------------------
\* Messages on their way, and alarms that ring now.
Instant ==
    \/ ~Delivered
    \/ \E b \in Blocks : \/ at[b] \in {"toHyp", "toCore", "fromCore", "toGuest"}
                         \/ overheadAt[b] \in {"toCore", "fromCore", "toGuest"}
    \/ \E c \in Cores : pendingMessage[c] # NULL /\ clock[c].alarm = now
    \/ \E d \in Devices : busyUntil[d] = now /\ now > 0

Tick ==
    /\ ~Stopped /\ ~Instant /\ now < MaxTime
    /\ now' = now + 1
    /\ UNCHANGED <<vars, nodeVars, deviceVars, inbox, meter, clock, coreOff>>

\* The simulation stops with an error, or the bound of the run is reached.
EndOfRun ==
    /\ Stopped \/ (now = MaxTime /\ ~Instant)
    /\ UNCHANGED <<vars, energyVars>>

\* Every node starts with initialState "off_state"; the states sent by initState have
\* changed nothing.  No message of the node is on its way.
EnergyInit ==
    /\ Init
    /\ now = 0 /\ nodeState = "off_state" /\ linked = {}
    /\ stateOrder = <<>> /\ changingState = [s \in StateMsgs |-> "off_state"]
    /\ inbox = [c \in Cores |-> <<>>]
    /\ busyUntil = [d \in Devices |-> 0] /\ uses = 0
    /\ meter = [p \in Parts |-> NewMeter]
    /\ clock = [c \in Cores |-> [left |-> 0, alarm |-> 0, continue |-> FALSE]]
    /\ coreOff = FALSE

EnergyNext ==
    \/ \E g \in Guests : LinkVM(g) \/ UnlinkVM(g)
    \/ ForwardState \/ \E c \in Cores : DeliverCoreState(c)
    \/ \E b \in Blocks :
          \/ Request(b) \/ Hypervise(b) \/ Arrive(b) \/ Respond(b)
          \/ SaveResponse(b) \/ ArriveOverhead(b) \/ EndOverhead(b) \/ RespondToOverhead(b)
    \/ \E c \in Cores : Continue(c) \/ Complete(c)
    \/ \E d \in Devices : UseDevice(d) \/ DeviceLatency(d)
    \/ NetworkResponse
    \/ Tick
    \/ EndOfRun

EnergySpec == EnergyInit /\ [][EnergyNext]_<<vars, energyVars>>
-------------------------------------------------------------------------------
\* No second is lost and none is counted twice: whatever states a part goes through,
\* with a consumption of one in every state its energy is the time that has passed,
\* also as the meter of the processor reads it (EnergyMeterStates, CPUMeterCore).
MeterExact ==
    LET one == [s \in EnergyStates |-> 1] IN
    /\ \A p \in Parts : EnergyOf(meter[p], one) = now
    /\ CpuEnergyConsumed(one) = NumCPUs * now

\* A node is never turned off under a block: none meets, or continues on, a core that
\* is off.  And once every state message has arrived, the cores, the memory and the disk
\* are off exactly when the node is: the states sent by the node, by the schedulers of
\* its machines and at the end of an operation never overtake one another for the worse
\* (unlinkVM, StatesApplication, CPUcore::processRequestMessage).
PartsFollowNode ==
    /\ ~coreOff
    /\ \A c \in Cores : pendingMessage[c] # NULL => meter[c].state > 0
    /\ Delivered /\ ~Stopped =>
        /\ \A p \in Parts \ {network} : meter[p].state = 0 <=> nodeState = "off_state"
        /\ network \in Devices /\ nodeState = "off_state" => meter[network].state = 0
===============================================================================
