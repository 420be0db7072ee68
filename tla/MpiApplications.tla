---------------------------- MODULE MpiApplications ----------------------------
(***************************************************************************)
(* The MPI library of the applications (MPI_Base) and two programs over    *)
(* it: ApplicationHPC, whose masters deliver slices of data to their       *)
(* workers and collect the results for a number of iterations, and a       *)
(* script of collective calls, which every process makes in the same order *)
(* (the library's barrier, bcast, scatter and gather have no other caller  *)
(* in the repository).                                                     *)
(*                                                                         *)
(* A handler runs until the process must wait: every call of               *)
(* continueExecution() and calculateNextState() in the code is the last    *)
(* one of its function, so a handler is a sequence of steps on the record  *)
(* of the process, taken by Run while its field again is set.              *)
(*                                                                         *)
(* Sizes and offsets of files are left out.  The field id of a listening   *)
(* connection, which the code never sets, is taken to equal no rank.       *)
(***************************************************************************)
EXTENDS Naturals, Integers, Sequences, FiniteSets, FiniteSetsExt, SequencesExt

CONSTANTS
    Programs,        \* what is run: a subset of {"HPC", "collectives"}
    NumProcesses,
    SetSizes,        \* values of workersSet to consider for ApplicationHPC
    NumIterations,
    SliceToWorkers, SliceToMaster,  \* sliceToWorkers_KB, sliceToMaster_KB
    Script           \* collective calls, records [call, root]

Ranks            == 0 .. NumProcesses - 1
MPI_MASTER_RANK  == 0
AnySender        == -1
MetadataSize     == 0       \* METADATA_MSG_SIZE, which differs from the sizes of slices

ASSUME MpiAssumption ==
    /\ NumProcesses \in Nat \ {0} /\ NumIterations \in Nat \ {0}
    /\ \A k \in SetSizes : k \in 2 .. NumProcesses /\ NumProcesses % k = 0
    /\ SliceToWorkers \in Nat \ {0} /\ SliceToMaster \in Nat \ {0}
    /\ \A i \in DOMAIN Script :
          /\ Script[i].call \in {"MPI_BARRIER", "MPI_BCAST", "MPI_SCATTER", "MPI_GATHER"}
          /\ Script[i].root \in Ranks

VARIABLES
    config,     \* parameters of the application
    proc,       \* record of each process, see InitialProcess
    channel,    \* messages on their way, per sender and receiver
    fault       \* the error that ended the simulation, or "none"

vars == <<config, proc, channel, fault>>
-------------------------------------------------------------------------------
(* The sets of processes.                                                  *)

IsMaster(r) ==
    IF config.workersSet = 0 THEN r = MPI_MASTER_RANK ELSE r % config.workersSet = 0

GetMyMaster(r) ==
    IF config.workersSet = 0 THEN MPI_MASTER_RANK
    ELSE (r \div config.workersSet) * config.workersSet

IsThisWorkerInMyRange(m, r) ==
    config.workersSet = 0 \/ (IsMaster(m) /\ r > m /\ r < m + config.workersSet)

\* parseMachinesFile: the peers that r connects to; without sets of workers only when
\* the parameter allToAllConnections is set.
Peers(r) ==
    {q \in Ranks \ {r} :
        IF config.workersSet = 0 THEN config.allToAll
        ELSE q = GetMyMaster(r) \/ IsThisWorkerInMyRange(r, q)}
-------------------------------------------------------------------------------
(* MPI_Call, and the library's state in a process.                         *)

\* MPI_Call::clear
NoCall == [call |-> "MPI_NO_VALUE", sender |-> -2, size |-> -1, pending |-> -1]

InitialProcess ==
    [state     |-> "INIT",
     iteration |-> 1,
     responses |-> 0,          \* totalResponses
     created   |-> FALSE,      \* createdResultsFile
     call      |-> NoCall,     \* currentMPICall
     incoming  |-> <<>>,       \* mpiCallList
     barriers  |-> [r \in Ranks |-> "UP"],
     listening |-> FALSE,
     links     |-> [r \in {} |-> ""], \* connections: "asked", "refused" or "established"
     timers    |-> {},         \* self messages on their way
     awaiting  |-> "none",     \* request made to the operating system
     sends     |-> <<>>,       \* messages sent by the handler that runs
     again     |-> FALSE,      \* the handler calls continueExecution
     fault     |-> "none",
     pc        |-> 1,          \* next call of the script
     done      |-> FALSE]

Fail(p, error) == [p EXCEPT !.fault = IF @ = "none" THEN error ELSE @, !.again = FALSE]

\* icancloud_request_sendDataToNetwork, and the network service of the node, which ends
\* the simulation when the connection is not established.
SendDataToNetwork(p, to, message) ==
    IF to \notin DOMAIN p.links THEN Fail(p, "unknown connection")
    ELSE IF p.links[to] # "established" THEN Fail(p, "not connected")
    ELSE [p EXCEPT !.sends = Append(@, [to |-> to, message |-> message])]

Message(op, r, size) == [call |-> op, sender |-> r, size |-> size]

Continue(p) == [p EXCEPT !.again = TRUE]

ClearCall(p) == [p EXCEPT !.call = NoCall]

MpiSend(p, r, to, size) ==
    ClearCall(SendDataToNetwork(p, to, Message("MPI_SEND", r, size)))

\* What synchronize() looks for, by the kind of the current call.
Awaited(call) == IF call = "MPI_RECV" THEN "MPI_SEND" ELSE call

Matches(incoming, call) ==
    /\ incoming.call = Awaited(call.call)
    /\ incoming.size = call.size
    /\ call.sender = AnySender \/ incoming.sender = call.sender

\* searchMPICall: positions of the calls that match; the first one is taken.
SearchMPICall(p) == {i \in DOMAIN p.incoming : Matches(p.incoming[i], p.call)}

\* synchronize(false)
Synchronize(p) ==
    IF p.call.call \in {"MPI_RECV", "MPI_BCAST", "MPI_SCATTER"} /\ SearchMPICall(p) # {}
    THEN Continue(ClearCall([p EXCEPT !.incoming = RemoveAt(@, Min(SearchMPICall(p)))]))
    ELSE p

MpiRecv(p, sender, size) ==
    Synchronize([p EXCEPT !.call =
        [call |-> "MPI_RECV", sender |-> sender, size |-> size, pending |-> -1]])

SetCall(p, call, sender, pending) ==
    [p EXCEPT !.call = [call |-> call, sender |-> sender, size |-> SliceToWorkers, pending |-> pending]]

\* The same message to every other process, in the order of their ranks.
SendToOthers(p, r, op) ==
    FoldLeft(LAMBDA q, to : IF to = r THEN q ELSE SendDataToNetwork(q, to, Message(op, r, SliceToWorkers)),
             p, SetToSortSeq(Ranks, <))

\* mpi_bcast and mpi_scatter differ in the length of some messages.
MpiBcast(p, r, root) ==
    LET called == SetCall(p, "MPI_BCAST", root, -1) IN
    IF r = root THEN Continue(ClearCall(SendToOthers(called, r, "MPI_BCAST")))
    ELSE Synchronize(called)

MpiScatter(p, r, root) ==
    LET called == SetCall(p, "MPI_SCATTER", root, -1) IN
    IF r = root THEN Continue(ClearCall(SendToOthers(called, r, "MPI_SCATTER")))
    ELSE Synchronize(called)

MpiGather(p, r, root) ==
    LET called == SetCall(p, "MPI_GATHER", r, NumProcesses - 1) IN
    IF r = root THEN called
    ELSE Continue(ClearCall(SendDataToNetwork(called, root, Message("MPI_GATHER", r, SliceToWorkers))))

\* mpi_gather_arrives: whose data arrives is not looked at.
MpiGatherArrives(p) ==
    IF p.call.call # "MPI_GATHER" THEN Fail(p, "expected gather")
    ELSE LET counted == [p EXCEPT !.call.pending = @ - 1] IN
         IF counted.call.pending = 0 THEN Continue(ClearCall(counted)) ELSE counted

InitBarriers(p) == [p EXCEPT !.barriers = [r \in Ranks |-> "UP"]]

\* Mutant: the master forgets to look at its last process.
CheckBarriersButLast(p) ==
    IF \E r \in Ranks \ {NumProcesses - 1} : p.barriers[r] = "UP" THEN p
    ELSE Continue(ClearCall(SendToOthers(InitBarriers(p), MPI_MASTER_RANK, "MPI_BARRIER_UP")))

\* checkBarriers
CheckBarriers(p) ==
    IF \E r \in Ranks : p.barriers[r] = "UP" THEN p
    ELSE Continue(ClearCall(SendToOthers(InitBarriers(p), MPI_MASTER_RANK, "MPI_BARRIER_UP")))

MpiBarrierDown(p, sender) == CheckBarriers([p EXCEPT !.barriers[sender] = "DOWN"])

MpiBarrier(p, r) ==
    LET called == SetCall(p, "MPI_BARRIER", r, -1) IN
    IF r = MPI_MASTER_RANK THEN MpiBarrierDown(called, r)
    ELSE SendDataToNetwork(called, MPI_MASTER_RANK, Message("MPI_BARRIER_DOWN", r, 0))

MpiBarrierUp(p) == Continue(ClearCall(p))

\* Mutant: an incoming call is only put in the list.
InsertMPICallOnly(p, message) ==
    CASE message.call \in {"MPI_SEND", "MPI_SCATTER", "MPI_BCAST"} -> [p EXCEPT !.incoming = Append(@, message)]
      [] message.call = "MPI_BARRIER_DOWN" -> MpiBarrierDown(p, message.sender)
      [] message.call = "MPI_BARRIER_UP"   -> MpiBarrierUp(p)
      [] message.call = "MPI_GATHER"       -> MpiGatherArrives(p)

\* processMPICallRequest
ProcessMPICallRequest(p, message) ==
    CASE message.call \in {"MPI_SEND", "MPI_SCATTER", "MPI_BCAST"} ->
            Synchronize([p EXCEPT !.incoming = Append(@, message)])
      [] message.call = "MPI_BARRIER_DOWN" -> MpiBarrierDown(p, message.sender)
      [] message.call = "MPI_BARRIER_UP"   -> MpiBarrierUp(p)
      [] message.call = "MPI_GATHER"       -> MpiGatherArrives(p)
-------------------------------------------------------------------------------
(* ApplicationHPC.                                                         *)

\* Calls of the operating system; ProcessResponseMessage takes the answers.
RequestRead(p)        == [p EXCEPT !.awaiting = "read"]
RequestWrite(p)       == [p EXCEPT !.awaiting = "write"]
RequestCreate(p)      == [p EXCEPT !.awaiting = "create"]
RequestCpu(p)         == [p EXCEPT !.awaiting = "cpu"]
RequestAllocMemory(p) == [p EXCEPT !.awaiting = "memory"]

NextIteration(p) ==
    LET next == [p EXCEPT !.state = "INIT", !.iteration = @ + 1] IN
    IF next.iteration > NumIterations THEN [next EXCEPT !.timers = @ \cup {"FINISH"}]
    ELSE Continue(next)

ReadInputData(p) ==
    IF config.workersRead THEN Continue([p EXCEPT !.responses = 0]) ELSE RequestRead(p)

ReadInputDataWorkers(p) ==
    IF config.workersRead THEN RequestRead([p EXCEPT !.responses = 1])
    ELSE Continue([p EXCEPT !.responses = 0])

WrittingData(p) ==
    IF config.workersWrite THEN Continue([p EXCEPT !.responses = 0]) ELSE RequestWrite(p)

WrittingDataWorkers(p) ==
    IF config.workersWrite THEN RequestWrite([p EXCEPT !.responses = 1])
    ELSE Continue([p EXCEPT !.responses = 0])

\* What masters send to workers and workers to masters.
DeliveredSize == IF config.workersRead THEN MetadataSize ELSE SliceToWorkers
ResultSize    == IF config.workersWrite THEN MetadataSize ELSE SliceToMaster

DeliverData(p, r) ==
    Continue(FoldLeft(LAMBDA q, to : MpiSend(q, r, to, DeliveredSize), p,
                      [i \in 1 .. config.workersSet - 1 |-> r + i]))

ReceivingResults(p) == MpiRecv(p, AnySender, ResultSize)

ReceiveInputData(p, r) == MpiRecv(p, GetMyMaster(r), DeliveredSize)

SendResults(p, r) == Continue(MpiSend(p, r, GetMyMaster(r), ResultSize))

CreateResultsFile(p) == RequestCreate([p EXCEPT !.created = TRUE, !.responses = 1])

\* Mutant: the master does not count one of its workers.
ExpectedResultsButOne == config.workersSet - 2

\* Responses that a master waits for after it delivered the data.
ExpectedResults == config.workersSet - 1

\* calculateNextState of a master.
MasterNext(p, r) ==
    CASE p.state = "INIT" ->
            IF ~p.created /\ ~config.workersWrite THEN CreateResultsFile(p)
            ELSE ReadInputData([p EXCEPT !.state = "READING", !.responses = config.workersSet])
      [] p.state = "READING" ->
            IF p.responses > 0 THEN ReadInputData(p)
            ELSE DeliverData([p EXCEPT !.state = "DELIVERING"], r)
      [] p.state = "DELIVERING" ->
            ReceivingResults([p EXCEPT !.state = "WAITING_RESULTS", !.responses = ExpectedResults])
      [] p.state = "WAITING_RESULTS" ->
            IF p.responses = 1
            THEN WrittingData([p EXCEPT !.state = "WRITTING", !.responses = config.workersSet])
            ELSE ReceivingResults([p EXCEPT !.responses = @ - 1])
      [] p.state = "WRITTING" ->
            IF p.responses > 0 THEN WrittingData(p) ELSE NextIteration(p)

\* calculateNextState of a worker.
WorkerNext(p, r) ==
    CASE p.state = "INIT" ->
            IF ~p.created /\ config.workersWrite THEN CreateResultsFile(p)
            ELSE ReceiveInputData([p EXCEPT !.state = "RECEIVING"], r)
      [] p.state = "RECEIVING"    -> ReadInputDataWorkers([p EXCEPT !.state = "READING"])
      [] p.state = "READING"      -> RequestAllocMemory([p EXCEPT !.state = "ALLOCATING"])
      [] p.state = "ALLOCATING"   -> RequestCpu([p EXCEPT !.state = "PROCESSING"])
      [] p.state = "PROCESSING"   -> WrittingDataWorkers([p EXCEPT !.state = "WRITTING"])
      [] p.state = "WRITTING"     -> SendResults([p EXCEPT !.state = "SENDING_BACK"], r)
      [] p.state = "SENDING_BACK" -> NextIteration(p)

\* The program of a process that makes the calls of the script.
ScriptNext(p, r) ==
    IF p.pc > Len(Script) THEN [p EXCEPT !.timers = @ \cup {"FINISH"}]
    ELSE LET next == [p EXCEPT !.pc = @ + 1]
             root == Script[p.pc].root
         IN  CASE Script[p.pc].call = "MPI_BARRIER" -> MpiBarrier(next, r)
               [] Script[p.pc].call = "MPI_BCAST"   -> MpiBcast(next, r, root)
               [] Script[p.pc].call = "MPI_SCATTER" -> MpiScatter(next, r, root)
               [] Script[p.pc].call = "MPI_GATHER"  -> MpiGather(next, r, root)

CalculateNextState(p, r) ==
    CASE config.program = "collectives" -> ScriptNext(p, r)
      [] config.program = "HPC" /\ IsMaster(r)  -> MasterNext(p, r)
      [] config.program = "HPC" /\ ~IsMaster(r) -> WorkerNext(p, r)

\* processIOCallResponse
ProcessIOCallResponse(p, correct) ==
    LET counted == [p EXCEPT !.awaiting = "none", !.responses = @ - 1] IN
    IF \/ p.awaiting = "read" /\ p.state # "READING"
       \/ p.awaiting = "write" /\ p.state # "WRITTING"
       THEN Fail(p, "state error")
    ELSE IF ~correct THEN Fail(p, "io error")
    ELSE IF counted.responses < 0 THEN Fail(p, "synchronization error")
    ELSE Continue(counted)
-------------------------------------------------------------------------------
(* Handlers.                                                               *)

RECURSIVE Run(_, _)
Run(p, r) == IF p.again THEN Run(CalculateNextState([p EXCEPT !.again = FALSE], r), r) ELSE p

\* Process r has handled an event and its record is p: its calls continue until it waits,
\* and what it sent joins the messages on their way.
HandledOn(r, p, messages) ==
    LET end == Run(p, r)
        sentTo(to) == SelectSeq(end.sends, LAMBDA s : s.to = to)
    IN  /\ proc' = [proc EXCEPT ![r] = [end EXCEPT !.sends = <<>>]]
        /\ channel' = [messages EXCEPT ![r] = [to \in Ranks |->
               @[to] \o [i \in DOMAIN sentTo(to) |-> sentTo(to)[i].message]]]
        /\ fault' = end.fault
        /\ UNCHANGED config

Handled(r, p) == HandledOn(r, p, channel)

Init ==
    /\ config \in [program : Programs, workersSet : SetSizes \cup {0}, allToAll : BOOLEAN,
                   workersRead : BOOLEAN, workersWrite : BOOLEAN]
    /\ IF config.program = "HPC" THEN config.workersSet # 0 /\ ~config.allToAll
       ELSE config.workersSet = 0 /\ config.allToAll /\ ~config.workersRead /\ ~config.workersWrite
    /\ proc = [r \in Ranks |-> [InitialProcess EXCEPT !.timers = {"SUPER"}]]
    /\ channel = [s \in Ranks |-> [r \in Ranks |-> <<>>]]
    /\ fault = "none"

\* SM_SUPER: parseMachinesFile; the timers to connect and to execute are set.
ProcessSuper(r) ==
    LET p == proc[r] IN
    /\ "SUPER" \in p.timers
    /\ Handled(r, [p EXCEPT !.timers = {"WAIT_TO_CONNECT", "WAIT_TO_EXECUTE"}, !.listening = TRUE])

\* establishAllConnections: nobody tells the application of a refused connection.
EstablishAllConnections(r) ==
    LET p == proc[r] IN
    /\ "WAIT_TO_CONNECT" \in p.timers
    /\ Handled(r, [p EXCEPT !.timers = @ \ {"WAIT_TO_CONNECT"},
                            !.links = [q \in Peers(r) |->
                                IF proc[q].listening THEN "asked" ELSE "refused"]])

\* setEstablishedConnection
SetEstablishedConnection(r) ==
    \E q \in DOMAIN proc[r].links :
        /\ proc[r].links[q] = "asked"
        /\ Handled(r, [proc[r] EXCEPT !.links[q] = "established"])

\* SM_WAIT_TO_EXECUTE; startDelay_s exceeds connectionDelay_s.
Execute(r) ==
    LET p == proc[r] IN
    /\ p.timers = {"WAIT_TO_EXECUTE"}
    /\ Handled(r, Continue([p EXCEPT !.timers = {}]))

\* A message arrives.
ProcessRequestMessage(r) ==
    \E s \in Ranks :
        /\ channel[s][r] # <<>>
        /\ HandledOn(r, ProcessMPICallRequest(proc[r], Head(channel[s][r])),
                     [channel EXCEPT ![s][r] = Tail(@)])

\* The operating system answers.
ProcessResponseMessage(r) ==
    LET p == proc[r] IN
    \/ /\ p.awaiting \in {"read", "write", "create"}
       /\ \E correct \in BOOLEAN : Handled(r, ProcessIOCallResponse(p, correct))
    \/ /\ p.awaiting \in {"cpu", "memory"}
       /\ Handled(r, Continue([p EXCEPT !.awaiting = "none"]))

\* SM_FINISH_JOB: the user is told.
ShowResults(r) ==
    LET p == proc[r] IN
    /\ "FINISH" \in p.timers
    /\ Handled(r, [p EXCEPT !.timers = {}, !.done = TRUE])

Next ==
    /\ fault = "none"
    /\ \E r \in Ranks :
          \/ ProcessSuper(r) \/ EstablishAllConnections(r) \/ SetEstablishedConnection(r)
          \/ Execute(r) \/ ProcessRequestMessage(r) \/ ProcessResponseMessage(r) \/ ShowResults(r)

\* The simulator handles events as long as there are any.
Spec == Init /\ [][Next]_vars /\ WF_vars(Next)
-------------------------------------------------------------------------------
Working == {"READING", "ALLOCATING", "PROCESSING", "WRITTING", "SENDING_BACK"}

\* Masters and workers of ApplicationHPC agree on the iteration: a worker computes only while
\* its master waits for the results of the same iteration, and a master writes only when
\* every worker of its set has sent its own result, whatever the order of the messages.
IterationsInStep ==
    config.program = "HPC" =>
        \A w \in {r \in Ranks : ~IsMaster(r)} :
            LET worker == proc[w]
                master == proc[GetMyMaster(w)]
            IN  /\ worker.state \in Working =>
                       master.state = "WAITING_RESULTS" /\ master.iteration = worker.iteration
                /\ master.state = "WRITTING" => worker.iteration = master.iteration + 1

\* Process r has returned from the k-th call of the script.
Returned(r, k) == proc[r].pc > k + 1 \/ (proc[r].pc = k + 1 /\ proc[r].call = NoCall)

\* A collective call returns only when the others have done their part: from a barrier when
\* every process has entered it, from a bcast or a scatter when the root has sent, and at
\* the root of a gather when every process has made the call.
CollectiveOrder ==
    config.program = "collectives" =>
        \A r \in Ranks, k \in DOMAIN Script :
            Returned(r, k) =>
                CASE Script[k].call = "MPI_BARRIER" -> \A q \in Ranks : proc[q].pc > k
                  [] Script[k].call \in {"MPI_BCAST", "MPI_SCATTER"} -> Returned(Script[k].root, k)
                  [] Script[k].call = "MPI_GATHER" -> r = Script[k].root => \A q \in Ranks : proc[q].pc > k

Finished == \A r \in Ranks : proc[r].done

\* Every job ends, with every message consumed, unless an access to a file fails or a
\* message is sent on a connection that is not established: nobody waits for ever, and the
\* library never meets a call it does not expect.
JobsFinish ==
    <>(\/ Finished /\ \A r, s \in Ranks : channel[s][r] = <<>> /\ proc[r].incoming = <<>>
       \/ fault \in {"io error", "not connected"})
================================================================================
