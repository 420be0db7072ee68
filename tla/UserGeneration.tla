----------------------------- MODULE UserGeneration -----------------------------
(***************************************************************************)
(* The clock of a simulation: cells of user generators create users hour   *)
(* by hour, the users send their requests to the data-centre manager, the  *)
(* alarm of the manager attends them, and the manager ends the simulation  *)
(* when no more users come and the last has left.                          *)
(*                                                                         *)
(* Each event of the future-event set carries the time left until it       *)
(* happens; events due at the same time happen in the order in which they  *)
(* were scheduled.  What a user does between two events (storage set up, a *)
(* job that ends, a machine that is gone) takes any time.  A user rents    *)
(* one machine, there is room for it, and its jobs are container jobs; the *)
(* answers to storage and shutdown requests are the subject of             *)
(* CloudLifecycle.  A file or route is the sequence of its folders.        *)
(***************************************************************************)
EXTENDS Integers, Sequences, FiniteSets, SequencesExt, FiniteSetsExt, JobQueues

CONSTANTS
    Configurations,  \* data centres to consider, each a sequence of cells
    Hour,            \* ticks in 3600 s
    AlarmPeriod,     \* timeBetweenScheduleEvents_s, in ticks
    FinalizeDelay,   \* the 10 s before the end, in ticks
    StartDelays,     \* values of timeToStart, in ticks
    NumComputeNodes, NumStorageNodes

ASSUME GenerationAssumption ==
    /\ \A configuration \in Configurations : \A c \in DOMAIN configuration :
          LET cell == configuration[c] IN
          /\ cell.preloaded \in Nat /\ cell.total \in Nat /\ cell.preloaded + cell.total > 0
          /\ cell.intervals \in Nat /\ cell.repetitions \in Nat
          /\ cell.distribution \in {"no_distribution", "uniform"}
    /\ Hour \in Nat \ {0} /\ AlarmPeriod \in Nat \ {0} /\ FinalizeDelay \in Nat
    /\ StartDelays \subseteq Nat
    /\ NumComputeNodes \in Nat /\ NumStorageNodes \in 0 .. NumComputeNodes

VARIABLES
    cells,        \* the user generators: hour, repetitions, users_grouped_by_dist, ...
    events,       \* future-event set of the simulator
    users,        \* every user created, with its job queues
    requestsQueue,
    noMoreUsers,
    userGenerator, \* the generator to delete (0: none was ever set)
    nodesOn,      \* [compute, storage]: sets of nodes turned on
    ended,        \* endSimulation
    fault         \* a run-time error stopped the simulation

vars == <<cells, events, users, requestsQueue, noMoreUsers, userGenerator, nodesOn, ended, fault>>
-------------------------------------------------------------------------------
(* The future-event set (external: OMNeT++).                               *)

Event(in, name, c) == [in |-> in, name |-> name, cell |-> c]

ScheduleAt(evs, event) ==
    LET later == {i \in DOMAIN evs : evs[i].in > event.in} IN
    IF later = {} THEN Append(evs, event) ELSE InsertAt(evs, Min(later), event)

CancelEvent(evs, name, c) == SelectSeq(evs, LAMBDA e : e.name # name \/ e.cell # c)

Scheduled(name, c) == \E e \in ToSet(events) : e.name = name /\ e.cell = c

\* The others come nearer by the time until the next event.
Elapse == [i \in DOMAIN Tail(events) |-> [events[i + 1] EXCEPT !.in = @ - Head(events).in]]

Now(name) == ~ended /\ ~fault /\ events # <<>> /\ Head(events).name = name
-------------------------------------------------------------------------------
(* Generators.                                                             *)

Config(c)    == cells[c].config
JobKinds(c)  == FlattenSeq([k \in DOMAIN Config(c).jobs |->
                              [copy \in 1 .. Config(c).jobs[k].copies |-> k]])
Distributed(c) == Config(c).distribution # "no_distribution"

\* createUser: a user whose waiting queue holds every copy of every job.
NewUser(c) ==
    [cell |-> c, status |-> IF noMoreUsers THEN "refused" ELSE "admitted",
     waiting |-> [i \in DOMAIN JobKinds(c) |-> i],
     waitingStorage |-> <<>>, running |-> <<>>, finished |-> <<>>,
     requested |-> [i \in DOMAIN JobKinds(c) |-> <<>>]]

Request(op, u) == [op |-> op, user |-> u]

\* n users arrive; those admitted request their machine (newUser, startUser).
CreateUsers(c, n) ==
    /\ users' = users \o [i \in 1 .. n |-> NewUser(c)]
    /\ requestsQueue' = requestsQueue \o
           (IF noMoreUsers THEN <<>>
            ELSE [i \in 1 .. n |-> Request("start", Len(users) + i)])

\* userCreateGroups: the experiments share out at most nusers users, those outside
\* the range and the fractions are lost.
Groups(intervals, nusers) ==
    {p \in [1 .. intervals -> 0 .. nusers] : FoldFunction(+, 0, p) <= nusers}

\* finalizeUserGenerator: the generator is deleted by an event of its own.
FinalizeUserGenerator(c, evs) ==
    /\ noMoreUsers' = TRUE
    /\ userGenerator' = c
    /\ events' = ScheduleAt(evs, Event(0, "deleteUserGen", c))

\* SM_WAIT_TO_EXECUTE: the preloaded users, and all of them without a distribution.
WaitToExecute ==
    LET c    == Head(events).cell
        conf == Config(c)
    IN
    /\ Now("waitToExecute")
    /\ CreateUsers(c, conf.preloaded + IF Distributed(c) THEN 0 ELSE conf.total)
    /\ \E p \in Groups(conf.intervals, conf.total) :
          /\ Distributed(c) \/ p = [i \in 1 .. conf.intervals |-> 0]
          /\ cells' = [cells EXCEPT ![c].groups = p]
    /\ \/ /\ conf.intervals # 0
          /\ events' = ScheduleAt(Elapse, Event(0, "hourEvent", c))
          /\ UNCHANGED <<noMoreUsers, userGenerator>>
       \/ /\ conf.intervals = 0
          /\ FinalizeUserGenerator(c, Elapse)
    /\ UNCHANGED <<nodesOn, ended, fault>>

\* intervalEvent: one user; the next comes after the first of the subintervals.
IntervalEvent ==
    LET c    == Head(events).cell
        subs == cells[c].subintervals
    IN
    /\ Now("intervalEvent")
    /\ CreateUsers(c, 1)
    /\ \/ /\ subs = <<>>
          /\ events' = Elapse
          /\ UNCHANGED cells
       \/ /\ subs # <<>>
          /\ cells' = [cells EXCEPT ![c].subintervals = Tail(subs)]
          /\ events' = ScheduleAt(Elapse, Event(Head(subs), "intervalEvent", c))
    /\ UNCHANGED <<noMoreUsers, userGenerator, nodesOn, ended, fault>>

\* Mutant: the users are spread over the hour with the last one at its end.
GapToTheEnd(j) == Hour \div (j - 1)

\* Time between two of the j users of an hour.
Gap(j) == Hour \div j

\* Mutant: the repetitions are not counted.
NextRoundForEver(cell) == [cell EXCEPT !.hour = 0]

\* All hours are over and the users are to be created again.
NextRound(cell) == [cell EXCEPT !.hour = 0, !.repetitions = @ - 1]

\* hourEvent when hours remain, or the hours start again.  Without a distribution the
\* next event comes after all the hours and hour does not advance.
HourEvent ==
    LET c    == Head(events).cell
        conf == Config(c)
        over == cells[c].hour = conf.intervals
        cell == IF over THEN NextRound(cells[c]) ELSE cells[c]
        j    == IF Distributed(c) THEN cell.groups[cell.hour + 1] ELSE 0
        hour == ScheduleAt(Elapse, Event(Hour, "hourEvent", c))
    IN
    /\ Now("hourEvent") /\ ~(over /\ cells[c].repetitions = 0)
    /\ CreateUsers(c, IF over /\ ~Distributed(c) THEN conf.total ELSE 0)
    /\ \/ /\ Distributed(c)
          /\ cells' = [cells EXCEPT ![c] =
                          [cell EXCEPT !.hour = @ + 1,
                                       !.subintervals = [i \in 1 .. j - 1 |-> Gap(j)]]]
          /\ events' = IF j = 0 THEN hour ELSE ScheduleAt(hour, Event(0, "intervalEvent", c))
          \* an event that is scheduled already cannot be scheduled again
          /\ fault' = (j # 0 /\ Scheduled("intervalEvent", c))
       \/ /\ ~Distributed(c)
          /\ cells' = [cells EXCEPT ![c] = cell]
          /\ events' = ScheduleAt(Elapse, Event(Hour * conf.intervals, "hourEvent", c))
          /\ UNCHANGED fault
    /\ UNCHANGED <<noMoreUsers, userGenerator, nodesOn, ended>>

\* hourEvent after the last hour of the last repetition.
LastHourEvent ==
    LET c == Head(events).cell IN
    /\ Now("hourEvent")
    /\ cells[c].hour = Config(c).intervals /\ cells[c].repetitions = 0
    /\ FinalizeUserGenerator(c, CancelEvent(Elapse, "intervalEvent", c))
    /\ UNCHANGED <<cells, users, requestsQueue, nodesOn, ended, fault>>

\* The manager deletes the generator that finished last, with its events.
DeleteUserGenerator ==
    /\ Now("deleteUserGen")
    /\ cells' = [cells EXCEPT ![userGenerator].deleted = TRUE]
    /\ fault' = cells[userGenerator].deleted
    /\ events' = CancelEvent(CancelEvent(Elapse, "hourEvent", userGenerator),
                             "intervalEvent", userGenerator)
    /\ UNCHANGED <<users, requestsQueue, noMoreUsers, userGenerator, nodesOn, ended>>
-------------------------------------------------------------------------------
(* Storage of a job (userStorage).                                         *)

JobConfig(u, job) == Config(users[u].cell).jobs[JobKinds(users[u].cell)[job]]

\* getLocalFSPaths and getRemoteFSPaths.
LocalPaths(fs)  == SelectSeq(fs, LAMBDA entry : entry.type = "LOCAL")
RemotePaths(fs) == SelectSeq(fs, LAMBDA entry : entry.type # "LOCAL")

\* Mutant: the lengths of route and file are not compared.
MatchesFolder(route, file) ==
    IF route = <<>> THEN Len(file) = 1 ELSE Head(route) = Head(file)

\* Does a file lie under a route?  Only the first folders are compared, and a file in a
\* first-level folder belongs to a route of one folder.
Matches(route, file) ==
    IF route = <<>> THEN Len(file) = 1
    ELSE Head(route) = Head(file) /\ (Len(file) = 2 <=> Len(route) = 1)

\* filterPreloadFilesByFS: the files are used up by the first route.
FilterPreloadFiles(paths, files) ==
    SelectSeq(files, LAMBDA file : Matches(paths[1].route, file))

StorageRequest(op, u, job, paths, files) ==
    [op |-> op, user |-> u, job |-> job, files |-> FilterPreloadFiles(paths, files)]

\* generateContainerStorageRequests: the local request ends up before the remote one.
StorageRequests(u, job) ==
    LET conf   == JobConfig(u, job)
        local  == LocalPaths(conf.fs)
        remote == RemotePaths(conf.fs)
    IN
    (IF local = <<>> THEN <<>> ELSE <<StorageRequest("local", u, job, local, conf.files)>>) \o
    (IF remote = <<>> THEN <<>> ELSE <<StorageRequest("remote", u, job, remote, conf.files)>>)

\* A job without file system, or with a remote one where servers are "LOCAL", is an error.
Unconfigured(u, job) ==
    LET fs == JobConfig(u, job).fs IN
    fs = <<>> \/ (RemotePaths(fs) # <<>> /\ Config(users[u].cell).remoteServers = "LOCAL")

\* A job is scheduled when it waits and the machine is free.
Schedulable(us) == us.waiting # <<>> /\ us.waitingStorage = <<>> /\ us.running = <<>>

\* schedule and createFSforContainerJob: the first waiting job gets the machine, its
\* storage requests are sent and it waits for the answers.
AssignJob(u) ==
    LET us  == users[u]
        job == GetJob(us.waiting, 0)
        m   == MoveJob(us.waiting, job, us.waitingStorage)
    IN
    IF ~Schedulable(us) THEN us
    ELSE [us EXCEPT !.waiting = m.src, !.waitingStorage = m.dst,
                    !.requested[job] = [i \in DOMAIN StorageRequests(u, job) |->
                                           StorageRequests(u, job)[i].files]]

SentBy(u) ==
    IF Schedulable(users[u]) THEN StorageRequests(u, GetJob(users[u].waiting, 0)) ELSE <<>>

FaultOf(u) == Schedulable(users[u]) /\ Unconfigured(u, GetJob(users[u].waiting, 0))

\* The answers to all storage requests of the job have come: it starts
\* (start_up_container_job_execution).
JobStarts(u) ==
    LET us == users[u] IN
    /\ ~ended /\ ~fault /\ us.waitingStorage # <<>>
    /\ ~ \E r \in ToSet(requestsQueue) : r.user = u
    /\ LET m == MoveJob(us.waitingStorage, GetJob(us.waitingStorage, 0), us.running) IN
       users' = [users EXCEPT ![u].waitingStorage = m.src, ![u].running = m.dst]
    /\ UNCHANGED <<cells, events, requestsQueue, noMoreUsers, userGenerator, nodesOn, ended, fault>>

\* notify_UserContainerJobHasFinished: the machine is given back unless a job waits;
\* then the user wakes itself up.
JobFinishes(u) ==
    LET us == users[u] IN
    /\ ~ended /\ ~fault /\ us.running # <<>>
    /\ LET m == MoveJob(us.running, GetJob(us.running, 0), us.finished) IN
       users' = [users EXCEPT ![u].running = m.src, ![u].finished = m.dst]
    /\ \/ /\ us.waiting # <<>>
          /\ events' = ScheduleAt(events, Event(0, "selfMessage", u))
          /\ UNCHANGED requestsQueue
       \/ /\ us.waiting = <<>>
          /\ requestsQueue' = Append(requestsQueue, Request("free", u))
          /\ UNCHANGED events
    /\ UNCHANGED <<cells, noMoreUsers, userGenerator, nodesOn, ended, fault>>

\* The wake-up call: the next job is scheduled.
SelfMessage ==
    LET u == Head(events).cell IN
    /\ Now("selfMessage")
    /\ users' = [users EXCEPT ![u] = AssignJob(u)]
    /\ requestsQueue' = requestsQueue \o SentBy(u)
    /\ fault' = FaultOf(u)
    /\ events' = Elapse
    /\ UNCHANGED <<cells, noMoreUsers, userGenerator, nodesOn, ended>>

\* The machine of the user is gone; nothing is left to do and the user abandons the
\* system (finalizeUser).
UserAbandons(u) ==
    /\ ~ended /\ ~fault /\ users[u].status = "closing"
    /\ users' = [users EXCEPT ![u].status = "leaving"]
    /\ requestsQueue' = Append(requestsQueue, Request("abandon", u))
    /\ UNCHANGED <<cells, events, noMoreUsers, userGenerator, nodesOn, ended, fault>>
-------------------------------------------------------------------------------
(* The data-centre manager.                                                *)

\* After a storage request the walk of CloudSchedulerFCFS::schedule skips the next one,
\* which stays in the queue.
Skipped[i \in Nat] ==
    /\ i > 1
    /\ requestsQueue[i - 1].op \in {"local", "remote"}
    /\ ~Skipped[i - 1]

Attended(op) == {requestsQueue[i].user : i \in {k \in DOMAIN requestsQueue :
                                                   requestsQueue[k].op = op /\ ~Skipped[k]}}

\* What the walk does to the users: those with a machine schedule their first job.
UsersAfterWalk ==
    [u \in DOMAIN users |->
        IF u \in Attended("start") THEN AssignJob(u)
        ELSE IF u \in Attended("free") THEN [users[u] EXCEPT !.status = "closing"]
        ELSE IF u \in Attended("abandon") THEN [users[u] EXCEPT !.status = "deleted"]
        ELSE users[u]]

\* The requests skipped, then those sent during the walk (the temporal queue).
QueueAfterWalk ==
    FlattenSeq([i \in DOMAIN requestsQueue |->
                   IF Skipped[i] THEN <<requestsQueue[i]>> ELSE <<>>]) \o
    FlattenSeq([i \in DOMAIN requestsQueue |->
                   IF requestsQueue[i].op = "start" /\ ~Skipped[i]
                   THEN SentBy(requestsQueue[i].user) ELSE <<>>])

Walk ==
    /\ users' = UsersAfterWalk
    /\ requestsQueue' = QueueAfterWalk
    /\ fault' = \E u \in Attended("start") : FaultOf(u)

UserList(us) == {u \in DOMAIN us : us[u].status \notin {"refused", "deleted"}}

\* Mutant: the users that are still there do not count.
CheckFinalizationAlone(us) == noMoreUsers

CheckFinalization(us) == noMoreUsers /\ UserList(us) = {}

\* initManager: the maps of nodes are built and the nodes turned on.
InitManager == nodesOn' = [compute |-> 1 .. NumComputeNodes, storage |-> 1 .. NumStorageNodes]

\* initScheduler: the first walk and the first alarm.
InitScheduler ==
    /\ Walk
    /\ events' = ScheduleAt(Elapse, Event(AlarmPeriod, "alarm", 0))

\* SM_CALL_INITIALIZE.
InitializeManager ==
    /\ Now("initialize") /\ InitManager /\ InitScheduler
    /\ UNCHANGED <<cells, noMoreUsers, userGenerator, ended>>

\* finalizeDCManager: the compute nodes are turned off.  Its loop over the storage nodes
\* takes them from the map of the compute nodes, so the storage nodes stay on.
FinalizeDCManager ==
    /\ nodesOn' = [nodesOn EXCEPT !.compute = {}]
    /\ events' = ScheduleAt(Elapse, Event(FinalizeDelay, "finalize", 0))

\* SM_APP_ALARM: a walk, and the next alarm unless everything is over.
Alarm ==
    LET over == CheckFinalization(UsersAfterWalk) IN
    /\ Now("alarm") /\ Walk
    /\ \/ over /\ FinalizeDCManager
       \/ /\ ~over
          /\ events' = ScheduleAt(Elapse, Event(AlarmPeriod, "alarm", 0))
          /\ UNCHANGED nodesOn
    /\ UNCHANGED <<cells, noMoreUsers, userGenerator, ended>>

\* The maps of nodes are deleted and the simulation stops.
Finalize ==
    /\ Now("finalize")
    /\ ended' = TRUE
    /\ events' = Elapse
    /\ UNCHANGED <<cells, users, requestsQueue, noMoreUsers, userGenerator, nodesOn, fault>>
-------------------------------------------------------------------------------
Cell(conf) == [config |-> conf, hour |-> 0, repetitions |-> conf.repetitions,
               groups |-> <<>>, subintervals |-> <<>>, deleted |-> FALSE]

\* The modules schedule their first events in any order.
Init ==
    /\ \E configuration \in Configurations, delay \in StartDelays :
          /\ cells = [c \in DOMAIN configuration |-> Cell(configuration[c])]
          /\ LET waits == [c \in DOMAIN configuration |-> Event(0, "waitToExecute", c)]
                 start == Event(delay, "initialize", 0)
             IN  events \in {Append(waits, start),
                             IF delay = 0 THEN <<start>> \o waits ELSE Append(waits, start)}
    /\ users = <<>> /\ requestsQueue = <<>>
    /\ noMoreUsers = FALSE /\ userGenerator = 0
    /\ nodesOn = [compute |-> {}, storage |-> {}]
    /\ ended = FALSE /\ fault = FALSE

NextEvent ==
    \/ WaitToExecute \/ IntervalEvent \/ HourEvent \/ LastHourEvent \/ DeleteUserGenerator
    \/ InitializeManager \/ Alarm \/ SelfMessage \/ Finalize

UserStep(u) == JobStarts(u) \/ JobFinishes(u) \/ UserAbandons(u)

Next == NextEvent \/ \E u \in DOMAIN users : UserStep(u)

\* The event loop goes on, and what a user is waiting for comes in the end.
MaxUsers == 20
Fairness == WF_vars(NextEvent) /\ \A u \in 1 .. MaxUsers : WF_vars(u \in DOMAIN users /\ UserStep(u))

Spec == Init /\ [][Next]_vars /\ Fairness
-------------------------------------------------------------------------------
(* Properties.                                                             *)

SumOf(s) == FoldSeq(LAMBDA x, y : x + y, 0, s)

\* Users a cell has still to create: those of its interval, of the hours left and of the
\* rounds left.
Outstanding(c) ==
    LET cell == cells[c] IN
    Len(cell.subintervals) + (IF Scheduled("intervalEvent", c) THEN 1 ELSE 0)
    + SumOf(SubSeq(cell.groups, cell.hour + 1, Len(cell.groups)))
    + cell.repetitions * SumOf(cell.groups)

\* Every user of the schedule is created, none twice: those created and those outstanding
\* are the preloaded ones and as many rounds of the groups as configured, at each moment
\* of the hours, and no interval is scheduled over another.
UsersOnSchedule ==
    /\ ~fault
    /\ \A c \in DOMAIN cells :
          Distributed(c) /\ ~Scheduled("waitToExecute", c) =>
              Cardinality({u \in DOMAIN users : users[u].cell = c}) + Outstanding(c)
              = Config(c).preloaded + (Config(c).repetitions + 1) * SumOf(cells[c].groups)

\* When the simulation ends each admitted user has run all its jobs and left, nothing is
\* in the queue and no compute node is on; with one cell no user was turned away.
NothingLeftBehind ==
    ended =>
        /\ \A u \in DOMAIN users :
              /\ users[u].status = "refused" => Len(cells) > 1
              /\ users[u].status # "refused" =>
                    /\ users[u].status = "deleted"
                    /\ Len(users[u].finished) = Len(JobKinds(users[u].cell))
        /\ requestsQueue = <<>>
        /\ nodesOn.compute = {}

\* A file to preload is asked of one storage at most, and of the one whose first route is
\* its folder (routes of one folder, or the root).
FilesRequestedOnce ==
    \A u \in DOMAIN users : \A job \in DOMAIN users[u].requested :
        LET sets  == users[u].requested[job]
            conf  == JobConfig(u, job)
            route == [i \in DOMAIN sets |->
                        IF i = 1 /\ LocalPaths(conf.fs) # <<>> THEN LocalPaths(conf.fs)[1].route
                        ELSE RemotePaths(conf.fs)[1].route]
        IN
        \A i \in DOMAIN sets : \A k \in DOMAIN conf.files :
            conf.files[k] \in ToSet(sets[i]) <=> Front(conf.files[k]) = route[i]

\* The run ends: every round of users is created and every user gets away.  A generator
\* without distribution ends only when it has no hours, since it never counts them.
RunEnds ==
    (\A c \in DOMAIN cells : Distributed(c) \/ Config(c).intervals = 0) => <>ended
================================================================================
