-------------------------- MODULE RequestsManagement --------------------------
(***************************************************************************)
(* The queue of requests of the data-centre manager (RequestsManagement)   *)
(* and the walk of CloudSchedulerFCFS::schedule over it.                   *)
(*                                                                         *)
(* schedule() runs inside one simulation event; its loop is split here     *)
(* into one step per request, and cursor (the loop's j, from 1) is 0       *)
(* outside it.  schedulerQueueBlocked is true exactly inside the loop, so  *)
(* a request sent by a handler that the loop calls goes to the temporal    *)
(* queue.                                                                  *)
(***************************************************************************)
EXTENDS Naturals, Sequences

CONSTANTS
    Requests,         \* every request a user can send
    StorageRequests,  \* StorageRequest objects
    StartRequests,    \* REQUEST_START_VM: may be left in the queue
    MaxSent           \* requests the handlers of one step may send (standalone model)

ASSUME RequestsAssumption ==
    /\ StorageRequests \subseteq Requests
    /\ StartRequests \subseteq Requests \ StorageRequests
    /\ MaxSent \in Nat

VARIABLES
    requestsQueue,
    temporalRequestsQueue,
    cursor

vars == <<requestsQueue, temporalRequestsQueue, cursor>>

schedulerQueueBlocked == cursor # 0

Outstanding == requestsQueue \o temporalRequestsQueue

A == INSTANCE AbstractRequests WITH outstanding <- Outstanding

Init ==
    /\ requestsQueue = <<>>
    /\ temporalRequestsQueue = <<>>
    /\ cursor = 0

\* userSendRequest for each request of s, outside the scheduler's walk.
UserSendRequest(s) ==
    /\ ~schedulerQueueBlocked
    /\ requestsQueue' = requestsQueue \o s
    /\ UNCHANGED <<temporalRequestsQueue, cursor>>

\* Mutant: the walk starts at the second request.
SchedulerBlockSecond ==
    /\ ~schedulerQueueBlocked
    /\ cursor' = 2
    /\ UNCHANGED <<requestsQueue, temporalRequestsQueue>>

\* schedulerBlock: from now on arrivals go to the temporal queue.
SchedulerBlock ==
    /\ ~schedulerQueueBlocked
    /\ cursor' = 1
    /\ UNCHANGED <<requestsQueue, temporalRequestsQueue>>

\* A request that is not about storage is attended and erased; s are the requests
\* its handlers send meanwhile.
EraseRequest(s) ==
    /\ cursor \in 1 .. Len(requestsQueue)
    /\ requestsQueue[cursor] \notin StorageRequests
    /\ requestsQueue' = A!Erase(requestsQueue, cursor)
    /\ temporalRequestsQueue' = temporalRequestsQueue \o s
    /\ UNCHANGED cursor

\* A storage request is erased too, but requestErased stays false: the walk skips
\* the request that takes its place.
EraseStorageRequest ==
    /\ cursor \in 1 .. Len(requestsQueue)
    /\ requestsQueue[cursor] \in StorageRequests
    /\ requestsQueue' = A!Erase(requestsQueue, cursor)
    /\ cursor' = cursor + 1
    /\ UNCHANGED temporalRequestsQueue

\* A start request without enough resources stays where it is, for the next walk.
PostponeRequest(s) ==
    /\ cursor \in 1 .. Len(requestsQueue)
    /\ requestsQueue[cursor] \in StartRequests
    /\ temporalRequestsQueue' = temporalRequestsQueue \o s
    /\ cursor' = cursor + 1
    /\ UNCHANGED requestsQueue

\* Mutant: the requests that arrived during the walk overtake the older ones.
SchedulerUnblockFront ==
    /\ cursor > Len(requestsQueue)
    /\ requestsQueue' = temporalRequestsQueue \o requestsQueue
    /\ temporalRequestsQueue' = <<>>
    /\ cursor' = 0

\* Mutant: the block flag is cleared and the temporal queue is not moved.
SchedulerUnblockKeep ==
    /\ cursor > Len(requestsQueue)
    /\ cursor' = 0
    /\ UNCHANGED <<requestsQueue, temporalRequestsQueue>>

\* schedulerUnblock at the end of the walk (blockArrivalRequests(false)).
SchedulerUnblock ==
    /\ cursor > Len(requestsQueue)
    /\ requestsQueue' = requestsQueue \o temporalRequestsQueue
    /\ temporalRequestsQueue' = <<>>
    /\ cursor' = 0

-------------------------------------------------------------------------------
(* The queue on its own: users send requests they have not outstanding.    *)

Fresh(q) == {s \in UNION {[1 .. n -> Requests] : n \in 0 .. MaxSent} : A!Distinct(q \o s)}

Send  == \E s \in Fresh(Outstanding) : UserSendRequest(s)
Serve == \E s \in Fresh(Outstanding) : EraseRequest(s)
Wait  == \E s \in Fresh(Outstanding) : PostponeRequest(s)

Walk == SchedulerBlock \/ Serve \/ EraseStorageRequest \/ Wait \/ SchedulerUnblock
Next == Send \/ Walk

Spec     == Init /\ [][Next]_vars
FairSpec == Spec /\ WF_vars(Walk)

TypeOK ==
    /\ requestsQueue \in Seq(Requests)
    /\ temporalRequestsQueue \in Seq(Requests)
    /\ cursor \in Nat

\* Every outstanding request is in exactly one place of one of the two queues, and
\* the temporal queue is empty whenever the scheduler is not walking: a request
\* left there would wait for a walk that nobody starts for it.
NothingStranded ==
    /\ A!Distinct(Outstanding)
    /\ ~schedulerQueueBlocked => temporalRequestsQueue = <<>>

\* The two queues together behave as the one queue the users were promised.
RefinesAbstract == A!Spec

\* schedule() looks at every request of the queue sooner or later, although erasing
\* a storage request makes it skip the next one of that walk.
EveryRequestConsidered ==
    \A r \in Requests :
        r \in A!Contents(Outstanding)
            ~> cursor \in 1 .. Len(requestsQueue) /\ requestsQueue[cursor] = r
===============================================================================
