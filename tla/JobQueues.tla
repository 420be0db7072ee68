------------------------------- MODULE JobQueues -------------------------------
(***************************************************************************)
(* JobQueue and Container_JobQueue, the vectors of jobs behind the waiting, *)
(* running and finished jobs of a user.  Positions count from 0, as in the *)
(* code.                                                                   *)
(***************************************************************************)
LOCAL INSTANCE Integers
LOCAL INSTANCE Sequences
LOCAL INSTANCE SequencesExt

AtEnd == -1

\* A position beyond the end is ignored: the job is in no queue.
InsertJob(queue, job, position) ==
    IF position = AtEnd THEN Append(queue, job)
    ELSE IF position \in 0 .. Len(queue) THEN InsertAt(queue, position + 1, job)
    ELSE queue

GetJob(queue, index) == queue[index + 1]

RemoveJob(queue, index) == RemoveAt(queue, index + 1)

\* get_index_of_job: -1 when the job is not there.
IndexOfJob(queue, job) ==
    IF \E i \in DOMAIN queue : queue[i] = job
    THEN (CHOOSE i \in DOMAIN queue : queue[i] = job) - 1
    ELSE -1

\* move_to_qDst, from a position of src to the end of dst; a wrong position is only
\* reported.
MoveToEnd(src, position, dst) ==
    IF position \in 0 .. Len(src) - 1
    THEN [src |-> RemoveJob(src, position),
          dst |-> InsertJob(dst, GetJob(src, position), Len(dst))]
    ELSE [src |-> src, dst |-> dst]

\* moveFromRQ_toFQ and moveFromCRQ_toCFQ.
MoveJob(src, job, dst) == MoveToEnd(src, IndexOfJob(src, job), dst)
================================================================================
