----------------------- MODULE RequestsManagementProofs -----------------------
(***************************************************************************)
(* For every set of requests: the two queues of RequestsManagement behave  *)
(* as one queue that keeps its order and loses nothing, and nothing is     *)
(* left in the temporal queue outside the scheduler's walk.                *)
(*                                                                         *)
(* The inductive invariant is TypeOK /\ NothingStranded.  The lemmas say   *)
(* what appending and erasing do to the concatenation of the two queues.   *)
(***************************************************************************)
EXTENDS RequestsManagement, SequenceTheorems, TLAPS

Inv == TypeOK /\ NothingStranded

\* Erasing a position of a sequence leaves a sequence over the same set.
LEMMA EraseType ==
    ASSUME NEW S, NEW q \in Seq(S), NEW i \in 1 .. Len(q)
    PROVE  /\ A!Erase(q, i) \in Seq(S)
           /\ Len(A!Erase(q, i)) = Len(q) - 1
  BY DEF A!Erase

\* The elements of a concatenation.
LEMMA ConcatIndex ==
    ASSUME NEW S, NEW q \in Seq(S), NEW t \in Seq(S)
    PROVE  /\ q \o t \in Seq(S)
           /\ Len(q \o t) = Len(q) + Len(t)
           /\ \A k \in 1 .. Len(q \o t) :
                 (q \o t)[k] = IF k <= Len(q) THEN q[k] ELSE t[k - Len(q)]
  OBVIOUS

\* Erasing in the first of two queues is erasing in their concatenation.
LEMMA EraseConcat ==
    ASSUME NEW S, NEW q \in Seq(S), NEW t \in Seq(S), NEW i \in 1 .. Len(q)
    PROVE  A!Erase(q, i) \o t = A!Erase(q \o t, i)
<1> DEFINE l == A!Erase(q, i) \o t
           r == A!Erase(q \o t, i)
<1>1. /\ A!Erase(q, i) \in Seq(S)
      /\ Len(A!Erase(q, i)) = Len(q) - 1
      /\ \A k \in 1 .. Len(q) - 1 : A!Erase(q, i)[k] = IF k < i THEN q[k] ELSE q[k + 1]
  BY EraseType DEF A!Erase
<1>2. /\ l \in Seq(S) /\ Len(l) = Len(A!Erase(q, i)) + Len(t)
      /\ \A k \in 1 .. Len(l) :
            l[k] = IF k <= Len(A!Erase(q, i)) THEN A!Erase(q, i)[k]
                   ELSE t[k - Len(A!Erase(q, i))]
  BY <1>1, ConcatIndex
<1>3. /\ q \o t \in Seq(S) /\ Len(q \o t) = Len(q) + Len(t)
      /\ \A k \in 1 .. Len(q \o t) :
            (q \o t)[k] = IF k <= Len(q) THEN q[k] ELSE t[k - Len(q)]
  BY ConcatIndex
<1>4. /\ r \in Seq(S) /\ Len(r) = Len(q) + Len(t) - 1
      /\ \A k \in 1 .. Len(r) : r[k] = IF k < i THEN (q \o t)[k] ELSE (q \o t)[k + 1]
  BY <1>3, EraseType DEF A!Erase
<1> HIDE DEF l, r
<1>5. /\ Len(q) \in Nat /\ Len(t) \in Nat /\ i \in Nat /\ i <= Len(q)
      /\ Len(A!Erase(q, i)) = Len(q) - 1
      /\ Len(l) = Len(q) + Len(t) - 1
  BY <1>1, <1>2
<1>6. ASSUME NEW k \in 1 .. Len(l) PROVE l[k] = r[k]
  <2>0. k \in Nat /\ k >= 1 /\ k <= Len(q) + Len(t) - 1 /\ k \in 1 .. Len(r)
        /\ k \in 1 .. Len(q \o t) /\ k + 1 \in 1 .. Len(q \o t)
    BY <1>5, <1>4, <1>3
  <2>1. CASE k < i
    <3>1. k \in 1 .. Len(q) - 1 /\ k <= Len(A!Erase(q, i))
      BY <2>0, <2>1, <1>5
    <3>2. l[k] = q[k]
      BY <3>1, <2>1, <1>1, <1>2
    <3>3. r[k] = q[k]
      BY <3>1, <2>0, <2>1, <1>3, <1>4
    <3> QED BY <3>2, <3>3
  <2>2. CASE ~(k < i) /\ k < Len(q)
    <3>1. k \in 1 .. Len(q) - 1 /\ k <= Len(A!Erase(q, i)) /\ k + 1 <= Len(q)
      BY <2>0, <2>2, <1>5
    <3>2. l[k] = q[k + 1]
      BY <3>1, <2>2, <1>1, <1>2
    <3>3. r[k] = q[k + 1]
      BY <3>1, <2>0, <2>2, <1>3, <1>4
    <3> QED BY <3>2, <3>3
  <2>3. CASE ~(k < i) /\ ~(k < Len(q))
    <3>1. l[k] = t[k - (Len(q) - 1)]
      BY <2>0, <2>3, <1>2, <1>5
    <3>2. r[k] = t[(k + 1) - Len(q)]
      <4>1. r[k] = (q \o t)[k + 1]
        BY <2>0, <2>3, <1>4
      <4>2. ~(k + 1 <= Len(q))
        BY <2>0, <2>3, <1>5
      <4> QED BY <4>1, <4>2, <2>0, <1>3
    <3>3. k - (Len(q) - 1) = (k + 1) - Len(q)
      BY <2>0, <1>5
    <3> QED BY <3>1, <3>2, <3>3
  <2> QED BY <2>1, <2>2, <2>3
<1>7. Len(l) = Len(r)
  BY <1>4, <1>5
<1>8. l = r
  BY <1>2, <1>4, <1>6, <1>7, SeqEqual
<1> QED BY <1>8 DEF l, r

\* Erasing keeps the elements of a sequence apart.
LEMMA EraseDistinct ==
    ASSUME NEW S, NEW q \in Seq(S), NEW i \in 1 .. Len(q), A!Distinct(q)
    PROVE  A!Distinct(A!Erase(q, i))
  BY DEF A!Distinct, A!Erase

\* Appending is associative.
LEMMA ConcatAssoc ==
    ASSUME NEW S, NEW q \in Seq(S), NEW t \in Seq(S), NEW s \in Seq(S)
    PROVE  (q \o t) \o s = q \o (t \o s)
  OBVIOUS

LEMMA ConcatEmpty ==
    ASSUME NEW S, NEW q \in Seq(S)
    PROVE  q \o <<>> = q
  OBVIOUS

\* The requests a step sends are requests, none of them outstanding.
LEMMA FreshType ==
    ASSUME NEW q, NEW s \in Fresh(q)
    PROVE  s \in Seq(Requests) /\ A!Distinct(q \o s)
  BY RequestsAssumption DEF Fresh

-------------------------------------------------------------------------------
\* What a step does to the outstanding requests: it appends requests that were not
\* outstanding, after erasing at most one.
Appends(s) == Outstanding' = Outstanding \o s
Replaces(i, s) == Outstanding' = A!Erase(Outstanding \o s, i)

LEMMA AppendsIsAbstract ==
    ASSUME TypeOK, TypeOK', NEW s \in Seq(Requests), A!Distinct(Outstanding \o s), Appends(s)
    PROVE  A!Distinct(Outstanding') /\ A!Next
<1>1. Outstanding \in Seq(Requests) /\ Outstanding' \in Seq(Requests)
  BY ConcatIndex DEF TypeOK, Outstanding
<1>2. A!Distinct(Outstanding')
  BY DEF Appends
<1>3. /\ Len(Outstanding) <= Len(Outstanding')
      /\ \A k \in 1 .. Len(Outstanding) : Outstanding'[k] = Outstanding[k]
  <2>1. Outstanding' = Outstanding \o s
    BY DEF Appends
  <2> HIDE DEF Outstanding
  <2> QED BY <1>1, <2>1, ConcatIndex
<1>4. A!Send
  BY <1>1, <1>2, <1>3 DEF A!Send, A!Becomes
<1> QED BY <1>2, <1>4 DEF A!Next

LEMMA ReplacesIsAbstract ==
    ASSUME TypeOK, TypeOK', NEW s \in Seq(Requests), A!Distinct(Outstanding \o s),
           NEW i \in 1 .. Len(Outstanding), Replaces(i, s)
    PROVE  A!Distinct(Outstanding') /\ A!Next
<1>1. Outstanding \in Seq(Requests) /\ Outstanding' \in Seq(Requests)
  BY ConcatIndex DEF TypeOK, Outstanding
<1>2. Outstanding' = A!Erase(Outstanding, i) \o s
  BY <1>1, EraseConcat DEF Replaces
<1>3. A!Distinct(Outstanding')
  <2>1. Outstanding \o s \in Seq(Requests) /\ i \in 1 .. Len(Outstanding \o s)
    BY <1>1, ConcatIndex
  <2> QED BY <2>1, EraseDistinct DEF Replaces
<1>4. A!Erase(Outstanding, i) \in Seq(Requests)
  BY <1>1, EraseType
<1>5. /\ Len(A!Erase(Outstanding, i)) <= Len(Outstanding')
      /\ \A k \in 1 .. Len(A!Erase(Outstanding, i)) :
            Outstanding'[k] = A!Erase(Outstanding, i)[k]
  BY <1>2, <1>4, ConcatIndex
<1>6. A!Becomes(A!Erase(Outstanding, i))
  BY <1>1, <1>3, <1>5 DEF A!Becomes
<1>7. A!Attend
  BY <1>6 DEF A!Attend
<1> QED BY <1>3, <1>7 DEF A!Next

\* Every step keeps the invariant and is a step of the abstract queue or leaves it alone.
LEMMA StepLemma ==
    ASSUME Inv, [Next]_vars
    PROVE  Inv' /\ [A!Next]_Outstanding
<1> USE DEF schedulerQueueBlocked
<1>0. /\ requestsQueue \in Seq(Requests) /\ temporalRequestsQueue \in Seq(Requests)
      /\ cursor \in Nat /\ A!Distinct(Outstanding)
      /\ cursor = 0 => temporalRequestsQueue = <<>>
      /\ Outstanding = requestsQueue \o temporalRequestsQueue
      /\ Outstanding \in Seq(Requests)
  BY ConcatIndex DEF Inv, TypeOK, NothingStranded, Outstanding
<1>1. ASSUME NEW s \in Fresh(Outstanding), UserSendRequest(s)
      PROVE  Inv' /\ [A!Next]_Outstanding
  <2>1. s \in Seq(Requests) /\ A!Distinct(Outstanding \o s)
    BY FreshType
  <2>2. cursor = 0 /\ requestsQueue' = requestsQueue \o s /\ cursor' = 0
        /\ temporalRequestsQueue' = <<>> /\ temporalRequestsQueue = <<>>
    BY <1>0, <1>1 DEF UserSendRequest
  <2>3. TypeOK /\ TypeOK'
    BY <1>0, <2>1, <2>2, ConcatIndex DEF TypeOK
  <2>4. Appends(s)
    BY <1>0, <2>1, <2>2, ConcatEmpty, ConcatIndex DEF Appends, Outstanding
  <2>5. A!Distinct(Outstanding') /\ A!Next
    BY <2>1, <2>3, <2>4, AppendsIsAbstract
  <2> QED BY <2>2, <2>3, <2>5 DEF Inv, NothingStranded
<1>2. ASSUME SchedulerBlock PROVE Inv' /\ [A!Next]_Outstanding
  <2>1. UNCHANGED <<requestsQueue, temporalRequestsQueue>> /\ cursor' = 1
    BY <1>2 DEF SchedulerBlock
  <2>2. Outstanding' = Outstanding
    BY <2>1 DEF Outstanding
  <2> QED BY <1>0, <2>1, <2>2 DEF Inv, TypeOK, NothingStranded
<1>3. ASSUME NEW s \in Fresh(Outstanding), EraseRequest(s)
      PROVE  Inv' /\ [A!Next]_Outstanding
  <2>1. s \in Seq(Requests) /\ A!Distinct(Outstanding \o s)
    BY FreshType
  <2>2. /\ cursor \in 1 .. Len(requestsQueue) /\ cursor' = cursor
        /\ requestsQueue' = A!Erase(requestsQueue, cursor)
        /\ temporalRequestsQueue' = temporalRequestsQueue \o s
    BY <1>3 DEF EraseRequest
  <2>3. TypeOK /\ TypeOK'
    BY <1>0, <2>1, <2>2, ConcatIndex, EraseType DEF TypeOK
  <2>4. cursor \in 1 .. Len(Outstanding)
    BY <1>0, <2>2, ConcatIndex
  <2>5. Replaces(cursor, s)
    <3>1. Outstanding' = A!Erase(requestsQueue, cursor) \o (temporalRequestsQueue \o s)
      BY <2>2 DEF Outstanding
    <3>2. temporalRequestsQueue \o s \in Seq(Requests)
      BY <1>0, <2>1, ConcatIndex
    <3>3. Outstanding' = A!Erase(requestsQueue \o (temporalRequestsQueue \o s), cursor)
      BY <3>1, <3>2, <1>0, <2>2, EraseConcat
    <3>4. requestsQueue \o (temporalRequestsQueue \o s)
            = (requestsQueue \o temporalRequestsQueue) \o s
      <4>1. /\ requestsQueue \in Seq(Requests) /\ temporalRequestsQueue \in Seq(Requests)
            /\ s \in Seq(Requests)
        BY <1>0, <2>1
      <4> QED BY <4>1, ConcatAssoc
    <3> QED BY <3>3, <3>4 DEF Replaces, Outstanding
  <2>6. A!Distinct(Outstanding') /\ A!Next
    BY <2>1, <2>3, <2>4, <2>5, ReplacesIsAbstract
  <2> QED BY <2>2, <2>3, <2>6 DEF Inv, NothingStranded
<1>4. ASSUME EraseStorageRequest PROVE Inv' /\ [A!Next]_Outstanding
  <2>1. <<>> \in Seq(Requests) /\ A!Distinct(Outstanding \o <<>>)
    BY <1>0, ConcatEmpty
  <2>2. /\ cursor \in 1 .. Len(requestsQueue) /\ cursor' = cursor + 1
        /\ requestsQueue' = A!Erase(requestsQueue, cursor)
        /\ temporalRequestsQueue' = temporalRequestsQueue
    BY <1>4 DEF EraseStorageRequest
  <2>3. TypeOK /\ TypeOK'
    BY <1>0, <2>2, EraseType DEF TypeOK
  <2>4. cursor \in 1 .. Len(Outstanding)
    BY <1>0, <2>2, ConcatIndex
  <2>5. Replaces(cursor, <<>>)
    <3>1. Outstanding' = A!Erase(Outstanding, cursor)
      BY <1>0, <2>2, EraseConcat DEF Outstanding
    <3> QED BY <3>1, <1>0, ConcatEmpty DEF Replaces
  <2>6. A!Distinct(Outstanding') /\ A!Next
    BY <2>1, <2>3, <2>4, <2>5, ReplacesIsAbstract
  <2> QED BY <2>2, <2>3, <2>6, <1>0 DEF Inv, NothingStranded
<1>5. ASSUME NEW s \in Fresh(Outstanding), PostponeRequest(s)
      PROVE  Inv' /\ [A!Next]_Outstanding
  <2>1. s \in Seq(Requests) /\ A!Distinct(Outstanding \o s)
    BY FreshType
  <2>2. /\ cursor \in 1 .. Len(requestsQueue) /\ cursor' = cursor + 1
        /\ requestsQueue' = requestsQueue
        /\ temporalRequestsQueue' = temporalRequestsQueue \o s
    BY <1>5 DEF PostponeRequest
  <2>3. TypeOK /\ TypeOK'
    BY <1>0, <2>1, <2>2, ConcatIndex DEF TypeOK
  <2>4. Appends(s)
    <3>1. Outstanding' = requestsQueue \o (temporalRequestsQueue \o s)
      BY <2>2 DEF Outstanding
    <3>2. (requestsQueue \o temporalRequestsQueue) \o s
            = requestsQueue \o (temporalRequestsQueue \o s)
      <4>1. /\ requestsQueue \in Seq(Requests) /\ temporalRequestsQueue \in Seq(Requests)
            /\ s \in Seq(Requests)
        BY <1>0, <2>1
      <4> QED BY <4>1, ConcatAssoc
    <3> QED BY <3>1, <3>2 DEF Appends, Outstanding
  <2>5. A!Distinct(Outstanding') /\ A!Next
    BY <2>1, <2>3, <2>4, AppendsIsAbstract
  <2> QED BY <2>2, <2>3, <2>5, <1>0 DEF Inv, NothingStranded
<1>6. ASSUME SchedulerUnblock PROVE Inv' /\ [A!Next]_Outstanding
  <2>1. /\ requestsQueue' = requestsQueue \o temporalRequestsQueue
        /\ temporalRequestsQueue' = <<>> /\ cursor' = 0
    BY <1>6 DEF SchedulerUnblock
  <2>2. Outstanding' = Outstanding
    BY <1>0, <2>1, ConcatEmpty DEF Outstanding
  <2> QED BY <1>0, <2>1, <2>2 DEF Inv, TypeOK, NothingStranded
<1>7. ASSUME UNCHANGED vars PROVE Inv' /\ [A!Next]_Outstanding
  BY <1>7 DEF Inv, TypeOK, NothingStranded, Outstanding, vars
<1> QED
  BY <1>1, <1>2, <1>3, <1>4, <1>5, <1>6, <1>7 DEF Next, Walk, Send, Serve, Wait

LEMMA InitLemma == Init => Inv /\ A!Init
  BY ConcatEmpty DEF Init, Inv, TypeOK, NothingStranded, Outstanding, schedulerQueueBlocked,
                     A!Distinct, A!Init

\* userSendRequest, eraseRequest and the block flag of RequestsManagement leave no
\* request in the temporal queue outside a walk, and no request in two places.
THEOREM NothingIsStranded == Spec => []NothingStranded
<1>1. Inv /\ [Next]_vars => Inv'
  BY StepLemma
<1>2. Inv => NothingStranded
  BY DEF Inv
<1> QED BY InitLemma, <1>1, <1>2, PTL DEF Spec

\* The request queue and the temporal queue implement one queue that keeps its order:
\* a request overtakes no other and is neither lost nor repeated.
THEOREM QueueRefinement == Spec => RefinesAbstract
<1>1. Inv /\ [Next]_vars => Inv'
  BY StepLemma
<1>2. Inv /\ [Next]_vars => [A!Next]_Outstanding
  BY StepLemma
<1> QED BY InitLemma, <1>1, <1>2, PTL DEF Spec, RefinesAbstract, A!Spec
===============================================================================
