-------------------------- MODULE CloudLifecycleProofs --------------------------
(* That the cloud manager keeps its books right: which jobs a user still    *)
(* has, on which machines they are, which machines are his, which requests  *)
(* are on their way and how many of them he counts. Proved for every        *)
(* number of users, jobs, nodes and machines and every order of events.     *)
(*                                                                          *)
(* A handler changes one user's part of the state, a world (World of        *)
(* CloudLifecycle), step by step. UserRight says when a world is right      *)
(* given what the handler does not touch: R the requests of the two         *)
(* queues, D the machines that are being shut down, S the jobs whose        *)
(* storage is being set up, E the executed jobs. It says nothing of the     *)
(* order within R, so that the proof of a handler does not look into the    *)
(* queues. IInv is UserRight of every user, in the state.                   *)
EXTENDS CloudLifecycle, DataProofs, FiniteSetTheorems, SequenceTheorems

\* The user's machines that wait for their shutdown.
Marked(w) == {v \in ToSet(w.u.machinesMap) : w.vm[v].pending = "PENDING_SHUTDOWN"}

\* The user's jobs that have a machine.
Assigned(w) == w.u.waitingForStorage \cup w.u.containerRunningQueue

\* All jobs of a user.
MyJobs(u) == ToSet(JobsOf[u])

\* The requests in the queues and those the handler is sending.
Asks(w, R) == R \cup ToSet(w.out)

\* Each of the user's jobs waits, is assigned a machine or is executed, and is in one
\* of these states only.
JobsRight(u, w, E) ==
    /\ IsInjective(w.u.containerWaitingQueue)
    /\ ToSet(w.u.containerWaitingQueue) \cap (Assigned(w) \cup E) = {}
    /\ w.u.waitingForStorage \cap (w.u.containerRunningQueue \cup E) = {}
    /\ w.u.containerRunningQueue \cap E = {}
    /\ ToSet(w.u.containerWaitingQueue) \cup Assigned(w) \subseteq MyJobs(u)
    /\ MyJobs(u) \subseteq ToSet(w.u.containerWaitingQueue) \cup Assigned(w) \cup E

\* An assigned job has a machine of the user for itself; what a machine is doing agrees
\* with what its job is doing.
MachinesRight(w) ==
    /\ IsInjective(w.u.machinesMap)
    /\ \A j \in Assigned(w) : w.u.machine[j] \in ToSet(w.u.machinesMap)
    /\ \A j, k \in Assigned(w) : w.u.machine[j] = w.u.machine[k] => j = k
    /\ \A j \in w.u.waitingForStorage :
          /\ w.vm[w.u.machine[j]].state = "idle"
          /\ w.vm[w.u.machine[j]].pending = "PENDING_STORAGE"
          /\ w.u.vms_waiting_remote_st[w.u.machine[j]] = 1
    /\ \A j \in w.u.containerRunningQueue :
          /\ w.vm[w.u.machine[j]].state = "running"
          /\ w.vm[w.u.machine[j]].pending = "NOT_PENDING_OPS"
    /\ \A v \in VMs : w.u.vms_waiting_remote_st[v] # 0 =>
          \E j \in w.u.waitingForStorage : w.u.machine[j] = v
    /\ \A v \in ToSet(w.u.machinesMap) :
          /\ w.vm[v].state = "off" => w.vm[v].pending = "NOT_PENDING_OPS"
          /\ w.vm[v].state = "running" => \E j \in w.u.containerRunningQueue : w.u.machine[j] = v
          /\ w.vm[v].pending = "PENDING_STORAGE" => \E j \in w.u.waitingForStorage : w.u.machine[j] = v
          /\ w.vm[v].pending = "PENDING_SHUTDOWN" => w.vm[v].state = "idle"

\* A job waits for its storage exactly while its request is on its way or its storage
\* is being set up, a machine for its shutdown exactly while its request is on its
\* way or it is being shut down, and the user counts those machines.
RequestsRight(u, w, R, D, S) ==
    /\ IsInjective(w.out) /\ ToSet(w.out) \cap R = {}
    /\ ToSet(w.out) \subseteq {Storage(j) : j \in MyJobs(u)} \cup {Free(v) : v \in ToSet(w.u.machinesMap)}
                              \cup {Abandon(u)}
    /\ \A j \in MyJobs(u) :
          /\ j \in w.u.waitingForStorage <=> (Storage(j) \in Asks(w, R) \/ j \in S)
          /\ ~(Storage(j) \in Asks(w, R) /\ j \in S)
    /\ \A v \in ToSet(w.u.machinesMap) :
          /\ v \in Marked(w) <=> (Free(v) \in Asks(w, R) \/ v \in D)
          /\ ~(Free(v) \in Asks(w, R) /\ v \in D)
    /\ w.u.pending_shutdown_requests = Cardinality(Marked(w))
    /\ Abandon(u) \in Asks(w, R) => w.u.userFinalizing

\* A user who is leaving has no job left and no machine on.
FinalizingRight(w) ==
    w.u.userFinalizing =>
        /\ w.u.containerWaitingQueue = <<>> /\ Assigned(w) = {}
        /\ \A v \in ToSet(w.u.machinesMap) : w.vm[v].state = "off"

\* A world is right.
UserRight(u, w, R, D, S, E) ==
    JobsRight(u, w, E) /\ MachinesRight(w) /\ RequestsRight(u, w, R, D, S) /\ FinalizingRight(w)

\* The requests in the two queues.
Outs == ToSet(requestsQueue) \cup ToSet(temporalRequestsQueue)

\* No request is twice in the two queues.
QueueRight ==
    /\ requestsQueue \in Seq(Requests) /\ temporalRequestsQueue \in Seq(Requests) /\ cursor \in Nat
    /\ IsInjective(requestsQueue) /\ IsInjective(temporalRequestsQueue)
    /\ ToSet(requestsQueue) \cap ToSet(temporalRequestsQueue) = {}

\* The executed jobs, and the machines of a user.
Done == {j \in Jobs : executions[j] = 1}
Maps(u) == ToSet(user[u].machinesMap)

\* The notifications that are due belong to the machines whose shutdown was attended.
NotificationsRight ==
    \A v \in VMs :
        /\ pendingRemoteStorageDeletion[v] \in 0 .. 1 /\ connectionsDeletion[v] \in 0 .. 1
        /\ v \in reqPendingToDelete <=>
              pendingRemoteStorageDeletion[v] + connectionsDeletion[v] > 0

\* A machine belongs to one user, has a host and an old process identifier; a machine
\* of nobody is off and named by no request.
MachinesPlaced ==
    /\ \A u, x \in Users : \A v \in VMs : v \in Maps(u) /\ v \in Maps(x) => u = x
    /\ \A u \in Users : \A v \in Maps(u) : hostOf[v] # 0 /\ v < nextPid
    /\ \A v \in VMs : (\A u \in Users : v \notin Maps(u)) =>
          /\ hostOf[v] = 0 /\ vm[v].state = "off" /\ vm[v].pending = "NOT_PENDING_OPS"
          /\ v \notin reqPendingToDelete /\ Free(v) \notin Outs

\* A user who has not arrived has no machine and asked for none; one who has left
\* asks for nothing.
TenantRight(u) ==
    /\ u \notin arrived =>
          /\ user[u].machinesMap = <<>> /\ user[u].containerWaitingQueue = JobsOf[u]
          /\ StartVM(u) \notin Outs
    /\ selectionQuantity[u] <= user[u].pendingVmsAtStartup
    /\ u \in arrived \ userList => user[u].userFinalizing /\ Abandon(u) \notin Outs

\* The inductive invariant.
IInv ==
    /\ TypeOK /\ QueueRight
    /\ \A j \in Jobs : executions[j] \in 0 .. 1
    /\ \A u \in Users : UserRight(u, World(u), Outs, reqPendingToDelete, pendingStorageRequests, Done)
                         /\ TenantRight(u)
    /\ MachinesPlaced /\ NotificationsRight

\* The machines a user asks for on arrival, those all users ask for, and the users whose
\* request was attended.
Asked(u) == IF VmQuantity[u] < Len(JobsOf[u]) THEN VmQuantity[u] ELSE Len(JobsOf[u])
Demand == UNION {{u} \X (1 .. Asked(u)) : u \in Users}
Granted == {u \in arrived : StartVM(u) \notin Outs}

\* The nodes have room for all the machines the users ask for.
Ample == IsFiniteSet(Demand) /\ Cardinality(Demand) <= Cardinality(Places)

\* A user whose start request waits is as he came, and no granted machine is off.
AmpleRight(u) ==
    /\ StartVM(u) \in Outs =>
          /\ user[u].machinesMap = <<>> /\ user[u].containerWaitingQueue = JobsOf[u]
          /\ selectionQuantity[u] = Asked(u)
    /\ \A v \in Maps(u) : vm[v].state # "off"

\* What holds besides when the nodes have room: no handler fails, and the machines
\* started are those of the requests attended.
AInv ==
    /\ ~fault
    /\ \A u \in Users : AmpleRight(u)
    /\ nextPid - 1 = Cardinality({p \in Demand : p[1] \in Granted})
-------------------------------------------------------------------------------
(* Sequences without repetition, seen as sets.                             *)

\* What appending an element does to a sequence without repetition.
LEMMA AppendOnce ==
    ASSUME NEW T, NEW s \in Seq(T), NEW e \in T, IsInjective(s), e \notin ToSet(s)
    PROVE  /\ Append(s, e) \in Seq(T) /\ IsInjective(Append(s, e))
           /\ ToSet(Append(s, e)) = ToSet(s) \cup {e}
  <1>0. PICK n \in Nat : n = Len(s)
    OBVIOUS
  <1>1. PICK t \in Seq(T) : t = Append(s, e)
    BY AppendProperties
  <1>2. /\ DOMAIN t = 1 .. n + 1 /\ DOMAIN s = 1 .. n
        /\ \A i \in 1 .. n : t[i] = s[i] /\ t[n + 1] = e
    BY <1>0, <1>1
  <1>3. t[n + 1] = e
    BY <1>0, <1>1
  <1>4. ToSet(t) = ToSet(s) \cup {e}
    BY <1>2, <1>3 DEF ToSet
  <1>5. IsInjective(t)
    BY <1>2, <1>3 DEF IsInjective, ToSet
  <1>6. QED
    BY <1>1, <1>4, <1>5

\* The elements that a filter keeps.
LEMMA FilterFacts ==
    ASSUME NEW T, NEW s \in Seq(T), NEW S, IsInjective(s)
    PROVE  /\ Filter(s, S) \in Seq(T) /\ IsInjective(Filter(s, S))
           /\ ToSet(Filter(s, S)) = ToSet(s) \cap S
  <1>0. PICK n \in Nat : n = Len(s) /\ DOMAIN s = 1 .. n
    OBVIOUS
  <1>1. PICK f : Filtered(f, s, S, T, n) /\ Filter(s, S) = f[n]
    BY <1>0, FilterIsFiltered
  <1> DEFINE Before(k) == {s[i] : i \in 1 .. k}
             Good(k) == /\ f[k] \in Seq(T) /\ IsInjective(f[k])
                        /\ ToSet(f[k]) = Before(k) \cap S
             Bad == {k \in 0 .. n : ~ Good(k)}
  <1>2. Bad = {}
    <2> SUFFICES ASSUME Bad # {} PROVE FALSE
      OBVIOUS
    <2>1. Bad \in SUBSET Nat
      OBVIOUS
    <2>2. PICK m \in Bad : \A y \in Bad : m <= y
      BY <2>1, LeastNat
    <2>3. m # 0
      <3>1. f[0] = <<>> /\ Before(0) = {}
        BY <1>1 DEF Filtered
      <3>2. <<>> \in Seq(T) /\ IsInjective(<<>>) /\ ToSet(<<>>) = {}
        BY DEF IsInjective, ToSet
      <3>3. Good(0)
        BY <3>1, <3>2
      <3>4. QED
        BY <2>2, <3>3
    <2>4. m \in 1 .. n /\ m - 1 \in 0 .. n /\ ~ (m <= m - 1) /\ m \in 0 .. n
      BY <2>3
    <2>5. Good(m - 1)
      BY <2>2, <2>4
    <2>6. s[m] \in T /\ s[m] \notin Before(m - 1) /\ Before(m) = Before(m - 1) \cup {s[m]}
      <3>1. 1 .. m = (1 .. m - 1) \cup {m} /\ 1 .. m - 1 \subseteq 1 .. n /\ m \notin 1 .. m - 1
        BY <2>4
      <3>2. s[m] \notin Before(m - 1)
        BY <1>0, <2>4, <3>1 DEF IsInjective
      <3>3. QED
        BY <1>0, <2>4, <3>1, <3>2
    <2>7. f[m] = IF s[m] \in S THEN Append(f[m - 1], s[m]) ELSE f[m - 1]
      BY <1>1, <2>4 DEF Filtered
    <2> HIDE DEF Before
    <2>8. CASE s[m] \in S
      <3>1. f[m - 1] \in Seq(T) /\ IsInjective(f[m - 1]) /\ s[m] \notin ToSet(f[m - 1])
        BY <2>5, <2>6
      <3>2. Good(m)
        BY <2>5, <2>6, <2>7, <2>8, <3>1, AppendOnce
      <3>3. QED
        BY <2>2, <3>2
    <2>9. CASE s[m] \notin S
      BY <2>2, <2>5, <2>6, <2>7, <2>9
    <2>10. QED
      BY <2>8, <2>9
  <1>3. Good(n)
    <2> HIDE DEF Good
    <2>1. n \in 0 .. n
      OBVIOUS
    <2>2. QED
      BY <1>2, <2>1
  <1>4. ToSet(s) = Before(n)
    BY <1>0 DEF ToSet
  <1>5. QED
    BY <1>1, <1>3, <1>4

\* Two sequences without repetition and without a common element, one after the other.
LEMMA ConcatOnce ==
    ASSUME NEW T, NEW s \in Seq(T), NEW t \in Seq(T),
           IsInjective(s), IsInjective(t), ToSet(s) \cap ToSet(t) = {}
    PROVE  s \o t \in Seq(T) /\ IsInjective(s \o t)
  <1>1. PICK m \in Nat, n \in Nat : m = Len(s) /\ n = Len(t) /\ DOMAIN s = 1 .. m /\ DOMAIN t = 1 .. n
    OBVIOUS
  <1>2. PICK r \in Seq(T) : r = s \o t
    BY ConcatProperties
  <1>3. /\ DOMAIN r = 1 .. m + n
        /\ \A i \in 1 .. m + n : r[i] = IF i <= m THEN s[i] ELSE t[i - m]
    BY <1>1, <1>2, ConcatProperties
  <1>4. ASSUME NEW i \in 1 .. m + n, NEW k \in 1 .. m + n, r[i] = r[k] PROVE i = k
    <2>1. CASE i <= m /\ k <= m
      <3>1. i \in 1 .. m /\ k \in 1 .. m /\ s[i] = s[k]
        BY <1>3, <1>4, <2>1
      <3>2. QED
        BY <1>1, <3>1 DEF IsInjective
    <2>2. CASE i > m /\ k > m
      <3>1. i - m \in 1 .. n /\ k - m \in 1 .. n /\ t[i - m] = t[k - m]
        BY <1>1, <1>3, <1>4, <2>2
      <3>2. i - m = k - m
        BY <1>1, <3>1 DEF IsInjective
      <3>3. QED
        BY <3>2
    <2>3. CASE i <= m /\ k > m
      <3>1. i \in 1 .. m /\ k - m \in 1 .. n /\ s[i] = t[k - m]
        BY <1>1, <1>3, <1>4, <2>3
      <3>2. QED
        BY <1>1, <3>1 DEF ToSet
    <2>4. CASE i > m /\ k <= m
      <3>1. k \in 1 .. m /\ i - m \in 1 .. n /\ s[k] = t[i - m]
        BY <1>1, <1>3, <1>4, <2>4
      <3>2. QED
        BY <1>1, <3>1 DEF ToSet
    <2>5. QED
      BY <2>1, <2>2, <2>3, <2>4
  <1>5. IsInjective(r)
    BY <1>3, <1>4 DEF IsInjective
  <1>6. QED
    BY <1>2, <1>5

\* The elements of two sequences, one after the other.
LEMMA ConcatSet ==
    ASSUME NEW T, NEW s \in Seq(T), NEW t \in Seq(T)
    PROVE  s \o t \in Seq(T) /\ ToSet(s \o t) = ToSet(s) \cup ToSet(t)
  <1>1. PICK m \in Nat, n \in Nat : m = Len(s) /\ n = Len(t) /\ DOMAIN s = 1 .. m /\ DOMAIN t = 1 .. n
    OBVIOUS
  <1>2. PICK r \in Seq(T) : r = s \o t
    BY ConcatProperties
  <1>3. /\ DOMAIN r = 1 .. m + n
        /\ \A i \in 1 .. m + n : r[i] = IF i <= m THEN s[i] ELSE t[i - m]
    BY <1>1, <1>2, ConcatProperties
  <1>4. ASSUME NEW i \in 1 .. m + n PROVE r[i] \in ToSet(s) \cup ToSet(t)
    <2>1. i <= m => i \in 1 .. m
      OBVIOUS
    <2>2. ~(i <= m) => i - m \in 1 .. n
      OBVIOUS
    <2>3. QED
      BY <1>1, <1>3, <2>1, <2>2 DEF ToSet
  <1>5. ASSUME NEW i \in 1 .. m PROVE s[i] \in ToSet(r)
    <2>1. i \in 1 .. m + n /\ i <= m
      OBVIOUS
    <2>2. QED
      BY <1>3, <2>1 DEF ToSet
  <1>6. ASSUME NEW i \in 1 .. n PROVE t[i] \in ToSet(r)
    <2>1. i + m \in 1 .. m + n /\ ~(i + m <= m) /\ (i + m) - m = i
      OBVIOUS
    <2>2. r[i + m] = t[i]
      BY <1>3, <2>1
    <2>3. QED
      BY <1>3, <2>1, <2>2 DEF ToSet
  <1>7. ToSet(r) = ToSet(s) \cup ToSet(t)
    <2>1. ToSet(r) \subseteq ToSet(s) \cup ToSet(t)
      BY <1>3, <1>4 DEF ToSet
    <2>2. ToSet(s) \subseteq ToSet(r)
      BY <1>1, <1>5 DEF ToSet
    <2>3. ToSet(t) \subseteq ToSet(r)
      BY <1>1, <1>6 DEF ToSet
    <2>4. QED
      BY <2>1, <2>2, <2>3
  <1>8. QED
    BY <1>2, <1>7

\* Taking the first n elements of a sequence without repetition leaves the others.
LEMMA SplitOnce ==
    ASSUME NEW T, NEW s \in Seq(T), IsInjective(s), NEW n \in 0 .. Len(s)
    PROVE  LET a == SubSeq(s, 1, n)
               b == SubSeq(s, n + 1, Len(s))
           IN  /\ a \in Seq(T) /\ IsInjective(a) /\ ToSet(a) = {s[i] : i \in 1 .. n} /\ Len(a) = n
               /\ b \in Seq(T) /\ IsInjective(b) /\ ToSet(b) = ToSet(s) \ ToSet(a)
               /\ \A i \in 1 .. n : a[i] = s[i]
               /\ n = 0 => a = <<>> /\ b = s
               /\ n = Len(s) => a = s /\ b = <<>>
  <1>1. PICK l \in Nat : l = Len(s) /\ DOMAIN s = 1 .. l /\ n \in 0 .. l
    OBVIOUS
  <1>2. PICK a : a = SubSeq(s, 1, n)
    OBVIOUS
  <1>3. PICK b : b = SubSeq(s, n + 1, l)
    OBVIOUS
  <1>4. a \in Seq(T) /\ Len(a) = n /\ \A i \in 1 .. n : a[i] = s[i]
    BY <1>1, <1>2
  <1>5. b \in Seq(T) /\ Len(b) = l - n /\ \A i \in 1 .. l - n : b[i] = s[i + n]
    BY <1>1, <1>3
  <1>6. DOMAIN a = 1 .. n /\ DOMAIN b = 1 .. l - n
    BY <1>4, <1>5
  <1>7. ToSet(a) = {s[i] : i \in 1 .. n}
    BY <1>4, <1>6 DEF ToSet
  <1>8. IsInjective(a)
    <2>1. 1 .. n \subseteq 1 .. l
      BY <1>1
    <2>2. QED
      BY <1>1, <1>4, <1>6, <2>1 DEF IsInjective
  <1>9. IsInjective(b)
    <2>1. ASSUME NEW i \in 1 .. l - n, NEW k \in 1 .. l - n, b[i] = b[k] PROVE i = k
      <3>1. i + n \in 1 .. l /\ k + n \in 1 .. l /\ s[i + n] = s[k + n]
        BY <1>1, <1>5, <2>1
      <3>2. i + n = k + n
        BY <1>1, <3>1 DEF IsInjective
      <3>3. QED
        BY <3>2, <1>1
    <2>2. QED
      BY <1>6, <2>1 DEF IsInjective
  <1>10. ToSet(b) = ToSet(s) \ ToSet(a)
    <2>1. ASSUME NEW i \in 1 .. l - n PROVE b[i] \in ToSet(s) /\ b[i] \notin ToSet(a)
      <3>1. i + n \in 1 .. l /\ ~(i + n <= n) /\ b[i] = s[i + n]
        BY <1>1, <1>5
      <3>2. ASSUME NEW k \in 1 .. n PROVE s[k] # s[i + n]
        <4>1. k \in 1 .. l /\ k # i + n
          BY <1>1, <3>1
        <4>2. QED
          BY <1>1, <3>1, <4>1 DEF IsInjective
      <3>3. QED
        BY <1>1, <1>7, <3>1, <3>2 DEF ToSet
    <2>2. ASSUME NEW i \in 1 .. l, s[i] \notin ToSet(a) PROVE s[i] \in ToSet(b)
      <3>1. ~(i <= n)
        BY <1>1, <1>7, <2>2
      <3>2. i - n \in 1 .. l - n /\ (i - n) + n = i
        BY <1>1, <3>1
      <3>3. b[i - n] = s[i]
        BY <1>5, <3>2
      <3>4. QED
        BY <1>6, <3>2, <3>3 DEF ToSet
    <2>3. ToSet(b) \subseteq ToSet(s) \ ToSet(a)
      BY <1>6, <2>1 DEF ToSet
    <2>4. ToSet(s) \ ToSet(a) \subseteq ToSet(b)
      BY <1>1, <2>2 DEF ToSet
    <2>5. QED
      BY <2>3, <2>4
  <1>11. n = 0 => a = <<>> /\ b = s
    <2>1. n = 0 => Len(a) = Len(<<>>) /\ Len(b) = Len(s) /\ \A i \in 1 .. Len(b) : b[i] = s[i]
      BY <1>1, <1>4, <1>5
    <2>2. QED
      BY <1>4, <1>5, <2>1, SeqEqual
  <1>12. n = l => a = s /\ b = <<>>
    <2>1. n = l => Len(a) = Len(s) /\ (\A i \in 1 .. Len(a) : a[i] = s[i]) /\ Len(b) = 0
      BY <1>1, <1>4, <1>5
    <2>2. QED
      BY <1>4, <1>5, <2>1, SeqEqual
  <1>13. QED
    BY <1>1, <1>2, <1>3, <1>4, <1>5, <1>7, <1>8, <1>9, <1>10, <1>11, <1>12

\* A sequence without repetition has as many elements as positions.
LEMMA OnceCounted ==
    ASSUME NEW T, NEW s \in Seq(T), IsInjective(s)
    PROVE  IsFiniteSet(ToSet(s)) /\ Cardinality(ToSet(s)) = Len(s)
  <1>1. PICK n \in Nat : n = Len(s) /\ DOMAIN s = 1 .. n /\ s \in [1 .. n -> ToSet(s)]
    <2>1. Len(s) \in Nat /\ DOMAIN s = 1 .. Len(s) /\ s \in [1 .. Len(s) -> T]
      OBVIOUS
    <2>2. s \in [1 .. Len(s) -> ToSet(s)]
      BY <2>1 DEF ToSet
    <2>3. QED
      BY <2>1, <2>2
  <1>2. s \in Bijection(1 .. n, ToSet(s))
    BY <1>1 DEF Bijection, Injection, Surjection, IsInjective, ToSet
  <1>3. ExistsBijection(1 .. n, ToSet(s))
    BY <1>2 DEF ExistsBijection
  <1>4. IsFiniteSet(ToSet(s))
    BY <1>3, FS_NatBijection
  <1>5. Cardinality(ToSet(s)) = n
    BY <1>3, FS_CountingElements
  <1>6. QED
    BY <1>1, <1>4, <1>5

\* The first element goes to the end.
LEMMA RotateOnce ==
    ASSUME NEW T, NEW s \in Seq(T), IsInjective(s), s # <<>>
    PROVE  LET r == Append(Tail(s), Head(s)) IN
           r \in Seq(T) /\ IsInjective(r) /\ ToSet(r) = ToSet(s) /\ r # <<>>
  <1>1. PICK l \in Nat \ {0} : l = Len(s) /\ DOMAIN s = 1 .. l
    BY EmptySeq
  <1>2. PICK t \in Seq(T) : t = Tail(s)
    BY HeadTailProperties
  <1>3. PICK e \in T : e = Head(s) /\ e = s[1]
    BY <1>1
  <1>4. Len(t) = l - 1 /\ DOMAIN t = 1 .. l - 1 /\ \A i \in 1 .. l - 1 : t[i] = s[i + 1]
    BY <1>1, <1>2
  <1>5. IsInjective(t) /\ e \notin ToSet(t)
    <2>1. ASSUME NEW i \in 1 .. l - 1 PROVE i + 1 \in 1 .. l /\ i + 1 # 1 /\ 1 \in 1 .. l
      BY <1>1
    <2>2. e \notin ToSet(t)
      BY <1>1, <1>3, <1>4, <2>1 DEF IsInjective, ToSet
    <2>3. ASSUME NEW i \in 1 .. l - 1, NEW k \in 1 .. l - 1, t[i] = t[k] PROVE i = k
      <3>1. s[i + 1] = s[k + 1]
        BY <1>4, <2>3
      <3>2. i + 1 = k + 1
        BY <1>1, <2>1, <3>1 DEF IsInjective
      <3>3. QED
        BY <3>2, <1>1
    <2>4. QED
      BY <1>4, <2>2, <2>3 DEF IsInjective
  <1>6. ToSet(s) = ToSet(t) \cup {e}
    <2>1. ASSUME NEW i \in 1 .. l PROVE s[i] \in ToSet(t) \cup {e}
      <3>1. CASE i = 1
        BY <1>3, <3>1
      <3>2. CASE i # 1
        <4>1. i - 1 \in 1 .. l - 1 /\ (i - 1) + 1 = i
          BY <1>1, <3>2
        <4>2. t[i - 1] = s[i]
          BY <1>4, <4>1
        <4>3. QED
          BY <1>4, <4>1, <4>2 DEF ToSet
      <3>3. QED
        BY <3>1, <3>2
    <2>2. ASSUME NEW i \in 1 .. l - 1 PROVE t[i] \in ToSet(s)
      <3>1. i + 1 \in 1 .. l
        BY <1>1
      <3>2. QED
        BY <1>1, <1>4, <3>1 DEF ToSet
    <2>3. e \in ToSet(s)
      BY <1>1, <1>3 DEF ToSet
    <2>4. ToSet(s) \subseteq ToSet(t) \cup {e}
      BY <1>1, <2>1 DEF ToSet
    <2>5. ToSet(t) \subseteq ToSet(s)
      BY <1>4, <2>2 DEF ToSet
    <2>6. QED
      BY <2>3, <2>4, <2>5
  <1>7. PICK r : r = Append(t, e)
    OBVIOUS
  <1>8. r \in Seq(T) /\ IsInjective(r) /\ ToSet(r) = ToSet(t) \cup {e} /\ r # <<>>
    BY <1>5, <1>7, AppendOnce, AppendProperties
  <1>9. QED
    BY <1>2, <1>3, <1>6, <1>7, <1>8

\* The elements of a sequence of requests made from the elements of another one.
LEMMA RequestsMade ==
    ASSUME NEW T, NEW s \in Seq(T), IsInjective(s), NEW f \in [T -> Requests],
           \A x, y \in T : f[x] = f[y] => x = y,
           NEW r, r = [i \in 1 .. Len(s) |-> f[s[i]]]
    PROVE  r \in Seq(Requests) /\ IsInjective(r) /\ ToSet(r) = {f[x] : x \in ToSet(s)}
  <1>1. PICK n \in Nat : n = Len(s) /\ DOMAIN s = 1 .. n /\ \A i \in 1 .. n : s[i] \in T
    OBVIOUS
  <1>3. r \in Seq(Requests) /\ DOMAIN r = 1 .. n /\ \A i \in 1 .. n : r[i] = f[s[i]]
    BY <1>1
  <1>4. IsInjective(r)
    BY <1>1, <1>3 DEF IsInjective
  <1>5. ToSet(r) = {f[x] : x \in ToSet(s)}
    BY <1>1, <1>3 DEF ToSet
  <1>6. QED
    BY <1>3, <1>4, <1>5

\* No request is taken for another one.
LEMMA RequestsApart ==
    /\ \A j, k \in Jobs : Storage(j) = Storage(k) => j = k
    /\ \A v, x \in VMs : Free(v) = Free(x) => v = x
    /\ \A u, x \in Users : /\ Abandon(u) = Abandon(x) => u = x
                           /\ StartVM(u) = StartVM(x) => u = x
    /\ \A j \in Jobs : \A v \in VMs : Storage(j) # Free(v)
    /\ \A j \in Jobs : \A u \in Users : Storage(j) # Abandon(u) /\ Storage(j) # StartVM(u)
    /\ \A v \in VMs : \A u \in Users : Free(v) # Abandon(u) /\ Free(v) # StartVM(u)
    /\ \A x, u \in Users : Abandon(x) # StartVM(u)
  BY DEF Storage, Free, Abandon, StartVM

\* What the handlers send are requests.
LEMMA RequestsTyped ==
    /\ \A j \in Jobs : Storage(j) \in Requests
    /\ \A v \in VMs : Free(v) \in Requests
    /\ \A u \in Users : Abandon(u) \in Requests /\ StartVM(u) \in Requests
  BY DEF Requests, StorageRequests, StartRequests
-------------------------------------------------------------------------------
(* The handlers of a user.                                                 *)

VmStates == [state : {"off", "idle", "running"},
             pending : {"NOT_PENDING_OPS", "PENDING_STORAGE", "PENDING_SHUTDOWN"}]

Worlds == [u : UserState, vm : [VMs -> VmStates], out : Seq(Requests)]

\* The machines X keep their state and get the pending operation p, the others change
\* nothing.
Marks(w, a, X, p) ==
    /\ \A v \in X : a.vm[v].state = w.vm[v].state /\ a.vm[v].pending = p
    /\ \A v \in VMs \ X : a.vm[v] = w.vm[v]

\* In world a the jobs J of world w were assigned to the machines h[j], c is left waiting
\* and the requests o were sent.
TakesJobs(w, a, J, h, c, o) ==
    /\ a \in Worlds
    /\ a.u.containerWaitingQueue = c
    /\ a.u.waitingForStorage = w.u.waitingForStorage \cup J
    /\ a.u.containerRunningQueue = w.u.containerRunningQueue
    /\ a.u.machinesMap = w.u.machinesMap
    /\ a.u.machine = [j \in Jobs |-> IF j \in J THEN h[j] ELSE w.u.machine[j]]
    /\ a.u.pendingVmsAtStartup = w.u.pendingVmsAtStartup
    /\ a.u.pending_shutdown_requests = w.u.pending_shutdown_requests
    /\ a.u.vms_waiting_remote_st =
          [v \in VMs |-> IF \E j \in J : h[j] = v THEN w.u.vms_waiting_remote_st[v] + 1
                         ELSE w.u.vms_waiting_remote_st[v]]
    /\ a.u.userFinalizing = w.u.userFinalizing
    /\ Marks(w, a, {h[j] : j \in J}, "PENDING_STORAGE")
    /\ a.out = w.out \o o

\* A world has the parts of a world.
LEMMA WorldParts ==
    ASSUME NEW w \in Worlds
    PROVE  /\ w.u \in UserState /\ w.vm \in [VMs -> VmStates] /\ w.out \in Seq(Requests)
           /\ w.u.containerWaitingQueue \in Seq(Jobs) /\ w.u.waitingForStorage \subseteq Jobs
           /\ w.u.containerRunningQueue \subseteq Jobs /\ w.u.machinesMap \in Seq(VMs)
           /\ w.u.machine \in [Jobs -> 0 .. MaxVMs] /\ w.u.pendingVmsAtStartup \in Nat
           /\ w.u.pending_shutdown_requests \in Nat /\ w.u.vms_waiting_remote_st \in [VMs -> Nat]
           /\ w.u.userFinalizing \in BOOLEAN
           /\ ToSet(w.u.containerWaitingQueue) \subseteq Jobs /\ ToSet(w.u.machinesMap) \subseteq VMs
           /\ ToSet(w.out) \subseteq Requests
  <1>1. /\ w.u \in UserState /\ w.vm \in [VMs -> VmStates] /\ w.out \in Seq(Requests)
        /\ w.u.containerWaitingQueue \in Seq(Jobs) /\ w.u.machinesMap \in Seq(VMs)
    BY DEF Worlds, UserState
  <1>2. /\ w.u.waitingForStorage \subseteq Jobs /\ w.u.containerRunningQueue \subseteq Jobs
        /\ w.u.machine \in [Jobs -> 0 .. MaxVMs] /\ w.u.pendingVmsAtStartup \in Nat
        /\ w.u.pending_shutdown_requests \in Nat /\ w.u.vms_waiting_remote_st \in [VMs -> Nat]
        /\ w.u.userFinalizing \in BOOLEAN
    BY <1>1 DEF UserState
  <1>3. /\ ToSet(w.u.containerWaitingQueue) \subseteq Jobs /\ ToSet(w.u.machinesMap) \subseteq VMs
        /\ ToSet(w.out) \subseteq Requests
    BY <1>1 DEF ToSet
  <1>4. QED
    BY <1>1, <1>2, <1>3

\* A record with one part replaced.
LEMMA MarkedState ==
    ASSUME NEW x \in VmStates, NEW p \in {"NOT_PENDING_OPS", "PENDING_STORAGE", "PENDING_SHUTDOWN"}
    PROVE  /\ [x EXCEPT !.pending = p] \in VmStates
           /\ [x EXCEPT !.pending = p].state = x.state /\ [x EXCEPT !.pending = p].pending = p
  BY DEF VmStates

\* The world after an assignment.
LEMMA AssignTakes ==
    ASSUME NEW w \in Worlds, NEW J \in SUBSET Jobs, NEW h \in [J -> VMs],
           NEW c \in Seq(Jobs), NEW o \in Seq(Requests)
    PROVE  TakesJobs(w, Assign(w, h, c, o), J, h, c, o)
  <1> DEFINE U == {h[j] : j \in J}
             f == w.u.waitingForStorage \cup J
             m == [j \in Jobs |-> IF j \in J THEN h[j] ELSE w.u.machine[j]]
             st == [v \in VMs |-> IF v \in U THEN w.u.vms_waiting_remote_st[v] + 1
                                  ELSE w.u.vms_waiting_remote_st[v]]
             vms == [v \in VMs |-> IF v \in U THEN [w.vm[v] EXCEPT !.pending = "PENDING_STORAGE"]
                                   ELSE w.vm[v]]
             out == w.out \o o
  <1>1. PICK a : a = Assign(w, h, c, o)
    OBVIOUS
  <1>2. DOMAIN h = J /\ \A v \in VMs : v \in U <=> \E j \in J : h[j] = v
    OBVIOUS
  <1>3. a = [w EXCEPT !.u.containerWaitingQueue = c, !.u.waitingForStorage = f, !.u.machine = m,
                      !.u.vms_waiting_remote_st = st, !.vm = vms, !.out = out]
    BY <1>1, <1>2 DEF Assign
  <1>4. /\ w.u.waitingForStorage \in SUBSET Jobs /\ w.u.machine \in [Jobs -> 0 .. MaxVMs]
        /\ w.u.vms_waiting_remote_st \in [VMs -> Nat] /\ w.vm \in [VMs -> VmStates]
        /\ w.out \in Seq(Requests)
    BY WorldParts
  <1>5. m \in [Jobs -> 0 .. MaxVMs]
    <2>1. \A j \in J : h[j] \in 0 .. MaxVMs
      BY CloudAssumption DEF VMs
    <2>2. QED
      BY <1>4, <2>1
  <1>6. st = [v \in VMs |-> IF \E j \in J : h[j] = v THEN w.u.vms_waiting_remote_st[v] + 1
                            ELSE w.u.vms_waiting_remote_st[v]]
        /\ st \in [VMs -> Nat]
    <2>1. \A v \in VMs : w.u.vms_waiting_remote_st[v] \in Nat
      BY <1>4
    <2>2. \A v \in VMs : (IF v \in U THEN w.u.vms_waiting_remote_st[v] + 1
                            ELSE w.u.vms_waiting_remote_st[v]) \in Nat
      BY <2>1
    <2>3. st \in [VMs -> Nat]
      BY <2>2
    <2>4. st = [v \in VMs |-> IF \E j \in J : h[j] = v THEN w.u.vms_waiting_remote_st[v] + 1
                              ELSE w.u.vms_waiting_remote_st[v]]
      BY <1>2
    <2>5. QED
      BY <2>3, <2>4
  <1>7. /\ vms \in [VMs -> VmStates]
        /\ \A v \in U : vms[v].state = w.vm[v].state /\ vms[v].pending = "PENDING_STORAGE"
        /\ \A v \in VMs \ U : vms[v] = w.vm[v]
    <2>1. \A v \in VMs : w.vm[v] \in VmStates
      BY <1>4
    <2>2. U \subseteq VMs
      OBVIOUS
    <2> HIDE DEF U
    <2>3. QED
      BY <2>1, <2>2, MarkedState
  <1>8. f \in SUBSET Jobs
    BY <1>4
  <1>9. out \in Seq(Requests)
    BY <1>4, ConcatProperties
  <1> HIDE DEF U, m, st, vms, f, out
  <1>10. a \in Worlds
    BY <1>3, <1>5, <1>6, <1>7, <1>8, <1>9 DEF Worlds, UserState
  <1>11. /\ a.u.containerWaitingQueue = c /\ a.u.waitingForStorage = f /\ a.u.machine = m
         /\ a.u.containerRunningQueue = w.u.containerRunningQueue
         /\ a.u.machinesMap = w.u.machinesMap
         /\ a.u.pendingVmsAtStartup = w.u.pendingVmsAtStartup
         /\ a.u.pending_shutdown_requests = w.u.pending_shutdown_requests
         /\ a.u.vms_waiting_remote_st = st /\ a.u.userFinalizing = w.u.userFinalizing
         /\ a.vm = vms /\ a.out = out
    BY <1>3 DEF Worlds, UserState
  <1>12. QED
    BY <1>1, <1>6, <1>7, <1>10, <1>11 DEF TakesJobs, Marks, f, m, out, U

\* World a is what createFSforContainerJob makes of world w: the jobs J get the free machines
\* h[j], each its own, and c is left waiting.
Assigns(w, a, J, h, c) ==
    /\ J \subseteq ToSet(w.u.containerWaitingQueue)
    /\ h \in [J -> {v \in ToSet(w.u.machinesMap) : FreeVM(w, v)}]
    /\ \A j, k \in J : h[j] = h[k] => j = k
    /\ c \in Seq(Jobs) /\ IsInjective(c) /\ ToSet(c) = ToSet(w.u.containerWaitingQueue) \ J
    /\ J = {} => c = w.u.containerWaitingQueue
    /\ \E o \in Seq(Requests) :
          IsInjective(o) /\ ToSet(o) = {Storage(j) : j \in J} /\ TakesJobs(w, a, J, h, c, o)

\* AssignJobs gives waiting jobs free machines, one each.
LEMMA AssignFacts ==
    ASSUME NEW w \in Worlds, IsInjective(w.u.containerWaitingQueue), IsInjective(w.u.machinesMap)
    PROVE  \E J, h, c : Assigns(w, AssignJobs(w), J, h, c)
  <1> DEFINE q == w.u.containerWaitingQueue
             free == FreeVMs(w)
             n == IF Len(free) < Len(q) THEN Len(free) ELSE Len(q)
             J == {q[i] : i \in 1 .. n}
             at(j) == CHOOSE i \in 1 .. n : q[i] = j
             h == [j \in J |-> free[at(j)]]
             c == SubSeq(q, n + 1, Len(q))
             a == SubSeq(q, 1, n)
             o == [i \in 1 .. n |-> Storage(q[i])]
             F == {v \in ToSet(w.u.machinesMap) : FreeVM(w, v)}
  <1>1. q \in Seq(Jobs) /\ w.u.machinesMap \in Seq(VMs) /\ ToSet(w.u.machinesMap) \subseteq VMs
    BY WorldParts
  <1>2. free \in Seq(VMs) /\ IsInjective(free) /\ ToSet(free) = F
    <2>1. free \in Seq(VMs) /\ IsInjective(free)
          /\ ToSet(free) = ToSet(w.u.machinesMap) \cap {v \in VMs : FreeVM(w, v)}
      BY <1>1, FilterFacts DEF FreeVMs
    <2>2. QED
      BY <1>1, <2>1
  <1> HIDE DEF free, F
  <1>3. /\ n \in 0 .. Len(q) /\ n \in 0 .. Len(free) /\ Len(q) \in Nat /\ Len(free) \in Nat
        /\ DOMAIN q = 1 .. Len(q) /\ DOMAIN free = 1 .. Len(free)
    BY <1>1, <1>2
  <1> HIDE DEF n
  <1>4. \A i \in 1 .. n : i \in DOMAIN q /\ i \in DOMAIN free /\ q[i] \in Jobs /\ free[i] \in F
    BY <1>1, <1>2, <1>3 DEF ToSet
  <1>5. \A j \in J : at(j) \in 1 .. n /\ q[at(j)] = j
    OBVIOUS
  <1>6. \A i \in 1 .. n : at(q[i]) = i
    BY <1>4, <1>5 DEF IsInjective
  <1> HIDE DEF at
  <1>7. J \in SUBSET ToSet(q) /\ J \subseteq Jobs
    BY <1>4 DEF ToSet
  <1>8. h \in [J -> F]
    BY <1>4, <1>5
  <1>9. \A j, k \in J : h[j] = h[k] => j = k
    <2> TAKE j, k \in J
    <2>1. HAVE h[j] = h[k]
    <2>2. at(j) = at(k)
      BY <1>2, <1>4, <1>5, <2>1 DEF IsInjective
    <2>3. QED
      BY <1>5, <2>2
  <1>10. /\ a \in Seq(Jobs) /\ IsInjective(a) /\ ToSet(a) = J /\ Len(a) = n
         /\ c \in Seq(Jobs) /\ IsInjective(c) /\ ToSet(c) = ToSet(q) \ J
         /\ \A i \in 1 .. n : a[i] = q[i]
         /\ n = 0 => c = q
    <2>1. IsInjective(q)
      OBVIOUS
    <2> HIDE DEF q
    <2>2. /\ a \in Seq(Jobs) /\ IsInjective(a) /\ ToSet(a) = {q[i] : i \in 1 .. n} /\ Len(a) = n
          /\ c \in Seq(Jobs) /\ IsInjective(c) /\ ToSet(c) = ToSet(q) \ ToSet(a)
          /\ \A i \in 1 .. n : a[i] = q[i]
          /\ n = 0 => a = <<>> /\ c = q
      BY <1>1, <1>3, <2>1, SplitOnce
    <2>3. QED
      BY <2>2
  <1>11. J = {} => n = 0
    <2>1. n # 0 => 1 \in 1 .. n
      BY <1>3
    <2>2. QED
      BY <2>1
  <1>12. o \in Seq(Requests) /\ IsInjective(o) /\ ToSet(o) = {Storage(j) : j \in J}
    <2>1. o = [i \in 1 .. Len(a) |-> Storage(a[i])]
      BY <1>10
    <2> DEFINE f == [j \in Jobs |-> Storage(j)]
    <2>2. f \in [Jobs -> Requests] /\ \A j \in Jobs : f[j] = Storage(j)
      BY RequestsTyped
    <2>3. \A j, k \in Jobs : f[j] = f[k] => j = k
      BY RequestsApart
    <2>4. o = [i \in 1 .. Len(a) |-> f[a[i]]]
      BY <1>7, <1>10, <2>1
    <2>a. a \in Seq(Jobs) /\ IsInjective(a)
      BY <1>10
    <2> HIDE DEF o, a, J, f, q
    <2>5. o \in Seq(Requests) /\ IsInjective(o) /\ ToSet(o) = {f[x] : x \in ToSet(a)}
      BY ONLY <2>a, <2>2, <2>3, <2>4, RequestsMade
    <2>6. QED
      BY <1>7, <1>10, <2>2, <2>5
  <1>14. TakesJobs(w, AssignJobs(w), J, h, c, o)
    <2>1. h \in [J -> VMs] /\ J \in SUBSET Jobs /\ c \in Seq(Jobs) /\ o \in Seq(Requests)
      <3>1. F \subseteq VMs
        BY <1>1 DEF F
      <3> HIDE DEF J, h, c, o
      <3>2. QED
        BY <1>7, <1>8, <1>10, <1>12, <3>1
    <2>2. AssignJobs(w) = Assign(w, h, c, o)
      BY DEF AssignJobs, free, n, at
    <2> HIDE DEF J, h, c, o
    <2>3. QED
      BY <2>1, <2>2, AssignTakes
  <1>15. QED
    <2>1. /\ J \subseteq ToSet(w.u.containerWaitingQueue)
          /\ h \in [J -> {v \in ToSet(w.u.machinesMap) : FreeVM(w, v)}]
      BY <1>7, <1>8 DEF F
    <2> HIDE DEF J, h, c, o
    <2>2. Assigns(w, AssignJobs(w), J, h, c)
      BY <1>9, <1>10, <1>11, <1>12, <1>14, <2>1 DEF Assigns
    <2>3. QED
      BY <2>2

\* World a sent the requests Q after those of world w.
Sends(w, a, Q) ==
    \E o \in Seq(Requests) : IsInjective(o) /\ ToSet(o) = Q /\ a.out = w.out \o o

\* Sending a set of requests adds it to what is being sent.
LEMMA SendsFacts ==
    ASSUME NEW w \in Worlds, NEW a \in Worlds, NEW Q, Sends(w, a, Q)
    PROVE  /\ ToSet(a.out) = ToSet(w.out) \cup Q /\ Q \subseteq Requests
           /\ IsInjective(w.out) /\ ToSet(w.out) \cap Q = {} => IsInjective(a.out)
           /\ Q = {} => a.out = w.out
  <1>1. PICK o \in Seq(Requests) : IsInjective(o) /\ ToSet(o) = Q /\ a.out = w.out \o o
    BY DEF Sends
  <1>2. w.out \in Seq(Requests)
    BY WorldParts
  <1>3. ToSet(a.out) = ToSet(w.out) \cup Q
    BY <1>1, <1>2, ConcatSet
  <1>4. IsInjective(w.out) /\ ToSet(w.out) \cap Q = {} => IsInjective(a.out)
    BY <1>1, <1>2, ConcatOnce
  <1>5. Q = {} => o = <<>>
    <2>1. IsFiniteSet(ToSet(o)) /\ Cardinality(ToSet(o)) = Len(o)
      BY <1>1, OnceCounted
    <2>2. Q = {} => Len(o) = 0
      BY <1>1, <2>1, FS_EmptySet
    <2>3. QED
      BY <2>2, EmptySeq
  <1>6. Q = {} => a.out = w.out
    <2>1. w.out \o <<>> = w.out
      BY <1>2
    <2>2. QED
      BY <1>1, <1>5, <2>1
  <1>7. Q \subseteq Requests
    BY <1>1 DEF ToSet
  <1>8. QED
    BY <1>3, <1>4, <1>6, <1>7

\* What the books of a user say of his jobs, and of his machines, is the same in both worlds.
SameJobs(w, a) ==
    /\ a.u.containerWaitingQueue = w.u.containerWaitingQueue
    /\ a.u.waitingForStorage = w.u.waitingForStorage
    /\ a.u.containerRunningQueue = w.u.containerRunningQueue
    /\ a.u.machine = w.u.machine
    /\ a.u.vms_waiting_remote_st = w.u.vms_waiting_remote_st

SameMap(w, a) ==
    /\ a.u.machinesMap = w.u.machinesMap
    /\ a.u.pendingVmsAtStartup = w.u.pendingVmsAtStartup
    /\ a.u.userFinalizing = w.u.userFinalizing

\* In world a the shutdown of the machines X of world w was requested.
Shuts(w, a, X) ==
    /\ a \in Worlds /\ SameJobs(w, a) /\ SameMap(w, a)
    /\ X \subseteq VMs /\ IsFiniteSet(X)
    /\ a.u.pending_shutdown_requests = w.u.pending_shutdown_requests + Cardinality(X)
    /\ Marks(w, a, X, "PENDING_SHUTDOWN")
    /\ Sends(w, a, {Free(v) : v \in X})

\* The shutdown requests for the machines of a sequence.
LEMMA FreesMade ==
    ASSUME NEW s \in Seq(VMs), IsInjective(s)
    PROVE  LET o == [i \in 1 .. Len(s) |-> Free(s[i])] IN
           o \in Seq(Requests) /\ IsInjective(o) /\ ToSet(o) = {Free(v) : v \in ToSet(s)}
  <1> DEFINE f == [v \in VMs |-> Free(v)]
  <1>1. f \in [VMs -> Requests] /\ \A v \in VMs : f[v] = Free(v)
    BY RequestsTyped
  <1>2. \A x, y \in VMs : f[x] = f[y] => x = y
    BY RequestsApart
  <1>3. \A i \in 1 .. Len(s) : s[i] \in VMs
    OBVIOUS
  <1>4. PICK o : o = [i \in 1 .. Len(s) |-> Free(s[i])]
    OBVIOUS
  <1>5. o = [i \in 1 .. Len(s) |-> f[s[i]]]
    BY <1>1, <1>3, <1>4
  <1> HIDE DEF f
  <1>6. o \in Seq(Requests) /\ IsInjective(o) /\ ToSet(o) = {f[x] : x \in ToSet(s)}
    BY <1>1, <1>2, <1>5, RequestsMade
  <1>7. ToSet(s) \subseteq VMs
    BY DEF ToSet
  <1>8. QED
    BY <1>1, <1>4, <1>6, <1>7

\* ShutdownVMs marks the machines that are on and sends their requests.
LEMMA ShutdownShuts ==
    ASSUME NEW w \in Worlds, NEW vs \in Seq(VMs), IsInjective(vs)
    PROVE  Shuts(w, ShutdownVMs(w, vs), {v \in ToSet(vs) : w.vm[v].state # "off"})
  <1> DEFINE Y == {v \in ToSet(vs) : w.vm[v].state # "off"}
  <1>1. PICK a : a = ShutdownVMs(w, vs)
    OBVIOUS
  <1>2. PICK on \in Seq(VMs) :
           /\ on = Filter(vs, {v \in VMs : w.vm[v].state # "off"})
           /\ IsInjective(on) /\ ToSet(on) = ToSet(vs) \cap {v \in VMs : w.vm[v].state # "off"}
    BY FilterFacts
  <1>3. ToSet(on) = Y /\ Y \subseteq VMs
    <2>1. ToSet(vs) \subseteq VMs
      BY DEF ToSet
    <2>2. QED
      BY <1>2, <2>1
  <1> HIDE DEF Y
  <1>4. IsFiniteSet(Y) /\ Cardinality(Y) = Len(on) /\ Len(on) \in Nat
    BY <1>2, <1>3, OnceCounted
  <1> DEFINE n == w.u.pending_shutdown_requests + Cardinality(Y)
             vms == [v \in VMs |-> IF v \in Y THEN [w.vm[v] EXCEPT !.pending = "PENDING_SHUTDOWN"]
                                   ELSE w.vm[v]]
             o == [i \in 1 .. Len(on) |-> Free(on[i])]
             out == w.out \o o
  <1>5. a = [w EXCEPT !.u.pending_shutdown_requests = n, !.vm = vms, !.out = out]
    BY <1>1, <1>2, <1>3, <1>4 DEF ShutdownVMs
  <1>6. /\ w.u.pending_shutdown_requests \in Nat /\ w.vm \in [VMs -> VmStates]
        /\ w.out \in Seq(Requests)
    BY WorldParts
  <1>7. n \in Nat
    BY <1>4, <1>6
  <1>8. /\ vms \in [VMs -> VmStates]
        /\ \A v \in Y : vms[v].state = w.vm[v].state /\ vms[v].pending = "PENDING_SHUTDOWN"
        /\ \A v \in VMs \ Y : vms[v] = w.vm[v]
    <2>1. \A v \in VMs : w.vm[v] \in VmStates
      BY <1>6
    <2>2. QED
      BY <1>3, <2>1, MarkedState
  <1>9. o \in Seq(Requests) /\ IsInjective(o) /\ ToSet(o) = {Free(v) : v \in Y}
    <2> HIDE DEF o
    <2>1. o \in Seq(Requests) /\ IsInjective(o) /\ ToSet(o) = {Free(v) : v \in ToSet(on)}
      BY <1>2, FreesMade DEF o
    <2>2. QED
      BY <1>3, <2>1
  <1> HIDE DEF o
  <1>10. out \in Seq(Requests)
    BY <1>6, <1>9, ConcatProperties
  <1> HIDE DEF n, vms, out
  <1>11. a \in Worlds
    BY <1>5, <1>7, <1>8, <1>10 DEF Worlds, UserState
  <1>12. /\ a.u.containerWaitingQueue = w.u.containerWaitingQueue
         /\ a.u.waitingForStorage = w.u.waitingForStorage
         /\ a.u.containerRunningQueue = w.u.containerRunningQueue
         /\ a.u.machine = w.u.machine
         /\ a.u.vms_waiting_remote_st = w.u.vms_waiting_remote_st
         /\ a.u.machinesMap = w.u.machinesMap
         /\ a.u.pendingVmsAtStartup = w.u.pendingVmsAtStartup
         /\ a.u.userFinalizing = w.u.userFinalizing
         /\ a.u.pending_shutdown_requests = n /\ a.vm = vms /\ a.out = out
    BY <1>5 DEF Worlds, UserState
  <1>13. Marks(w, a, Y, "PENDING_SHUTDOWN")
    BY <1>8, <1>12 DEF Marks
  <1>14. Sends(w, a, {Free(v) : v \in Y})
    BY <1>9, <1>12 DEF Sends, out
  <1>15. Shuts(w, a, Y)
    BY <1>3, <1>4, <1>11, <1>12, <1>13, <1>14 DEF Shuts, SameJobs, SameMap, n
  <1>16. QED
    BY <1>1, <1>15 DEF Y

\* From world w to world a the user has the same machines, none of them goes on or off, and
\* the machines of others change nothing.  Without a machine no job gets anywhere.
Frame(w, a) ==
    /\ SameMap(w, a)
    /\ \A v \in VMs : a.vm[v].state = "off" <=> w.vm[v].state = "off"
    /\ \A v \in VMs \ ToSet(w.u.machinesMap) : a.vm[v] = w.vm[v]
    /\ w.u.machinesMap = <<>> =>
          a.u.containerWaitingQueue = w.u.containerWaitingQueue /\ a.out = w.out

\* And his books are right again.
Kept(u, w, a, R, D, S, E) == a \in Worlds /\ UserRight(u, a, R, D, S, E) /\ Frame(w, a)

\* A machine that is free runs no job, and no job waits for it.
LEMMA FreeIsUnused ==
    ASSUME NEW w \in Worlds, MachinesRight(w), NEW v, FreeVM(w, v), NEW j \in Assigned(w)
    PROVE  w.u.machine[j] # v
  BY DEF MachinesRight, FreeVM, Assigned

\* A user's machines are right in a world where they and his jobs are the same.
LEMMA MachinesMoved ==
    ASSUME NEW w, NEW a, MachinesRight(w),
           a.u.waitingForStorage = w.u.waitingForStorage,
           a.u.containerRunningQueue = w.u.containerRunningQueue,
           a.u.machine = w.u.machine, a.u.machinesMap = w.u.machinesMap,
           a.u.vms_waiting_remote_st = w.u.vms_waiting_remote_st,
           \A v \in ToSet(w.u.machinesMap) : a.vm[v] = w.vm[v]
    PROVE  MachinesRight(a)
  <1>1. Assigned(a) = Assigned(w)
    BY DEF Assigned
  <1>2. \A j \in Assigned(w) : a.vm[w.u.machine[j]] = w.vm[w.u.machine[j]]
    BY DEF MachinesRight
  <1>3. /\ IsInjective(a.u.machinesMap)
        /\ \A j \in Assigned(a) : a.u.machine[j] \in ToSet(a.u.machinesMap)
        /\ \A j, k \in Assigned(a) : a.u.machine[j] = a.u.machine[k] => j = k
    BY <1>1 DEF MachinesRight
  <1>4. ASSUME NEW j \in a.u.waitingForStorage
        PROVE  /\ a.vm[a.u.machine[j]].state = "idle"
               /\ a.vm[a.u.machine[j]].pending = "PENDING_STORAGE"
               /\ a.u.vms_waiting_remote_st[a.u.machine[j]] = 1
    <2>1. j \in w.u.waitingForStorage /\ j \in Assigned(w)
      BY DEF Assigned
    <2>2. QED
      BY <1>2, <2>1 DEF MachinesRight
  <1>5. ASSUME NEW j \in a.u.containerRunningQueue
        PROVE  /\ a.vm[a.u.machine[j]].state = "running"
               /\ a.vm[a.u.machine[j]].pending = "NOT_PENDING_OPS"
    <2>1. j \in w.u.containerRunningQueue /\ j \in Assigned(w)
      BY DEF Assigned
    <2>2. QED
      BY <1>2, <2>1 DEF MachinesRight
  <1>6. \A v \in VMs : a.u.vms_waiting_remote_st[v] # 0 =>
           \E j \in a.u.waitingForStorage : a.u.machine[j] = v
    BY DEF MachinesRight
  <1>7. ASSUME NEW v \in ToSet(a.u.machinesMap)
        PROVE  /\ a.vm[v].state = "off" => a.vm[v].pending = "NOT_PENDING_OPS"
               /\ a.vm[v].state = "running" => \E j \in a.u.containerRunningQueue : a.u.machine[j] = v
               /\ a.vm[v].pending = "PENDING_STORAGE" => \E j \in a.u.waitingForStorage : a.u.machine[j] = v
               /\ a.vm[v].pending = "PENDING_SHUTDOWN" => a.vm[v].state = "idle"
    <2>1. v \in ToSet(w.u.machinesMap) /\ a.vm[v] = w.vm[v]
      OBVIOUS
    <2>2. QED
      BY <2>1 DEF MachinesRight
  <1>8. QED
    BY <1>3, <1>4, <1>5, <1>6, <1>7 DEF MachinesRight

\* createFSforContainerJob keeps the books.
LEMMA AssignKept ==
    ASSUME NEW u \in Users, NEW w \in Worlds, NEW R, NEW D, NEW S, NEW E,
           UserRight(u, w, R, D, S, E)
    PROVE  Kept(u, w, AssignJobs(w), R, D, S, E)
  <1> DEFINE M == ToSet(w.u.machinesMap)
             F == {v \in M : FreeVM(w, v)}
             Q == ToSet(w.u.containerWaitingQueue)
  <1>0. JobsRight(u, w, E) /\ MachinesRight(w) /\ RequestsRight(u, w, R, D, S) /\ FinalizingRight(w)
    BY DEF UserRight
  <1>1. IsInjective(w.u.containerWaitingQueue) /\ IsInjective(w.u.machinesMap)
    BY <1>0 DEF JobsRight, MachinesRight
  <1>2. PICK a : a = AssignJobs(w)
    OBVIOUS
  <1>b. PICK J, h, c : Assigns(w, a, J, h, c)
    BY <1>1, <1>2, AssignFacts
  <1>3. /\ J \in SUBSET Q /\ h \in [J -> F] /\ c \in Seq(Jobs)
        /\ \A j, k \in J : h[j] = h[k] => j = k
        /\ IsInjective(c) /\ ToSet(c) = Q \ J
        /\ J = {} => c = w.u.containerWaitingQueue
        /\ \E o \in Seq(Requests) :
              IsInjective(o) /\ ToSet(o) = {Storage(j) : j \in J} /\ TakesJobs(w, a, J, h, c, o)
    BY <1>b DEF Assigns
  <1>4. /\ w.vm \in [VMs -> VmStates] /\ w.out \in Seq(Requests) /\ Q \subseteq Jobs /\ M \subseteq VMs
        /\ w.u.waitingForStorage \subseteq Jobs /\ w.u.containerRunningQueue \subseteq Jobs
        /\ w.u.vms_waiting_remote_st \in [VMs -> Nat] /\ w.u.machine \in [Jobs -> 0 .. MaxVMs]
    BY WorldParts
  <1>5. /\ J \subseteq Jobs /\ Q \subseteq MyJobs(u) /\ J \subseteq MyJobs(u)
        /\ J \cap (Assigned(w) \cup E) = {}
    BY <1>0, <1>3, <1>4 DEF JobsRight
  <1>6. \A j \in J : h[j] \in M /\ h[j] \in VMs /\ FreeVM(w, h[j])
    BY <1>3, <1>4
  <1>7. /\ a \in Worlds /\ a.u.containerWaitingQueue = c
        /\ a.u.waitingForStorage = w.u.waitingForStorage \cup J
        /\ a.u.containerRunningQueue = w.u.containerRunningQueue
        /\ a.u.machinesMap = w.u.machinesMap
        /\ \A j \in J : a.u.machine[j] = h[j]
        /\ \A j \in Jobs \ J : a.u.machine[j] = w.u.machine[j]
        /\ a.u.pending_shutdown_requests = w.u.pending_shutdown_requests
        /\ a.u.userFinalizing = w.u.userFinalizing
        /\ Sends(w, a, {Storage(j) : j \in J})
    BY <1>3, <1>5 DEF TakesJobs, Sends
  <1>8. /\ \A j \in J : a.u.vms_waiting_remote_st[h[j]] = w.u.vms_waiting_remote_st[h[j]] + 1
        /\ \A v \in VMs : (\A j \in J : h[j] # v) =>
              a.u.vms_waiting_remote_st[v] = w.u.vms_waiting_remote_st[v]
    BY <1>3, <1>6 DEF TakesJobs
  <1>9. /\ \A j \in J : a.vm[h[j]].state = "idle" /\ a.vm[h[j]].pending = "PENDING_STORAGE"
                        /\ w.vm[h[j]].state = "idle" /\ w.vm[h[j]].pending = "NOT_PENDING_OPS"
        /\ \A v \in VMs : (\A j \in J : h[j] # v) => a.vm[v] = w.vm[v]
    BY <1>3, <1>6 DEF TakesJobs, Marks, FreeVM
  <1>10. /\ SameMap(w, a) /\ \A v \in VMs : a.vm[v].state = w.vm[v].state
         /\ \A v \in VMs \ M : a.vm[v] = w.vm[v]
    <2>1. SameMap(w, a)
      BY <1>3 DEF TakesJobs, SameMap
    <2>2. \A v \in VMs : a.vm[v].state = w.vm[v].state
      BY <1>9
    <2>3. \A v \in VMs \ M : a.vm[v] = w.vm[v]
      BY <1>6, <1>9
    <2>4. QED
      BY <2>1, <2>2, <2>3
  <1>11. Assigned(a) = Assigned(w) \cup J /\ Assigned(w) \subseteq Jobs
    BY <1>4, <1>7 DEF Assigned
  <1>12. JobsRight(u, a, E)
    <2>1. IsInjective(a.u.containerWaitingQueue) /\ ToSet(a.u.containerWaitingQueue) = Q \ J
      BY <1>3, <1>7
    <2>2. /\ Q \cap (Assigned(w) \cup E) = {} /\ w.u.containerRunningQueue \cap E = {}
          /\ w.u.waitingForStorage \cap (w.u.containerRunningQueue \cup E) = {}
          /\ Q \cup Assigned(w) \subseteq MyJobs(u) /\ MyJobs(u) \subseteq Q \cup Assigned(w) \cup E
          /\ w.u.containerRunningQueue \subseteq Assigned(w)
      BY <1>0 DEF JobsRight, Assigned
    <2> HIDE DEF Q
    <2>3. QED
      BY <1>3, <1>5, <1>7, <1>11, <2>1, <2>2 DEF JobsRight
  <1>13. /\ \A j \in Assigned(w) : a.u.machine[j] = w.u.machine[j] /\ \A k \in J : h[k] # a.u.machine[j]
         /\ \A j \in w.u.waitingForStorage : j \in Assigned(w)
         /\ \A j \in w.u.containerRunningQueue : j \in Assigned(w)
    <2>1. \A j \in Assigned(w) : \A k \in J : h[k] # w.u.machine[j]
      BY <1>0, <1>6, FreeIsUnused
    <2>2. \A j \in Assigned(w) : a.u.machine[j] = w.u.machine[j]
      BY <1>5, <1>7, <1>11
    <2>3. QED
      BY <2>1, <2>2 DEF Assigned
  <1>14. MachinesRight(a)
    <2>1. \A j \in Assigned(w) : w.u.machine[j] \in M /\ w.u.machine[j] \in VMs
      BY <1>0, <1>4 DEF MachinesRight
    <2>2. \A j \in Assigned(a) : a.u.machine[j] \in ToSet(a.u.machinesMap)
      BY <1>6, <1>7, <1>11, <1>13, <2>1
    <2>3. \A j, k \in Assigned(a) : a.u.machine[j] = a.u.machine[k] => j = k
      <3>1. \A j, k \in Assigned(w) : w.u.machine[j] = w.u.machine[k] => j = k
        BY <1>0 DEF MachinesRight
      <3>2. QED
        BY <1>3, <1>7, <1>11, <1>13, <3>1
    <2>4. \A v \in VMs : w.u.vms_waiting_remote_st[v] # 0 =>
                            \E j \in w.u.waitingForStorage : w.u.machine[j] = v
      BY <1>0 DEF MachinesRight
    <2>5. \A j \in a.u.waitingForStorage :
              /\ a.vm[a.u.machine[j]].state = "idle"
              /\ a.vm[a.u.machine[j]].pending = "PENDING_STORAGE"
              /\ a.u.vms_waiting_remote_st[a.u.machine[j]] = 1
      <3>1. ASSUME NEW j \in J PROVE a.u.vms_waiting_remote_st[h[j]] = 1
        <4>1. w.u.vms_waiting_remote_st[h[j]] = 0
          BY <1>6, <1>13, <2>4
        <4>2. QED
          BY <1>8, <4>1
      <3>2. ASSUME NEW j \in w.u.waitingForStorage
            PROVE  /\ a.vm[a.u.machine[j]].state = "idle"
                   /\ a.vm[a.u.machine[j]].pending = "PENDING_STORAGE"
                   /\ a.u.vms_waiting_remote_st[a.u.machine[j]] = 1
        BY <1>0, <1>8, <1>9, <1>13, <2>1 DEF MachinesRight
      <3>3. QED
        BY <1>7, <1>9, <3>1, <3>2
    <2>6. \A j \in a.u.containerRunningQueue :
              /\ a.vm[a.u.machine[j]].state = "running"
              /\ a.vm[a.u.machine[j]].pending = "NOT_PENDING_OPS"
      BY <1>0, <1>7, <1>9, <1>13, <2>1 DEF MachinesRight
    <2>7. \A v \in VMs : a.u.vms_waiting_remote_st[v] # 0 =>
              \E j \in a.u.waitingForStorage : a.u.machine[j] = v
      BY <1>7, <1>8, <1>13, <2>4
    <2>8. ASSUME NEW v \in ToSet(a.u.machinesMap)
          PROVE  /\ a.vm[v].state = "off" => a.vm[v].pending = "NOT_PENDING_OPS"
                 /\ a.vm[v].state = "running" => \E j \in a.u.containerRunningQueue : a.u.machine[j] = v
                 /\ a.vm[v].pending = "PENDING_STORAGE" => \E j \in a.u.waitingForStorage : a.u.machine[j] = v
                 /\ a.vm[v].pending = "PENDING_SHUTDOWN" => a.vm[v].state = "idle"
      <3>1. CASE \E j \in J : h[j] = v
        BY <1>7, <1>9, <3>1
      <3>2. CASE \A j \in J : h[j] # v
        <4>1. v \in M /\ a.vm[v] = w.vm[v]
          BY <1>4, <1>7, <1>9, <3>2
        <4>2. QED
          BY <1>0, <1>7, <1>13, <4>1 DEF MachinesRight
      <3>3. QED
        BY <3>1, <3>2
    <2>9. QED
      BY <1>1, <1>7, <2>2, <2>3, <2>5, <2>6, <2>7, <2>8 DEF MachinesRight
  <1>15. Marked(a) = Marked(w)
    <2>1. \A v \in M : a.vm[v].pending = "PENDING_SHUTDOWN" <=> w.vm[v].pending = "PENDING_SHUTDOWN"
      BY <1>4, <1>9
    <2>2. QED
      BY <1>7, <2>1 DEF Marked
  <1>16. RequestsRight(u, a, R, D, S)
    <2>1. /\ ToSet(a.out) = ToSet(w.out) \cup {Storage(j) : j \in J}
          /\ IsInjective(w.out) /\ ToSet(w.out) \cap {Storage(j) : j \in J} = {} => IsInjective(a.out)
      BY <1>7, SendsFacts
    <2>2. \A j \in J : j \notin w.u.waitingForStorage /\ Storage(j) \notin Asks(w, R) /\ j \notin S
      BY <1>0, <1>5 DEF RequestsRight, Assigned
    <2>3. \A j \in Jobs : Storage(j) \in Asks(a, R) <=> Storage(j) \in Asks(w, R) \/ j \in J
      BY <1>5, <2>1, RequestsApart DEF Asks
    <2>4. \A v \in VMs : Free(v) \in Asks(a, R) <=> Free(v) \in Asks(w, R)
      BY <1>5, <2>1, RequestsApart DEF Asks
    <2>5. Abandon(u) \in Asks(a, R) <=> Abandon(u) \in Asks(w, R)
      BY <1>5, <2>1, RequestsApart DEF Asks
    <2>6. IsInjective(a.out) /\ ToSet(a.out) \cap R = {}
      BY <1>0, <2>1, <2>2 DEF RequestsRight, Asks
    <2>7. ToSet(a.out) \subseteq {Storage(j) : j \in MyJobs(u)} \cup {Free(v) : v \in ToSet(a.u.machinesMap)}
                              \cup {Abandon(u)}
      BY <1>0, <1>5, <1>7, <2>1 DEF RequestsRight
    <2>8. MyJobs(u) \subseteq Jobs
      BY CloudAssumption DEF MyJobs, ToSet
    <2>9. \A j \in MyJobs(u) :
              /\ j \in a.u.waitingForStorage <=> (Storage(j) \in Asks(a, R) \/ j \in S)
              /\ ~(Storage(j) \in Asks(a, R) /\ j \in S)
      BY <1>0, <1>7, <2>2, <2>3, <2>8 DEF RequestsRight
    <2>10. QED
      BY <1>0, <1>4, <1>7, <1>15, <2>4, <2>5, <2>6, <2>7, <2>9 DEF RequestsRight
  <1>17. FinalizingRight(a)
    <2>1. SUFFICES ASSUME w.u.userFinalizing PROVE FinalizingRight(a)
      BY <1>7 DEF FinalizingRight
    <2>2. w.u.containerWaitingQueue = <<>> /\ Q = {}
      BY <1>0, <2>1 DEF FinalizingRight, ToSet
    <2>3. J = {} /\ c = <<>>
      BY <1>3, <2>2
    <2>4. Assigned(a) = {}
      BY <1>0, <1>11, <2>1, <2>3 DEF FinalizingRight
    <2>5. QED
      BY <1>0, <1>4, <1>7, <1>10, <2>1, <2>3, <2>4 DEF FinalizingRight
  <1>18. w.u.machinesMap = <<>> =>
            a.u.containerWaitingQueue = w.u.containerWaitingQueue /\ a.out = w.out
    <2>1. w.u.machinesMap = <<>> => M = {}
      BY DEF ToSet
    <2>2. w.u.machinesMap = <<>> => J = {}
      BY <1>6, <2>1
    <2>3. J = {} => {Storage(j) : j \in J} = {}
      OBVIOUS
    <2>4. QED
      BY <1>3, <1>7, <2>2, <2>3, SendsFacts
  <1>19. Kept(u, w, a, R, D, S, E)
    BY <1>7, <1>10, <1>12, <1>14, <1>16, <1>17, <1>18 DEF Kept, Frame, UserRight
  <1>20. QED
    BY <1>2, <1>19

\* The machines of a user are finitely many.
LEMMA MarkedFinite ==
    ASSUME NEW w \in Worlds, IsInjective(w.u.machinesMap)
    PROVE  /\ IsFiniteSet(ToSet(w.u.machinesMap)) /\ IsFiniteSet(Marked(w))
           /\ Cardinality(Marked(w)) \in Nat
  <1>1. IsFiniteSet(ToSet(w.u.machinesMap))
    BY WorldParts, OnceCounted
  <1>2. Marked(w) \subseteq ToSet(w.u.machinesMap)
    BY DEF Marked
  <1>3. QED
    BY <1>1, <1>2, FS_Subset, FS_CardinalityType

\* Requesting the shutdown of free machines keeps the books.
LEMMA ShutdownKept ==
    ASSUME NEW u \in Users, NEW w \in Worlds, NEW R, NEW D, NEW S, NEW E,
           UserRight(u, w, R, D, S, E), NEW a, NEW X, Shuts(w, a, X),
           \A v \in X : v \in ToSet(w.u.machinesMap) /\ FreeVM(w, v)
    PROVE  Kept(u, w, a, R, D, S, E)
  <1> DEFINE M == ToSet(w.u.machinesMap)
  <1>0. JobsRight(u, w, E) /\ MachinesRight(w) /\ RequestsRight(u, w, R, D, S) /\ FinalizingRight(w)
    BY DEF UserRight
  <1>1. /\ a \in Worlds /\ SameJobs(w, a) /\ SameMap(w, a) /\ X \subseteq VMs /\ IsFiniteSet(X)
        /\ a.u.pending_shutdown_requests = w.u.pending_shutdown_requests + Cardinality(X)
        /\ Sends(w, a, {Free(v) : v \in X})
    BY DEF Shuts
  <1>2. /\ a.u.containerWaitingQueue = w.u.containerWaitingQueue
        /\ a.u.waitingForStorage = w.u.waitingForStorage
        /\ a.u.containerRunningQueue = w.u.containerRunningQueue
        /\ a.u.machine = w.u.machine
        /\ a.u.vms_waiting_remote_st = w.u.vms_waiting_remote_st
        /\ a.u.machinesMap = w.u.machinesMap /\ a.u.userFinalizing = w.u.userFinalizing
    BY <1>1 DEF SameJobs, SameMap
  <1>3. /\ w.vm \in [VMs -> VmStates] /\ w.out \in Seq(Requests) /\ M \subseteq VMs
        /\ w.u.waitingForStorage \subseteq Jobs /\ w.u.containerRunningQueue \subseteq Jobs
    BY WorldParts
  <1>4. /\ \A v \in X : /\ v \in M /\ a.vm[v].state = "idle" /\ a.vm[v].pending = "PENDING_SHUTDOWN"
                        /\ w.vm[v].state = "idle" /\ w.vm[v].pending = "NOT_PENDING_OPS"
        /\ \A v \in VMs \ X : a.vm[v] = w.vm[v]
    BY DEF Shuts, Marks, FreeVM
  <1>5. /\ \A v \in VMs : a.vm[v].state = w.vm[v].state
        /\ \A v \in VMs \ M : a.vm[v] = w.vm[v]
    BY <1>4
  <1>6. Assigned(a) = Assigned(w)
    BY <1>2 DEF Assigned
  <1>7. JobsRight(u, a, E)
    BY <1>0, <1>2, <1>6 DEF JobsRight
  <1>8. \A j \in Assigned(w) : w.u.machine[j] \notin X /\ w.u.machine[j] \in VMs
    BY <1>0, <1>3, FreeIsUnused DEF MachinesRight
  <1>9. MachinesRight(a)
    <2>1. \A j \in Assigned(w) : a.vm[w.u.machine[j]] = w.vm[w.u.machine[j]]
      BY <1>4, <1>8
    <2>2. \A j \in a.u.waitingForStorage :
              /\ a.vm[a.u.machine[j]].state = "idle"
              /\ a.vm[a.u.machine[j]].pending = "PENDING_STORAGE"
              /\ a.u.vms_waiting_remote_st[a.u.machine[j]] = 1
      BY <1>0, <1>2, <2>1 DEF MachinesRight, Assigned
    <2>3. \A j \in a.u.containerRunningQueue :
              /\ a.vm[a.u.machine[j]].state = "running"
              /\ a.vm[a.u.machine[j]].pending = "NOT_PENDING_OPS"
      BY <1>0, <1>2, <2>1 DEF MachinesRight, Assigned
    <2>4. ASSUME NEW v \in ToSet(a.u.machinesMap)
          PROVE  /\ a.vm[v].state = "off" => a.vm[v].pending = "NOT_PENDING_OPS"
                 /\ a.vm[v].state = "running" => \E j \in a.u.containerRunningQueue : a.u.machine[j] = v
                 /\ a.vm[v].pending = "PENDING_STORAGE" => \E j \in a.u.waitingForStorage : a.u.machine[j] = v
                 /\ a.vm[v].pending = "PENDING_SHUTDOWN" => a.vm[v].state = "idle"
      <3>1. CASE v \in X
        BY <1>4, <3>1
      <3>2. CASE v \notin X
        <4>1. v \in M /\ a.vm[v] = w.vm[v]
          BY <1>2, <1>3, <1>4, <3>2
        <4>2. QED
          BY <1>0, <1>2, <4>1 DEF MachinesRight
      <3>3. QED
        BY <3>1, <3>2
    <2>5. /\ IsInjective(a.u.machinesMap)
          /\ \A j \in Assigned(a) : a.u.machine[j] \in ToSet(a.u.machinesMap)
          /\ \A j, k \in Assigned(a) : a.u.machine[j] = a.u.machine[k] => j = k
      BY <1>0, <1>2, <1>6 DEF MachinesRight
    <2>6. \A v \in VMs : a.u.vms_waiting_remote_st[v] # 0 =>
             \E j \in a.u.waitingForStorage : a.u.machine[j] = v
      BY <1>0, <1>2 DEF MachinesRight
    <2>7. QED
      BY <2>2, <2>3, <2>4, <2>5, <2>6 DEF MachinesRight
  <1>10. Marked(a) = Marked(w) \cup X /\ Marked(w) \cap X = {}
    <2>1. \A v \in M : a.vm[v].pending = "PENDING_SHUTDOWN" <=> w.vm[v].pending = "PENDING_SHUTDOWN" \/ v \in X
      BY <1>3, <1>4
    <2>2. QED
      BY <1>2, <1>4, <2>1 DEF Marked
  <1>11. RequestsRight(u, a, R, D, S)
    <2>1. /\ ToSet(a.out) = ToSet(w.out) \cup {Free(v) : v \in X}
          /\ IsInjective(w.out) /\ ToSet(w.out) \cap {Free(v) : v \in X} = {} => IsInjective(a.out)
      BY <1>1, SendsFacts
    <2>2. \A v \in X : v \notin Marked(w) /\ Free(v) \notin Asks(w, R) /\ v \notin D
      BY <1>0, <1>4, <1>10 DEF RequestsRight
    <2>3. \A v \in VMs : Free(v) \in Asks(a, R) <=> Free(v) \in Asks(w, R) \/ v \in X
      BY <1>1, <2>1, RequestsApart DEF Asks
    <2>4. \A j \in Jobs : Storage(j) \in Asks(a, R) <=> Storage(j) \in Asks(w, R)
      BY <1>1, <2>1, RequestsApart DEF Asks
    <2>5. Abandon(u) \in Asks(a, R) <=> Abandon(u) \in Asks(w, R)
      BY <1>1, <2>1, RequestsApart DEF Asks
    <2>6. IsInjective(a.out) /\ ToSet(a.out) \cap R = {}
      BY <1>0, <2>1, <2>2 DEF RequestsRight, Asks
    <2>7. ToSet(a.out) \subseteq {Storage(j) : j \in MyJobs(u)} \cup {Free(v) : v \in ToSet(a.u.machinesMap)}
                              \cup {Abandon(u)}
      BY <1>0, <1>2, <1>4, <2>1 DEF RequestsRight
    <2>8. MyJobs(u) \subseteq Jobs
      BY CloudAssumption DEF MyJobs, ToSet
    <2>9. \A v \in ToSet(a.u.machinesMap) :
              /\ v \in Marked(a) <=> (Free(v) \in Asks(a, R) \/ v \in D)
              /\ ~(Free(v) \in Asks(a, R) /\ v \in D)
      BY <1>0, <1>2, <1>3, <1>10, <2>2, <2>3 DEF RequestsRight
    <2>10. a.u.pending_shutdown_requests = Cardinality(Marked(a))
      <3>1. IsFiniteSet(Marked(w)) /\ Cardinality(Marked(w)) \in Nat
        BY <1>0, MarkedFinite DEF MachinesRight
      <3>2. Cardinality(Marked(w) \cup X)
              = Cardinality(Marked(w)) + Cardinality(X) - Cardinality(Marked(w) \cap X)
        BY <1>1, <3>1, FS_Union
      <3>3. Cardinality(Marked(w) \cap X) = 0 /\ Cardinality(X) \in Nat
        BY <1>1, <1>10, FS_EmptySet, FS_CardinalityType
      <3>4. w.u.pending_shutdown_requests = Cardinality(Marked(w))
        BY <1>0 DEF RequestsRight
      <3>5. QED
        BY <1>1, <1>10, <3>1, <3>2, <3>3, <3>4
    <2>11. QED
      BY <1>0, <1>2, <2>4, <2>5, <2>6, <2>7, <2>8, <2>9, <2>10 DEF RequestsRight
  <1>12. FinalizingRight(a)
    BY <1>0, <1>2, <1>3, <1>5, <1>6 DEF FinalizingRight
  <1>13. w.u.machinesMap = <<>> =>
            a.u.containerWaitingQueue = w.u.containerWaitingQueue /\ a.out = w.out
    <2>1. w.u.machinesMap = <<>> => M = {}
      BY DEF ToSet
    <2>2. w.u.machinesMap = <<>> => {Free(v) : v \in X} = {}
      BY <1>4, <2>1
    <2>3. QED
      BY <1>1, <1>2, <2>2, SendsFacts
  <1>14. QED
    BY <1>1, <1>5, <1>7, <1>9, <1>11, <1>12, <1>13 DEF Kept, Frame, UserRight

\* A frame is kept by two handlers, one after the other.
LEMMA FrameTwice ==
    ASSUME NEW w, NEW a, NEW b, Frame(w, a), Frame(a, b)
    PROVE  Frame(w, b)
  <1>1. a.u.machinesMap = w.u.machinesMap /\ SameMap(w, b)
    BY DEF Frame, SameMap
  <1>2. QED
    BY <1>1 DEF Frame

\* What two steps of a handler keep, the handler keeps.
LEMMA KeptTwice ==
    ASSUME NEW u, NEW w, NEW a, NEW b, NEW R, NEW D, NEW S, NEW E,
           Frame(w, a), Kept(u, a, b, R, D, S, E)
    PROVE  Kept(u, w, b, R, D, S, E)
  BY FrameTwice DEF Kept

\* The order in which jobs wait is no matter of the books.
LEMMA RotateKept ==
    ASSUME NEW u \in Users, NEW w \in Worlds, NEW R, NEW D, NEW S, NEW E,
           UserRight(u, w, R, D, S, E), NEW c \in Seq(Jobs), IsInjective(c),
           ToSet(c) = ToSet(w.u.containerWaitingQueue), c # <<>>,
           w.u.machinesMap # <<>>, w.u.containerWaitingQueue # <<>>
    PROVE  Kept(u, w, [w EXCEPT !.u.containerWaitingQueue = c], R, D, S, E)
  <1>1. PICK a : a = [w EXCEPT !.u.containerWaitingQueue = c]
    OBVIOUS
  <1>2. a \in Worlds
    BY <1>1 DEF Worlds, UserState
  <1>3. /\ a.u.containerWaitingQueue = c
        /\ a.u.waitingForStorage = w.u.waitingForStorage
        /\ a.u.containerRunningQueue = w.u.containerRunningQueue
        /\ a.u.machine = w.u.machine
        /\ a.u.vms_waiting_remote_st = w.u.vms_waiting_remote_st
        /\ a.u.machinesMap = w.u.machinesMap
        /\ a.u.pendingVmsAtStartup = w.u.pendingVmsAtStartup
        /\ a.u.pending_shutdown_requests = w.u.pending_shutdown_requests
        /\ a.u.userFinalizing = w.u.userFinalizing
        /\ a.vm = w.vm /\ a.out = w.out
    BY <1>1 DEF Worlds, UserState
  <1>4. Assigned(a) = Assigned(w) /\ Marked(a) = Marked(w) /\ Asks(a, R) = Asks(w, R)
    BY <1>3 DEF Assigned, Marked, Asks
  <1>5. JobsRight(u, w, E) /\ MachinesRight(w) /\ RequestsRight(u, w, R, D, S) /\ FinalizingRight(w)
    BY DEF UserRight
  <1>6. JobsRight(u, a, E)
    BY <1>3, <1>4, <1>5 DEF JobsRight
  <1>7. MachinesRight(a)
    BY <1>3, <1>5, MachinesMoved
  <1>8. RequestsRight(u, a, R, D, S)
    BY <1>3, <1>4, <1>5 DEF RequestsRight
  <1>9. FinalizingRight(a)
    BY <1>3, <1>4, <1>5 DEF FinalizingRight
  <1>10. QED
    BY <1>1, <1>2, <1>3, <1>6, <1>7, <1>8, <1>9 DEF Kept, Frame, UserRight, SameMap

\* GeneralUser::schedule keeps the books.
LEMMA ScheduleKept ==
    ASSUME NEW u \in Users, NEW w \in Worlds, NEW R, NEW D, NEW S, NEW E,
           UserRight(u, w, R, D, S, E)
    PROVE  Kept(u, w, Schedule(w), R, D, S, E)
  <1>1. PICK a : a = AssignJobs(w)
    OBVIOUS
  <1>2. Kept(u, w, a, R, D, S, E)
    BY <1>1, AssignKept
  <1>3. a \in Worlds /\ UserRight(u, a, R, D, S, E)
    BY <1>2 DEF Kept, Frame
  <1>4. /\ a.u.containerWaitingQueue \in Seq(Jobs) /\ IsInjective(a.u.containerWaitingQueue)
        /\ a.u.machinesMap \in Seq(VMs) /\ IsInjective(a.u.machinesMap)
    BY <1>3, WorldParts DEF UserRight, JobsRight, MachinesRight
  <1> DEFINE cwq == a.u.containerWaitingQueue
             on == \E v \in ToSet(a.u.machinesMap) : a.vm[v].state # "off"
             idle == Filter(FreeVMs(a), {v \in VMs : Processes(a, v) = {}})
  <1>5. Schedule(w) = IF cwq # <<>>
                      THEN IF on THEN [a EXCEPT !.u.containerWaitingQueue = Append(Tail(cwq), Head(cwq))]
                           ELSE a
                      ELSE ShutdownVMs(a, idle)
    BY <1>1 DEF Schedule
  <1>6. CASE cwq # <<>> /\ ~on
    BY <1>2, <1>5, <1>6
  <1>7. CASE cwq # <<>> /\ on
    <2>1. a.u.machinesMap # <<>>
      BY <1>7 DEF ToSet
    <2>2. PICK c : c = Append(Tail(cwq), Head(cwq))
      OBVIOUS
    <2>3. c \in Seq(Jobs) /\ IsInjective(c) /\ ToSet(c) = ToSet(cwq) /\ c # <<>>
      BY <1>4, <1>7, <2>2, RotateOnce
    <2>4. Kept(u, a, [a EXCEPT !.u.containerWaitingQueue = c], R, D, S, E)
      BY <1>3, <1>7, <2>1, <2>3, RotateKept
    <2>5. QED
      BY <1>2, <1>5, <1>7, <2>2, <2>4, KeptTwice DEF Kept
  <1>8. CASE cwq = <<>>
    <2>1. /\ FreeVMs(a) \in Seq(VMs) /\ IsInjective(FreeVMs(a))
          /\ ToSet(FreeVMs(a)) = ToSet(a.u.machinesMap) \cap {v \in VMs : FreeVM(a, v)}
      BY <1>4, FilterFacts DEF FreeVMs
    <2>2. idle \in Seq(VMs) /\ IsInjective(idle) /\ ToSet(idle) \subseteq ToSet(FreeVMs(a))
      BY <2>1, FilterFacts
    <2> HIDE DEF idle
    <2> DEFINE X == {v \in ToSet(idle) : a.vm[v].state # "off"}
    <2>3. Shuts(a, ShutdownVMs(a, idle), X)
      BY <1>3, <2>2, ShutdownShuts
    <2>4. \A v \in X : v \in ToSet(a.u.machinesMap) /\ FreeVM(a, v)
      BY <2>1, <2>2
    <2> HIDE DEF X
    <2>5. Kept(u, a, ShutdownVMs(a, idle), R, D, S, E)
      BY <1>3, <2>3, <2>4, ShutdownKept
    <2>6. QED
      BY <1>2, <1>5, <1>8, <2>5, KeptTwice DEF Kept
  <1>9. QED
    BY <1>6, <1>7, <1>8

\* A user that waits to leave does not schedule.
LEMMA ScheduleUnlessKept ==
    ASSUME NEW u \in Users, NEW w \in Worlds, NEW R, NEW D, NEW S, NEW E,
           UserRight(u, w, R, D, S, E)
    PROVE  Kept(u, w, ScheduleUnlessFinalizing(w), R, D, S, E)
  <1>1. Kept(u, w, w, R, D, S, E)
    BY DEF Kept, Frame, SameMap
  <1>2. QED
    BY <1>1, ScheduleKept DEF ScheduleUnlessFinalizing

\* start_up_container_job_execution for the jobs Y, each on a machine of its own.
Starts(w, a, Y) ==
    /\ a \in Worlds /\ SameMap(w, a)
    /\ a.u.containerWaitingQueue = w.u.containerWaitingQueue
    /\ a.u.waitingForStorage = w.u.waitingForStorage \ Y
    /\ a.u.containerRunningQueue = w.u.containerRunningQueue \cup Y
    /\ a.u.machine = w.u.machine
    /\ a.u.vms_waiting_remote_st = w.u.vms_waiting_remote_st
    /\ a.u.pending_shutdown_requests = w.u.pending_shutdown_requests
    /\ a.out = w.out
    /\ \A v \in VMs : a.vm[v].pending = w.vm[v].pending
    /\ \A j \in Y : a.vm[w.u.machine[j]].state = "running"
    /\ \A v \in VMs : (\A j \in Y : w.u.machine[j] # v) => a.vm[v] = w.vm[v]

\* executePendingJobs starts the jobs whose storage is there.
LEMMA ExecuteStarts ==
    ASSUME NEW w \in Worlds, \A j \in w.u.waitingForStorage : w.u.machine[j] \in VMs
    PROVE  Starts(w, ExecutePendingJobs(w),
                  {j \in w.u.waitingForStorage : w.u.vms_waiting_remote_st[w.u.machine[j]] = 0})
  <1> DEFINE Y == {j \in w.u.waitingForStorage : w.u.vms_waiting_remote_st[w.u.machine[j]] = 0}
             U == {w.u.machine[j] : j \in Y}
             vms == [v \in VMs |-> IF v \in U THEN [w.vm[v] EXCEPT !.state = "running"] ELSE w.vm[v]]
             f == w.u.waitingForStorage \ Y
             r == w.u.containerRunningQueue \cup Y
  <1>1. PICK a : a = ExecutePendingJobs(w)
    OBVIOUS
  <1>2. a = [w EXCEPT !.u.waitingForStorage = f, !.u.containerRunningQueue = r, !.vm = vms]
    BY <1>1 DEF ExecutePendingJobs
  <1>3. /\ w.vm \in [VMs -> VmStates] /\ w.u.waitingForStorage \subseteq Jobs
        /\ w.u.containerRunningQueue \subseteq Jobs
    BY WorldParts
  <1>4. f \in SUBSET Jobs /\ r \in SUBSET Jobs /\ Y \subseteq Jobs /\ \A j \in Y : w.u.machine[j] \in VMs
    BY <1>3
  <1> HIDE DEF Y
  <1>5. /\ vms \in [VMs -> VmStates]
        /\ \A v \in VMs : /\ vms[v].pending = w.vm[v].pending
                          /\ v \in U => vms[v].state = "running"
                          /\ v \notin U => vms[v] = w.vm[v]
    <2>1. ASSUME NEW x \in VmStates
          PROVE  /\ [x EXCEPT !.state = "running"] \in VmStates
                 /\ [x EXCEPT !.state = "running"].state = "running"
                 /\ [x EXCEPT !.state = "running"].pending = x.pending
      BY DEF VmStates
    <2>2. \A v \in VMs : w.vm[v] \in VmStates
      BY <1>3
    <2> HIDE DEF U
    <2>3. QED
      BY <2>1, <2>2
  <1> HIDE DEF vms, f, r
  <1>6. a \in Worlds
    BY <1>2, <1>4, <1>5 DEF Worlds, UserState
  <1>7. /\ a.u.containerWaitingQueue = w.u.containerWaitingQueue
        /\ a.u.waitingForStorage = f /\ a.u.containerRunningQueue = r
        /\ a.u.machine = w.u.machine
        /\ a.u.vms_waiting_remote_st = w.u.vms_waiting_remote_st
        /\ a.u.machinesMap = w.u.machinesMap
        /\ a.u.pendingVmsAtStartup = w.u.pendingVmsAtStartup
        /\ a.u.pending_shutdown_requests = w.u.pending_shutdown_requests
        /\ a.u.userFinalizing = w.u.userFinalizing
        /\ a.vm = vms /\ a.out = w.out
    BY <1>2 DEF Worlds, UserState
  <1>8. /\ \A v \in VMs : a.vm[v].pending = w.vm[v].pending
        /\ \A j \in Y : a.vm[w.u.machine[j]].state = "running"
        /\ \A v \in VMs : (\A j \in Y : w.u.machine[j] # v) => a.vm[v] = w.vm[v]
    BY <1>4, <1>5, <1>7
  <1>9. Starts(w, a, Y)
    BY <1>6, <1>7, <1>8 DEF Starts, SameMap, f, r
  <1>10. QED
    BY <1>1, <1>9 DEF Y

\* When every job that waits is due, execution of the pending jobs starts none.
LEMMA NothingStarts ==
    ASSUME NEW u \in Users, NEW w \in Worlds, NEW R, NEW D, NEW S, NEW E,
           UserRight(u, w, R, D, S, E)
    PROVE  Kept(u, w, ExecutePendingJobs(w), R, D, S, E)
  <1>1. JobsRight(u, w, E) /\ MachinesRight(w) /\ RequestsRight(u, w, R, D, S) /\ FinalizingRight(w)
    BY DEF UserRight
  <1>2. ToSet(w.u.machinesMap) \subseteq VMs
    BY WorldParts
  <1>3. \A j \in w.u.waitingForStorage :
            w.u.machine[j] \in VMs /\ w.u.vms_waiting_remote_st[w.u.machine[j]] = 1
    BY <1>1, <1>2 DEF MachinesRight, Assigned
  <1>4. PICK a : a = ExecutePendingJobs(w)
    OBVIOUS
  <1>5. Starts(w, a, {})
    <2>1. {j \in w.u.waitingForStorage : w.u.vms_waiting_remote_st[w.u.machine[j]] = 0} = {}
      BY <1>3
    <2>2. QED
      BY <1>3, <1>4, <2>1, ExecuteStarts
  <1>6. /\ a \in Worlds /\ a.u.containerWaitingQueue = w.u.containerWaitingQueue
        /\ a.u.waitingForStorage = w.u.waitingForStorage
        /\ a.u.containerRunningQueue = w.u.containerRunningQueue
        /\ a.u.machine = w.u.machine
        /\ a.u.vms_waiting_remote_st = w.u.vms_waiting_remote_st
        /\ a.u.machinesMap = w.u.machinesMap
        /\ a.u.pending_shutdown_requests = w.u.pending_shutdown_requests
        /\ a.u.userFinalizing = w.u.userFinalizing
        /\ a.out = w.out /\ SameMap(w, a) /\ \A v \in VMs : a.vm[v] = w.vm[v]
    BY <1>5 DEF Starts, SameMap
  <1>7. a.vm = w.vm
    <2>1. a.vm \in [VMs -> VmStates] /\ w.vm \in [VMs -> VmStates]
      BY <1>6, WorldParts
    <2>2. QED
      BY <1>6, <2>1
  <1>8. Assigned(a) = Assigned(w) /\ Marked(a) = Marked(w) /\ Asks(a, R) = Asks(w, R)
    BY <1>6, <1>7 DEF Assigned, Marked, Asks
  <1>9. JobsRight(u, a, E)
    BY <1>1, <1>6, <1>8 DEF JobsRight
  <1>10. MachinesRight(a)
    BY <1>1, <1>6, <1>7, MachinesMoved
  <1>11. RequestsRight(u, a, R, D, S)
    BY <1>1, <1>6, <1>8 DEF RequestsRight
  <1>12. FinalizingRight(a)
    BY <1>1, <1>6, <1>7, <1>8 DEF FinalizingRight
  <1>13. QED
    BY <1>4, <1>6, <1>9, <1>10, <1>11, <1>12 DEF Kept, UserRight, Frame

\* The handler of the alarm that a user set himself.
LEMMA SelfMessageKept ==
    ASSUME NEW u \in Users, NEW w \in Worlds, NEW R, NEW D, NEW S, NEW E,
           UserRight(u, w, R, D, S, E)
    PROVE  Kept(u, w, Schedule(ExecutePendingJobs(w)), R, D, S, E)
  <1>1. PICK a : a = ExecutePendingJobs(w)
    OBVIOUS
  <1>2. a \in Worlds /\ UserRight(u, a, R, D, S, E) /\ Frame(w, a)
    BY <1>1, NothingStarts DEF Kept
  <1>3. Kept(u, a, Schedule(a), R, D, S, E)
    BY <1>2, ScheduleKept
  <1>4. QED
    BY <1>1, <1>2, <1>3, KeptTwice

\* The last storage that the machine of job j waited for is there: its machine is idle.
StorageCame(w, b, v) ==
    /\ b \in Worlds /\ SameMap(w, b)
    /\ b.u.containerWaitingQueue = w.u.containerWaitingQueue
    /\ b.u.waitingForStorage = w.u.waitingForStorage
    /\ b.u.containerRunningQueue = w.u.containerRunningQueue
    /\ b.u.machine = w.u.machine
    /\ b.u.vms_waiting_remote_st[v] = 0
    /\ \A x \in VMs \ {v} : b.u.vms_waiting_remote_st[x] = w.u.vms_waiting_remote_st[x]
    /\ b.u.pending_shutdown_requests = w.u.pending_shutdown_requests
    /\ b.out = w.out
    /\ b.vm[v].state = "idle" /\ b.vm[v].pending = "NOT_PENDING_OPS"
    /\ \A x \in VMs \ {v} : b.vm[x] = w.vm[x]

\* The notification of the storage, seen as its arrival and what the handler then does.
LEMMA StorageComes ==
    ASSUME NEW w \in Worlds, NEW v \in VMs, w.u.vms_waiting_remote_st[v] = 1, NEW j \in Jobs,
           w.u.machine[j] = v
    PROVE  \E b : StorageCame(w, b, v) /\ StorageAttended(w, j)
                                            = ScheduleUnlessFinalizing(ExecutePendingJobs(b))
  <1>1. PICK a : a = [w EXCEPT !.u.vms_waiting_remote_st[v] = w.u.vms_waiting_remote_st[v] - 1]
    OBVIOUS
  <1>2. PICK b : b = [a EXCEPT !.vm[v] = [state |-> "idle", pending |-> "NOT_PENDING_OPS"]]
    OBVIOUS
  <1>3. /\ w.u.vms_waiting_remote_st \in [VMs -> Nat] /\ w.vm \in [VMs -> VmStates] /\ w.u \in UserState
    BY WorldParts
  <1> DEFINE f == [w.u.vms_waiting_remote_st EXCEPT ![v] = w.u.vms_waiting_remote_st[v] - 1]
             g == [w.vm EXCEPT ![v] = [state |-> "idle", pending |-> "NOT_PENDING_OPS"]]
  <1>4. f \in [VMs -> Nat] /\ f[v] = 0
        /\ \A x \in VMs \ {v} : f[x] = w.u.vms_waiting_remote_st[x]
    BY <1>3
  <1>5. /\ g \in [VMs -> VmStates] /\ g[v].state = "idle" /\ g[v].pending = "NOT_PENDING_OPS"
        /\ \A x \in VMs \ {v} : g[x] = w.vm[x]
    BY <1>3 DEF VmStates
  <1>6. a = [w EXCEPT !.u.vms_waiting_remote_st = f]
    BY <1>1 DEF Worlds, UserState
  <1> HIDE DEF f
  <1>7. a \in Worlds /\ a.vm = w.vm /\ a.out = w.out /\ a.u.vms_waiting_remote_st = f
    BY <1>4, <1>6 DEF Worlds, UserState
  <1>8. b = [a EXCEPT !.vm = g]
    BY <1>2, <1>7
  <1> HIDE DEF g
  <1>9. b \in Worlds /\ b.vm = g /\ b.u = a.u /\ b.out = w.out
    BY <1>5, <1>7, <1>8 DEF Worlds
  <1>10. /\ a.u.containerWaitingQueue = w.u.containerWaitingQueue
         /\ a.u.waitingForStorage = w.u.waitingForStorage
         /\ a.u.containerRunningQueue = w.u.containerRunningQueue
         /\ a.u.machine = w.u.machine
         /\ a.u.machinesMap = w.u.machinesMap
         /\ a.u.pendingVmsAtStartup = w.u.pendingVmsAtStartup
         /\ a.u.pending_shutdown_requests = w.u.pending_shutdown_requests
         /\ a.u.userFinalizing = w.u.userFinalizing
    BY <1>6 DEF Worlds, UserState
  <1>11. StorageCame(w, b, v)
    BY <1>4, <1>5, <1>7, <1>9, <1>10 DEF StorageCame, SameMap
  <1>12. StorageAttended(w, j) = ScheduleUnlessFinalizing(ExecutePendingJobs(b))
    BY <1>1, <1>2, <1>4, <1>7 DEF StorageAttended
  <1>13. QED
    BY <1>11, <1>12

\* The storage of a job is ready: the job runs.
LEMMA StorageKept ==
    ASSUME NEW u \in Users, NEW w \in Worlds, NEW R, NEW D, NEW S, NEW E,
           UserRight(u, w, R, D, S, E), NEW j \in MyJobs(u), j \in S
    PROVE  /\ w.u.vms_waiting_remote_st[w.u.machine[j]] = 1 /\ j \in w.u.waitingForStorage
           /\ Kept(u, w, StorageAttended(w, j), R, D, S \ {j}, E)
  <1> DEFINE v == w.u.machine[j]
             M == ToSet(w.u.machinesMap)
  <1>1. JobsRight(u, w, E) /\ MachinesRight(w) /\ RequestsRight(u, w, R, D, S) /\ FinalizingRight(w)
    BY DEF UserRight
  <1>2. /\ M \subseteq VMs /\ w.u.waitingForStorage \subseteq Jobs
        /\ w.u.containerRunningQueue \subseteq Jobs /\ MyJobs(u) \subseteq Jobs
    BY WorldParts, CloudAssumption DEF MyJobs, ToSet
  <1>3. j \in w.u.waitingForStorage /\ j \in Assigned(w) /\ j \in Jobs
    BY <1>1, <1>2 DEF RequestsRight, Assigned
  <1>4. /\ v \in M /\ v \in VMs /\ w.u.vms_waiting_remote_st[v] = 1
        /\ w.vm[v].state = "idle" /\ w.vm[v].pending = "PENDING_STORAGE"
    BY <1>1, <1>2, <1>3 DEF MachinesRight
  <1>5. \A k \in Assigned(w) : /\ w.u.machine[k] \in M /\ w.u.machine[k] \in VMs
                               /\ w.u.machine[k] = v => k = j
    BY <1>1, <1>2, <1>3 DEF MachinesRight
  <1>6. PICK b : StorageCame(w, b, v) /\ StorageAttended(w, j)
                                            = ScheduleUnlessFinalizing(ExecutePendingJobs(b))
    BY <1>3, <1>4, StorageComes
  <1>7. PICK a : a = ExecutePendingJobs(b)
    OBVIOUS
  <1>8. Starts(b, a, {j})
    <2>1. \A k \in b.u.waitingForStorage : b.u.machine[k] \in VMs
      BY <1>5, <1>6 DEF StorageCame, Assigned
    <2>2. {k \in b.u.waitingForStorage : b.u.vms_waiting_remote_st[b.u.machine[k]] = 0} = {j}
      <3>1. ASSUME NEW k \in w.u.waitingForStorage, k # j
            PROVE  b.u.vms_waiting_remote_st[w.u.machine[k]] = 1
        <4>1. k \in Assigned(w) /\ w.u.machine[k] # v /\ w.u.machine[k] \in VMs
              /\ w.u.vms_waiting_remote_st[w.u.machine[k]] = 1
          BY <1>1, <1>5, <3>1 DEF Assigned, MachinesRight
        <4>2. QED
          BY <1>6, <4>1 DEF StorageCame
      <3>2. b.u.vms_waiting_remote_st[w.u.machine[j]] = 0 /\ b.u.machine = w.u.machine
            /\ b.u.waitingForStorage = w.u.waitingForStorage
        BY <1>6 DEF StorageCame
      <3>3. QED
        BY <1>3, <3>1, <3>2
    <2>3. QED
      BY <1>6, <1>7, <2>1, <2>2, ExecuteStarts DEF StorageCame
  <1>9. /\ a \in Worlds /\ a.u.containerWaitingQueue = w.u.containerWaitingQueue
        /\ a.u.waitingForStorage = w.u.waitingForStorage \ {j}
        /\ a.u.containerRunningQueue = w.u.containerRunningQueue \cup {j}
        /\ a.u.machine = w.u.machine
        /\ a.u.vms_waiting_remote_st[v] = 0
        /\ \A x \in VMs \ {v} : a.u.vms_waiting_remote_st[x] = w.u.vms_waiting_remote_st[x]
        /\ a.u.machinesMap = w.u.machinesMap
        /\ a.u.pending_shutdown_requests = w.u.pending_shutdown_requests
        /\ a.u.userFinalizing = w.u.userFinalizing
        /\ a.out = w.out /\ SameMap(w, a)
    BY <1>6, <1>8 DEF Starts, SameMap, StorageCame
  <1>10. /\ a.vm[v].state = "running" /\ a.vm[v].pending = "NOT_PENDING_OPS"
         /\ \A x \in VMs \ {v} : a.vm[x] = w.vm[x]
    <2>1. b.u.machine = w.u.machine /\ b.vm[v].pending = "NOT_PENDING_OPS"
          /\ \A x \in VMs \ {v} : b.vm[x] = w.vm[x]
      BY <1>6 DEF StorageCame
    <2>2. QED
      BY <1>4, <1>8, <2>1 DEF Starts
  <1> HIDE DEF v
  <1>11. Assigned(a) = Assigned(w)
    BY <1>3, <1>9 DEF Assigned
  <1>12. w.u.waitingForStorage \cap w.u.containerRunningQueue = {}
    BY <1>1 DEF JobsRight
  <1>13. JobsRight(u, a, E)
    <2>1. w.u.waitingForStorage \cap E = {} /\ w.u.containerRunningQueue \cap E = {}
      BY <1>1 DEF JobsRight
    <2>2. /\ a.u.waitingForStorage \cap (a.u.containerRunningQueue \cup E) = {}
          /\ a.u.containerRunningQueue \cap E = {}
      BY <1>3, <1>9, <1>12, <2>1
    <2>3. QED
      BY <1>1, <1>9, <1>11, <2>2 DEF JobsRight
  <1>14. MachinesRight(a)
    <2>1. \A k \in Assigned(w) \ {j} : w.u.machine[k] # v /\ w.u.machine[k] \in VMs
      BY <1>5 DEF v
    <2>2. \A k \in a.u.waitingForStorage :
              /\ a.vm[a.u.machine[k]].state = "idle"
              /\ a.vm[a.u.machine[k]].pending = "PENDING_STORAGE"
              /\ a.u.vms_waiting_remote_st[a.u.machine[k]] = 1
      BY <1>1, <1>9, <1>10, <2>1 DEF MachinesRight, Assigned
    <2>3. \A k \in a.u.containerRunningQueue :
              /\ a.vm[a.u.machine[k]].state = "running"
              /\ a.vm[a.u.machine[k]].pending = "NOT_PENDING_OPS"
      <3>1. a.u.machine[j] = v
        BY <1>9 DEF v
      <3>2. ASSUME NEW k \in w.u.containerRunningQueue
            PROVE  /\ a.vm[a.u.machine[k]].state = "running"
                   /\ a.vm[a.u.machine[k]].pending = "NOT_PENDING_OPS"
        <4>1. k \in Assigned(w) \ {j}
          BY <1>3, <1>12 DEF Assigned
        <4>2. QED
          BY <1>1, <1>9, <1>10, <2>1, <4>1 DEF MachinesRight
      <3>3. QED
        BY <1>9, <1>10, <3>1, <3>2
    <2>4. ASSUME NEW x \in VMs, a.u.vms_waiting_remote_st[x] # 0
          PROVE  \E k \in a.u.waitingForStorage : a.u.machine[k] = x
      <3>1. x # v /\ w.u.vms_waiting_remote_st[x] # 0
        BY <1>9, <2>4
      <3>2. PICK k \in w.u.waitingForStorage : w.u.machine[k] = x
        BY <1>1, <3>1 DEF MachinesRight
      <3>3. k # j
        BY <3>1, <3>2 DEF v
      <3>4. QED
        BY <1>9, <3>2, <3>3
    <2>5. ASSUME NEW x \in ToSet(a.u.machinesMap)
          PROVE  /\ a.vm[x].state = "off" => a.vm[x].pending = "NOT_PENDING_OPS"
                 /\ a.vm[x].state = "running" => \E k \in a.u.containerRunningQueue : a.u.machine[k] = x
                 /\ a.vm[x].pending = "PENDING_STORAGE" => \E k \in a.u.waitingForStorage : a.u.machine[k] = x
                 /\ a.vm[x].pending = "PENDING_SHUTDOWN" => a.vm[x].state = "idle"
      <3>1. CASE x = v
        BY <1>9, <1>10, <3>1 DEF v
      <3>2. CASE x # v
        <4>1. x \in M /\ x \in VMs /\ a.vm[x] = w.vm[x]
          BY <1>2, <1>9, <1>10, <3>2
        <4>2. (\E k \in w.u.waitingForStorage : w.u.machine[k] = x)
                 => \E k \in a.u.waitingForStorage : a.u.machine[k] = x
          BY <1>9, <3>2 DEF v
        <4>3. QED
          BY <1>1, <1>9, <4>1, <4>2 DEF MachinesRight
      <3>3. QED
        BY <3>1, <3>2
    <2>6. /\ IsInjective(a.u.machinesMap)
          /\ \A k \in Assigned(a) : a.u.machine[k] \in ToSet(a.u.machinesMap)
          /\ \A k, l \in Assigned(a) : a.u.machine[k] = a.u.machine[l] => k = l
      BY <1>1, <1>9, <1>11 DEF MachinesRight
    <2>7. QED
      BY <2>2, <2>3, <2>4, <2>5, <2>6 DEF MachinesRight
  <1>15. Marked(a) = Marked(w) /\ Asks(a, R) = Asks(w, R)
    <2>1. \A x \in M : a.vm[x].pending = "PENDING_SHUTDOWN" <=> w.vm[x].pending = "PENDING_SHUTDOWN"
      BY <1>2, <1>4, <1>10 DEF v
    <2>2. QED
      BY <1>9, <2>1 DEF Marked, Asks
  <1>16. RequestsRight(u, a, R, D, S \ {j})
    <2>1. \A k \in MyJobs(u) :
              /\ k \in a.u.waitingForStorage <=> (Storage(k) \in Asks(a, R) \/ k \in S \ {j})
              /\ ~(Storage(k) \in Asks(a, R) /\ k \in S \ {j})
      BY <1>1, <1>9, <1>15 DEF RequestsRight
    <2>2. QED
      BY <1>1, <1>9, <1>15, <2>1 DEF RequestsRight
  <1>17. ~ w.u.userFinalizing /\ M # {}
    BY <1>1, <1>3, <1>4 DEF FinalizingRight, v
  <1>18. Frame(w, a)
    <2>1. w.u.machinesMap # <<>>
      BY <1>17 DEF ToSet
    <2>2. \A x \in VMs : a.vm[x].state = "off" <=> w.vm[x].state = "off"
      BY <1>4, <1>10 DEF v
    <2>3. \A x \in VMs \ M : a.vm[x] = w.vm[x]
      BY <1>4, <1>10 DEF v
    <2>4. QED
      BY <1>9, <2>1, <2>2, <2>3 DEF Frame
  <1>19. UserRight(u, a, R, D, S \ {j}, E)
    BY <1>9, <1>13, <1>14, <1>16, <1>17 DEF UserRight, FinalizingRight
  <1>20. Kept(u, a, ScheduleUnlessFinalizing(a), R, D, S \ {j}, E)
    BY <1>9, <1>19, ScheduleUnlessKept
  <1>21. Kept(u, w, ScheduleUnlessFinalizing(a), R, D, S \ {j}, E)
    BY <1>18, <1>20, KeptTwice
  <1>22. QED
    BY <1>3, <1>4, <1>6, <1>7, <1>21 DEF v

\* Requesting no shutdown changes nothing.
LEMMA ShutsNothing ==
    ASSUME NEW w \in Worlds
    PROVE  Shuts(w, w, {})
  <1>1. w.out \in Seq(Requests) /\ w.u.pending_shutdown_requests \in Nat
    BY WorldParts
  <1>2. Sends(w, w, {Free(v) : v \in {}})
    <2>1. <<>> \in Seq(Requests) /\ IsInjective(<<>>) /\ ToSet(<<>>) = {} /\ w.out = w.out \o <<>>
      BY <1>1 DEF IsInjective, ToSet
    <2>2. {Free(v) : v \in {}} = {}
      OBVIOUS
    <2>3. QED
      BY <2>1, <2>2 DEF Sends
  <1>3. IsFiniteSet({}) /\ Cardinality({}) = 0
    BY FS_EmptySet
  <1>4. QED
    BY <1>1, <1>2, <1>3 DEF Shuts, SameJobs, SameMap, Marks

\* The world after a job on machine v ended; X is {v} if the machine is given back.
JobEnds(w, a, j, v, X) ==
    /\ a \in Worlds /\ SameMap(w, a)
    /\ a.u.containerWaitingQueue = w.u.containerWaitingQueue
    /\ a.u.waitingForStorage = w.u.waitingForStorage
    /\ a.u.containerRunningQueue = w.u.containerRunningQueue \ {j}
    /\ a.u.machine = w.u.machine
    /\ a.u.vms_waiting_remote_st = w.u.vms_waiting_remote_st
    /\ a.u.pending_shutdown_requests = w.u.pending_shutdown_requests + Cardinality(X)
    /\ a.vm[v].state = "idle"
    /\ a.vm[v].pending = IF v \in X THEN "PENDING_SHUTDOWN" ELSE w.vm[v].pending
    /\ \A x \in VMs \ {v} : a.vm[x] = w.vm[x]
    /\ Sends(w, a, {Free(x) : x \in X})

\* jobHasFinished frees the job's machine and may mark it for shutdown.
LEMMA JobFinishedEnds ==
    ASSUME NEW w \in Worlds, NEW j \in w.u.containerRunningQueue, NEW v \in VMs,
           w.u.machine[j] = v, w.vm[v].state # "off", Processes(w, v) = {j},
           j \notin w.u.waitingForStorage
    PROVE  \E X \in {{}, {v}} : JobEnds(w, JobFinished(w, j), j, v, X)
  <1> DEFINE waiting == w.u.containerWaitingQueue # <<>>
             given == IF Cardinality(Processes(w, v)) = 1 /\ ~waiting THEN ShutdownVMs(w, <<v>>) ELSE w
  <1>1. PICK X \in {{}, {v}} : Shuts(w, given, X)
    <2>1. CASE waiting
      BY <2>1, ShutsNothing
    <2>2. CASE ~waiting
      <3>1. Cardinality({j}) = 1
        BY FS_Singleton
      <3>2. <<v>> \in Seq(VMs) /\ IsInjective(<<v>>) /\ ToSet(<<v>>) = {v}
        BY DEF IsInjective, ToSet
      <3>3. Shuts(w, ShutdownVMs(w, <<v>>), {x \in {v} : w.vm[x].state # "off"})
        BY <3>2, ShutdownShuts
      <3>4. {x \in {v} : w.vm[x].state # "off"} = {v}
        OBVIOUS
      <3>5. QED
        BY <2>2, <3>1, <3>3, <3>4
    <2>3. QED
      BY <2>1, <2>2
  <1>2. PICK g : g = given
    OBVIOUS
  <1> HIDE DEF given
  <1>3. Shuts(w, g, X)
    BY <1>1, <1>2
  <1> DEFINE r == g.u.containerRunningQueue \ {j}
  <1>4. PICK m : m = [g EXCEPT !.u.containerRunningQueue = r]
    OBVIOUS
  <1>5. g \in Worlds /\ SameJobs(w, g) /\ SameMap(w, g)
    BY <1>3 DEF Shuts
  <1>6. r \in SUBSET Jobs
    BY <1>5, WorldParts
  <1>7. r = w.u.containerRunningQueue \ {j}
    BY <1>5 DEF SameJobs
  <1> HIDE DEF r
  <1>8. /\ m \in Worlds /\ m.u.containerRunningQueue = r
        /\ m.u.containerWaitingQueue = g.u.containerWaitingQueue
        /\ m.u.waitingForStorage = g.u.waitingForStorage
        /\ m.u.machine = g.u.machine
        /\ m.u.vms_waiting_remote_st = g.u.vms_waiting_remote_st
        /\ m.u.machinesMap = g.u.machinesMap
        /\ m.u.pendingVmsAtStartup = g.u.pendingVmsAtStartup
        /\ m.u.pending_shutdown_requests = g.u.pending_shutdown_requests
        /\ m.u.userFinalizing = g.u.userFinalizing
        /\ m.vm = g.vm /\ m.out = g.out
    BY <1>4, <1>5, <1>6 DEF Worlds, UserState
  <1>9. Processes(m, v) = {}
    <2>1. \A k \in w.u.waitingForStorage \cup w.u.containerRunningQueue :
             w.u.machine[k] = v => k = j
      BY DEF Processes
    <2>2. /\ m.u.waitingForStorage = w.u.waitingForStorage /\ m.u.machine = w.u.machine
          /\ m.u.containerRunningQueue = w.u.containerRunningQueue \ {j}
      BY <1>5, <1>7, <1>8 DEF SameJobs
    <2>3. QED
      BY <2>1, <2>2 DEF Processes
  <1>10. PICK a : a = [m EXCEPT !.vm[v].state = "idle"]
    OBVIOUS
  <1>11. a = JobFinished(w, j)
    BY <1>2, <1>4, <1>9, <1>10 DEF JobFinished, given, r
  <1> DEFINE vms == [m.vm EXCEPT ![v] = [m.vm[v] EXCEPT !.state = "idle"]]
  <1>12. a = [m EXCEPT !.vm = vms]
    BY <1>8, <1>10 DEF Worlds
  <1>13. /\ vms \in [VMs -> VmStates] /\ vms[v].state = "idle" /\ vms[v].pending = m.vm[v].pending
         /\ \A x \in VMs \ {v} : vms[x] = m.vm[x]
    <2>1. m.vm \in [VMs -> VmStates]
      BY <1>8, WorldParts
    <2>2. ASSUME NEW x \in VmStates
          PROVE  /\ [x EXCEPT !.state = "idle"] \in VmStates
                 /\ [x EXCEPT !.state = "idle"].state = "idle"
                 /\ [x EXCEPT !.state = "idle"].pending = x.pending
      BY DEF VmStates
    <2>3. m.vm[v] \in VmStates
      BY <2>1
    <2>4. QED
      BY <2>1, <2>2, <2>3
  <1> HIDE DEF vms
  <1>14. a \in Worlds /\ a.vm = vms /\ a.u = m.u /\ a.out = m.out
    BY <1>8, <1>12, <1>13 DEF Worlds
  <1>15. /\ g.vm[v].pending = IF v \in X THEN "PENDING_SHUTDOWN" ELSE w.vm[v].pending
         /\ \A x \in VMs \ {v} : g.vm[x] = w.vm[x]
    <2>1. Marks(w, g, X, "PENDING_SHUTDOWN")
      BY <1>3 DEF Shuts
    <2>2. QED
      BY <1>1, <2>1 DEF Marks
  <1>16. Sends(w, a, {Free(x) : x \in X})
    BY <1>3, <1>8, <1>14 DEF Shuts, Sends
  <1>17. a.u.pending_shutdown_requests = w.u.pending_shutdown_requests + Cardinality(X)
    BY <1>3, <1>8, <1>14 DEF Shuts
  <1>18. JobEnds(w, a, j, v, X)
    BY <1>5, <1>7, <1>8, <1>13, <1>14, <1>15, <1>16, <1>17 DEF JobEnds, SameJobs, SameMap
  <1>19. QED
    BY <1>11, <1>18

\* The end of a job keeps the books: the job is done and its machine, with no other
\* process, is idle, marked for shutdown if it is given back.
LEMMA JobFinishedKept ==
    ASSUME NEW u \in Users, NEW w \in Worlds, NEW R, NEW D, NEW S, NEW E,
           UserRight(u, w, R, D, S, E), NEW j \in w.u.containerRunningQueue
    PROVE  /\ j \in MyJobs(u) /\ j \notin E
           /\ Kept(u, w, JobFinished(w, j), R, D, S, E \cup {j})
  <1> DEFINE v == w.u.machine[j]
             M == ToSet(w.u.machinesMap)
  <1>1. JobsRight(u, w, E) /\ MachinesRight(w) /\ RequestsRight(u, w, R, D, S) /\ FinalizingRight(w)
    BY DEF UserRight
  <1>2. /\ M \subseteq VMs /\ w.u.waitingForStorage \subseteq Jobs
        /\ w.u.containerRunningQueue \subseteq Jobs /\ MyJobs(u) \subseteq Jobs
    BY WorldParts, CloudAssumption DEF MyJobs, ToSet
  <1>3. j \in Assigned(w) /\ j \in Jobs /\ j \notin w.u.waitingForStorage /\ j \in MyJobs(u)
        /\ j \notin E /\ j \notin ToSet(w.u.containerWaitingQueue)
    BY <1>1, <1>2 DEF JobsRight, Assigned
  <1>4. /\ v \in M /\ v \in VMs
        /\ w.vm[v].state = "running" /\ w.vm[v].pending = "NOT_PENDING_OPS"
    BY <1>1, <1>2, <1>3 DEF MachinesRight
  <1>5. \A k \in Assigned(w) : /\ w.u.machine[k] \in M /\ w.u.machine[k] \in VMs
                               /\ w.u.machine[k] = v => k = j
    BY <1>1, <1>2, <1>3 DEF MachinesRight
  <1>6. Processes(w, v) = {j}
    BY <1>3, <1>5 DEF Processes, Assigned
  <1>7. PICK a : a = JobFinished(w, j)
    OBVIOUS
  <1>8. PICK X \in {{}, {v}} : JobEnds(w, a, j, v, X)
    BY <1>3, <1>4, <1>6, <1>7, JobFinishedEnds
  <1> HIDE DEF v
  <1>9. /\ a \in Worlds /\ SameMap(w, a)
        /\ a.u.containerWaitingQueue = w.u.containerWaitingQueue
        /\ a.u.waitingForStorage = w.u.waitingForStorage
        /\ a.u.containerRunningQueue = w.u.containerRunningQueue \ {j}
        /\ a.u.machine = w.u.machine
        /\ a.u.vms_waiting_remote_st = w.u.vms_waiting_remote_st
        /\ a.u.pending_shutdown_requests = w.u.pending_shutdown_requests + Cardinality(X)
        /\ a.u.machinesMap = w.u.machinesMap
        /\ a.u.userFinalizing = w.u.userFinalizing
        /\ Sends(w, a, {Free(x) : x \in X})
    BY <1>8 DEF JobEnds, SameMap
  <1>10. /\ a.vm[v].state = "idle"
         /\ a.vm[v].pending = IF v \in X THEN "PENDING_SHUTDOWN" ELSE "NOT_PENDING_OPS"
         /\ \A x \in VMs \ {v} : a.vm[x] = w.vm[x]
    BY <1>4, <1>8 DEF JobEnds, v
  <1>11. Assigned(a) = Assigned(w) \ {j}
    BY <1>3, <1>9 DEF Assigned
  <1>12. JobsRight(u, a, E \cup {j})
    <2>1. /\ ToSet(w.u.containerWaitingQueue) \cap (Assigned(a) \cup E \cup {j}) = {}
          /\ w.u.waitingForStorage \cap ((w.u.containerRunningQueue \ {j}) \cup E \cup {j}) = {}
          /\ (w.u.containerRunningQueue \ {j}) \cap (E \cup {j}) = {}
          /\ ToSet(w.u.containerWaitingQueue) \cup Assigned(a) \subseteq MyJobs(u)
          /\ MyJobs(u) \subseteq ToSet(w.u.containerWaitingQueue) \cup Assigned(a) \cup E \cup {j}
      BY <1>1, <1>3, <1>11 DEF JobsRight
    <2>2. QED
      BY <1>1, <1>9, <2>1 DEF JobsRight
  <1>13. \A k \in Assigned(a) : w.u.machine[k] # v /\ w.u.machine[k] \in VMs
                               /\ a.vm[w.u.machine[k]] = w.vm[w.u.machine[k]]
    BY <1>5, <1>10, <1>11 DEF v
  <1>14. MachinesRight(a)
    <2>1. \A k \in a.u.waitingForStorage :
              /\ a.vm[a.u.machine[k]].state = "idle"
              /\ a.vm[a.u.machine[k]].pending = "PENDING_STORAGE"
              /\ a.u.vms_waiting_remote_st[a.u.machine[k]] = 1
      BY <1>1, <1>9, <1>13 DEF MachinesRight, Assigned
    <2>2. \A k \in a.u.containerRunningQueue :
              /\ a.vm[a.u.machine[k]].state = "running"
              /\ a.vm[a.u.machine[k]].pending = "NOT_PENDING_OPS"
      BY <1>1, <1>9, <1>13 DEF MachinesRight, Assigned
    <2>3. ASSUME NEW x \in ToSet(a.u.machinesMap)
          PROVE  /\ a.vm[x].state = "off" => a.vm[x].pending = "NOT_PENDING_OPS"
                 /\ a.vm[x].state = "running" => \E k \in a.u.containerRunningQueue : a.u.machine[k] = x
                 /\ a.vm[x].pending = "PENDING_STORAGE" => \E k \in a.u.waitingForStorage : a.u.machine[k] = x
                 /\ a.vm[x].pending = "PENDING_SHUTDOWN" => a.vm[x].state = "idle"
      <3>1. CASE x = v
        BY <1>10, <3>1
      <3>2. CASE x # v
        <4>1. x \in M /\ x \in VMs /\ a.vm[x] = w.vm[x]
          BY <1>2, <1>9, <1>10, <3>2
        <4>2. (\E k \in w.u.containerRunningQueue : w.u.machine[k] = x)
                 => \E k \in a.u.containerRunningQueue : a.u.machine[k] = x
          BY <1>9, <3>2 DEF v
        <4>3. QED
          BY <1>1, <1>9, <4>1, <4>2 DEF MachinesRight
      <3>3. QED
        BY <3>1, <3>2
    <2>4. QED
      <3>1. /\ IsInjective(a.u.machinesMap)
            /\ \A k \in Assigned(a) : a.u.machine[k] \in ToSet(a.u.machinesMap)
            /\ \A k, l \in Assigned(a) : a.u.machine[k] = a.u.machine[l] => k = l
        BY <1>1, <1>9, <1>11 DEF MachinesRight
      <3>2. \A x \in VMs : a.u.vms_waiting_remote_st[x] # 0 =>
                \E k \in a.u.waitingForStorage : a.u.machine[k] = x
        BY <1>1, <1>9 DEF MachinesRight
      <3>3. QED
        BY <2>1, <2>2, <2>3, <3>1, <3>2 DEF MachinesRight
  <1>15. v \in M /\ v \in VMs /\ v \notin Marked(w) /\ X \subseteq {v}
    BY <1>4, <1>8 DEF v, Marked
  <1>16. Marked(a) = Marked(w) \cup X
    <2>1. \A x \in M : a.vm[x].pending = "PENDING_SHUTDOWN" <=> w.vm[x].pending = "PENDING_SHUTDOWN" \/ x \in X
      BY <1>2, <1>10, <1>4, <1>15 DEF v
    <2>2. QED
      BY <1>9, <1>15, <2>1 DEF Marked
  <1>17. RequestsRight(u, a, R, D, S)
    <2>1. /\ ToSet(a.out) = ToSet(w.out) \cup {Free(x) : x \in X}
          /\ IsInjective(w.out) /\ ToSet(w.out) \cap {Free(x) : x \in X} = {} => IsInjective(a.out)
      BY <1>9, SendsFacts
    <2>2. \A x \in X : x \notin Marked(w) /\ Free(x) \notin Asks(w, R) /\ x \notin D
      BY <1>1, <1>15 DEF RequestsRight
    <2>3. \A x \in VMs : Free(x) \in Asks(a, R) <=> Free(x) \in Asks(w, R) \/ x \in X
      BY <1>15, <2>1, RequestsApart DEF Asks
    <2>4. \A k \in Jobs : Storage(k) \in Asks(a, R) <=> Storage(k) \in Asks(w, R)
      BY <1>15, <2>1, RequestsApart DEF Asks
    <2>5. Abandon(u) \in Asks(a, R) <=> Abandon(u) \in Asks(w, R)
      BY <1>15, <2>1, RequestsApart DEF Asks
    <2>6. IsInjective(a.out) /\ ToSet(a.out) \cap R = {}
      BY <1>1, <2>1, <2>2 DEF RequestsRight, Asks
    <2>7. ToSet(a.out) \subseteq {Storage(k) : k \in MyJobs(u)} \cup {Free(x) : x \in ToSet(a.u.machinesMap)}
                              \cup {Abandon(u)}
      BY <1>1, <1>9, <1>15, <2>1 DEF RequestsRight
    <2>8. \A x \in ToSet(a.u.machinesMap) :
              /\ x \in Marked(a) <=> (Free(x) \in Asks(a, R) \/ x \in D)
              /\ ~(Free(x) \in Asks(a, R) /\ x \in D)
      BY <1>1, <1>2, <1>9, <1>16, <2>2, <2>3 DEF RequestsRight
    <2>9. a.u.pending_shutdown_requests = Cardinality(Marked(a))
      <3>1. IsFiniteSet(Marked(w)) /\ Cardinality(Marked(w)) \in Nat
        BY <1>1, MarkedFinite DEF MachinesRight
      <3>2. w.u.pending_shutdown_requests = Cardinality(Marked(w))
        BY <1>1 DEF RequestsRight
      <3>3. CASE X = {}
        <4>1. Cardinality(X) = 0 /\ Marked(a) = Marked(w)
          BY <1>16, <3>3, FS_EmptySet
        <4>2. QED
          BY <1>9, <3>1, <3>2, <4>1
      <3>4. CASE X = {v}
        <4>1. Cardinality(X) = 1
          BY <3>4, FS_Singleton
        <4>2. Cardinality(Marked(w) \cup {v}) = Cardinality(Marked(w)) + 1
          BY <1>15, <3>1, FS_AddElement
        <4>3. QED
          BY <1>9, <1>16, <3>2, <3>4, <4>1, <4>2
      <3>5. QED
        BY <1>8, <3>3, <3>4
    <2>10. QED
      BY <1>1, <1>2, <1>9, <2>4, <2>5, <2>6, <2>7, <2>8, <2>9 DEF RequestsRight
  <1>18. ~ w.u.userFinalizing
    BY <1>1, <1>3 DEF FinalizingRight
  <1>19. Frame(w, a)
    <2>1. w.u.machinesMap # <<>>
      BY <1>15 DEF ToSet
    <2>2. \A x \in VMs : a.vm[x].state = "off" <=> w.vm[x].state = "off"
      BY <1>4, <1>10 DEF v
    <2>3. \A x \in VMs \ M : a.vm[x] = w.vm[x]
      BY <1>10, <1>15
    <2>4. QED
      BY <1>9, <2>1, <2>2, <2>3 DEF Frame
  <1>20. QED
    BY <1>3, <1>7, <1>9, <1>12, <1>14, <1>17, <1>18, <1>19 DEF Kept, UserRight, FinalizingRight

\* The world after machine v was taken from the map of its user.
Gone(w, a, v) ==
    /\ a \in Worlds /\ SameJobs(w, a)
    /\ IsInjective(a.u.machinesMap) /\ ToSet(a.u.machinesMap) = ToSet(w.u.machinesMap) \ {v}
    /\ a.u.pendingVmsAtStartup = w.u.pendingVmsAtStartup
    /\ a.u.userFinalizing = w.u.userFinalizing
    /\ a.u.pending_shutdown_requests = w.u.pending_shutdown_requests - 1
    /\ a.vm[v].state = "off" /\ a.vm[v].pending = "NOT_PENDING_OPS"
    /\ \A x \in VMs \ {v} : a.vm[x] = w.vm[x]
    /\ a.out = w.out

TurnOff(w, v) == [w EXCEPT !.vm[v] = [state |-> "off", pending |-> "NOT_PENDING_OPS"]]

\* The answer to a shutdown takes the machine from the user's map.
LEMMA FreeAttendedGoes ==
    ASSUME NEW w \in Worlds, NEW v \in VMs, NEW u \in Users, IsInjective(w.u.machinesMap),
           w.u.pending_shutdown_requests # 0
    PROVE  \E a : /\ Gone(w, a, v)
                  /\ FreeAttended(TurnOff(w, v), u, v)
                        = ScheduleUnlessFinalizing(IF NothingLeft(a) THEN FinalizeUser(a, u) ELSE a)
  <1>1. /\ w.u.machinesMap \in Seq(VMs) /\ w.u.pending_shutdown_requests \in Nat
        /\ w.vm \in [VMs -> VmStates]
    BY WorldParts
  <1>2. PICK o : o = TurnOff(w, v)
    OBVIOUS
  <1> DEFINE g == [w.vm EXCEPT ![v] = [state |-> "off", pending |-> "NOT_PENDING_OPS"]]
  <1>3. /\ g \in [VMs -> VmStates] /\ g[v].state = "off" /\ g[v].pending = "NOT_PENDING_OPS"
        /\ \A x \in VMs \ {v} : g[x] = w.vm[x]
    BY <1>1 DEF VmStates
  <1>4. o = [w EXCEPT !.vm = g]
    BY <1>2 DEF TurnOff, Worlds
  <1> HIDE DEF g
  <1>5. o \in Worlds /\ o.vm = g /\ o.u = w.u /\ o.out = w.out
    BY <1>3, <1>4 DEF Worlds
  <1>6. PICK m \in Seq(VMs) : /\ m = Filter(o.u.machinesMap, VMs \ {v})
                              /\ IsInjective(m) /\ ToSet(m) = ToSet(w.u.machinesMap) \cap (VMs \ {v})
    BY <1>1, <1>5, FilterFacts
  <1>7. ToSet(m) = ToSet(w.u.machinesMap) \ {v}
    <2>1. ToSet(w.u.machinesMap) \subseteq VMs
      BY WorldParts
    <2>2. QED
      BY <1>6, <2>1
  <1>8. PICK n \in Nat : n = w.u.pending_shutdown_requests - 1
    BY <1>1
  <1>9. PICK a : a = [o EXCEPT !.u.pending_shutdown_requests = n, !.u.machinesMap = m]
    OBVIOUS
  <1>10. /\ a \in Worlds /\ a.vm = o.vm /\ a.out = o.out
         /\ a.u.containerWaitingQueue = o.u.containerWaitingQueue
         /\ a.u.waitingForStorage = o.u.waitingForStorage
         /\ a.u.containerRunningQueue = o.u.containerRunningQueue
         /\ a.u.machine = o.u.machine
         /\ a.u.vms_waiting_remote_st = o.u.vms_waiting_remote_st
         /\ a.u.machinesMap = m
         /\ a.u.pendingVmsAtStartup = o.u.pendingVmsAtStartup
         /\ a.u.pending_shutdown_requests = n
         /\ a.u.userFinalizing = o.u.userFinalizing
    BY <1>5, <1>9 DEF Worlds, UserState
  <1>11. Gone(w, a, v)
    BY <1>3, <1>5, <1>6, <1>7, <1>8, <1>10 DEF Gone, SameJobs
  <1>12. FreeAttended(TurnOff(w, v), u, v)
            = ScheduleUnlessFinalizing(IF NothingLeft(a) THEN FinalizeUser(a, u) ELSE a)
    BY <1>2, <1>5, <1>6, <1>8, <1>9 DEF FreeAttended
  <1>13. QED
    BY <1>11, <1>12

\* The machine that goes was the only one that was lost, and no job needs it.
LEMMA GoneKept ==
    ASSUME NEW u \in Users, NEW w \in Worlds, NEW R, NEW D, NEW S, NEW E,
           UserRight(u, w, R, D, S, E), NEW v \in ToSet(w.u.machinesMap), v \in D,
           NEW a, Gone(w, a, v)
    PROVE  UserRight(u, a, R, D \ {v}, S, E) /\ ~ a.u.userFinalizing
  <1> DEFINE M == ToSet(w.u.machinesMap)
  <1>1. JobsRight(u, w, E) /\ MachinesRight(w) /\ RequestsRight(u, w, R, D, S) /\ FinalizingRight(w)
    BY DEF UserRight
  <1>2. M \subseteq VMs /\ v \in VMs /\ w.out \in Seq(Requests)
    BY WorldParts
  <1>3. /\ a \in Worlds /\ a.u.containerWaitingQueue = w.u.containerWaitingQueue
        /\ a.u.waitingForStorage = w.u.waitingForStorage
        /\ a.u.containerRunningQueue = w.u.containerRunningQueue
        /\ a.u.machine = w.u.machine
        /\ a.u.vms_waiting_remote_st = w.u.vms_waiting_remote_st
        /\ IsInjective(a.u.machinesMap) /\ ToSet(a.u.machinesMap) = M \ {v}
        /\ a.u.userFinalizing = w.u.userFinalizing
        /\ a.u.pending_shutdown_requests = w.u.pending_shutdown_requests - 1
        /\ \A x \in VMs \ {v} : a.vm[x] = w.vm[x]
        /\ a.out = w.out
    BY DEF Gone, SameJobs
  <1>4. Assigned(a) = Assigned(w) /\ Asks(a, R) = Asks(w, R)
    BY <1>3 DEF Assigned, Asks
  <1>5. v \in Marked(w) /\ w.vm[v].pending = "PENDING_SHUTDOWN" /\ w.vm[v].state = "idle"
    BY <1>1 DEF RequestsRight, MachinesRight, Marked
  <1>6. \A j \in Assigned(w) : w.u.machine[j] \in M \ {v} /\ w.u.machine[j] \in VMs \ {v}
    BY <1>1, <1>2, <1>5 DEF MachinesRight, Assigned
  <1>7. JobsRight(u, a, E)
    BY <1>1, <1>3, <1>4 DEF JobsRight
  <1>8. MachinesRight(a)
    <2>1. \A j \in a.u.waitingForStorage :
              /\ a.vm[a.u.machine[j]].state = "idle"
              /\ a.vm[a.u.machine[j]].pending = "PENDING_STORAGE"
              /\ a.u.vms_waiting_remote_st[a.u.machine[j]] = 1
      BY <1>1, <1>3, <1>6 DEF MachinesRight, Assigned
    <2>2. \A j \in a.u.containerRunningQueue :
              /\ a.vm[a.u.machine[j]].state = "running"
              /\ a.vm[a.u.machine[j]].pending = "NOT_PENDING_OPS"
      BY <1>1, <1>3, <1>6 DEF MachinesRight, Assigned
    <2>3. ASSUME NEW x \in ToSet(a.u.machinesMap)
          PROVE  /\ a.vm[x].state = "off" => a.vm[x].pending = "NOT_PENDING_OPS"
                 /\ a.vm[x].state = "running" => \E k \in a.u.containerRunningQueue : a.u.machine[k] = x
                 /\ a.vm[x].pending = "PENDING_STORAGE" => \E k \in a.u.waitingForStorage : a.u.machine[k] = x
                 /\ a.vm[x].pending = "PENDING_SHUTDOWN" => a.vm[x].state = "idle"
      <3>1. x \in M /\ a.vm[x] = w.vm[x]
        BY <1>2, <1>3
      <3>2. QED
        BY <1>1, <1>3, <3>1 DEF MachinesRight
    <2>4. /\ \A j \in Assigned(a) : a.u.machine[j] \in ToSet(a.u.machinesMap)
          /\ \A j, k \in Assigned(a) : a.u.machine[j] = a.u.machine[k] => j = k
          /\ \A x \in VMs : a.u.vms_waiting_remote_st[x] # 0 =>
                \E k \in a.u.waitingForStorage : a.u.machine[k] = x
      BY <1>1, <1>3, <1>4, <1>6 DEF MachinesRight
    <2>5. QED
      BY <1>3, <2>1, <2>2, <2>3, <2>4 DEF MachinesRight
  <1>9. Marked(a) = Marked(w) \ {v}
    <2>1. \A x \in M \ {v} : a.vm[x].pending = w.vm[x].pending
      BY <1>2, <1>3
    <2>2. QED
      BY <1>3, <2>1 DEF Marked
  <1>10. RequestsRight(u, a, R, D \ {v}, S)
    <2>1. \A x \in ToSet(a.u.machinesMap) :
              /\ x \in Marked(a) <=> (Free(x) \in Asks(a, R) \/ x \in D \ {v})
              /\ ~(Free(x) \in Asks(a, R) /\ x \in D \ {v})
      BY <1>1, <1>3, <1>4, <1>9 DEF RequestsRight
    <2>2. a.u.pending_shutdown_requests = Cardinality(Marked(a))
      <3>1. IsFiniteSet(Marked(w)) /\ Cardinality(Marked(w)) \in Nat
        BY <1>1, MarkedFinite DEF MachinesRight
      <3>2. Cardinality(Marked(w) \ {v}) = Cardinality(Marked(w)) - 1
        BY <1>5, <3>1, FS_RemoveElement
      <3>3. QED
        BY <1>1, <1>3, <1>9, <3>2 DEF RequestsRight
    <2>3. ToSet(a.out) \subseteq {Storage(j) : j \in MyJobs(u)} \cup {Free(x) : x \in ToSet(a.u.machinesMap)}
                              \cup {Abandon(u)}
      <3>1. Free(v) \notin ToSet(w.out)
        BY <1>1 DEF RequestsRight, Asks
      <3>2. ToSet(w.out) \subseteq {Storage(j) : j \in MyJobs(u)} \cup {Free(x) : x \in M}
                              \cup {Abandon(u)}
        BY <1>1 DEF RequestsRight
      <3>3. QED
        BY <1>3, <3>1, <3>2
    <2>4. QED
      BY <1>1, <1>3, <1>4, <2>1, <2>2, <2>3 DEF RequestsRight
  <1>11. ~ w.u.userFinalizing
    BY <1>1, <1>5 DEF FinalizingRight
  <1>12. QED
    BY <1>3, <1>7, <1>8, <1>10, <1>11 DEF UserRight, FinalizingRight

\* What finalizeUser does: nothing, or the user asks to leave.
Finalizes(w, a, u) ==
    /\ a \in Worlds /\ SameJobs(w, a)
    /\ a.u.machinesMap = w.u.machinesMap
    /\ a.u.pendingVmsAtStartup = w.u.pendingVmsAtStartup
    /\ a.u.pending_shutdown_requests = w.u.pending_shutdown_requests
    /\ a.vm = w.vm
    /\ \/ ~ a.u.userFinalizing /\ Sends(w, a, {})
       \/ /\ a.u.userFinalizing /\ Sends(w, a, {Abandon(u)})
          /\ \A v \in VMs : w.u.vms_waiting_remote_st[v] = 0

\* finalizeUser marks the user and sends one request.
LEMMA FinalizeUserFinalizes ==
    ASSUME NEW w \in Worlds, NEW u \in Users
    PROVE  Finalizes(w, FinalizeUser(w, u), u)
  <1>1. w.out \in Seq(Requests)
    BY WorldParts
  <1>2. Abandon(u) \in Requests
    BY RequestsTyped
  <1>3. PICK s \in Seq(Requests) : s = Append(w.out, Abandon(u))
    BY <1>1, <1>2, AppendProperties
  <1>4. CASE /\ ~ \E v \in VMs : w.u.vms_waiting_remote_st[v] # 0
             /\ w.u.pending_shutdown_requests = 0
    <2>1. PICK a : a = FinalizeUser(w, u)
      OBVIOUS
    <2>2. a = [w EXCEPT !.u.userFinalizing = TRUE, !.out = s]
      BY <1>3, <1>4, <2>1 DEF FinalizeUser
    <2>3. a \in Worlds
      BY <2>2 DEF Worlds, UserState
    <2>4. /\ a.u.containerWaitingQueue = w.u.containerWaitingQueue
          /\ a.u.waitingForStorage = w.u.waitingForStorage
          /\ a.u.containerRunningQueue = w.u.containerRunningQueue
          /\ a.u.machine = w.u.machine
          /\ a.u.vms_waiting_remote_st = w.u.vms_waiting_remote_st
          /\ a.u.machinesMap = w.u.machinesMap
          /\ a.u.pendingVmsAtStartup = w.u.pendingVmsAtStartup
          /\ a.u.pending_shutdown_requests = w.u.pending_shutdown_requests
          /\ a.u.userFinalizing /\ a.vm = w.vm /\ a.out = s
      BY <2>2 DEF Worlds, UserState
    <2>5. Sends(w, a, {Abandon(u)})
      <3>1. PICK t : t = <<Abandon(u)>>
        OBVIOUS
      <3>2. t \in Seq(Requests) /\ IsInjective(t) /\ ToSet(t) = {Abandon(u)}
        BY <1>2, <3>1 DEF IsInjective, ToSet
      <3>3. Append(w.out, Abandon(u)) = w.out \o <<Abandon(u)>>
        BY <1>1, <1>2
      <3>4. QED
        BY <1>3, <2>4, <3>1, <3>2, <3>3 DEF Sends
    <2>6. QED
      BY <1>4, <2>1, <2>3, <2>4, <2>5 DEF Finalizes, SameJobs
  <1>5. CASE \/ \E v \in VMs : w.u.vms_waiting_remote_st[v] # 0
             \/ w.u.pending_shutdown_requests # 0
    <2>1. PICK a : a = FinalizeUser(w, u)
      OBVIOUS
    <2>2. a = [w EXCEPT !.u.userFinalizing = FALSE]
      BY <1>5, <2>1 DEF FinalizeUser
    <2>3. a \in Worlds
      BY <2>2 DEF Worlds, UserState
    <2>4. /\ a.u.containerWaitingQueue = w.u.containerWaitingQueue
          /\ a.u.waitingForStorage = w.u.waitingForStorage
          /\ a.u.containerRunningQueue = w.u.containerRunningQueue
          /\ a.u.machine = w.u.machine
          /\ a.u.vms_waiting_remote_st = w.u.vms_waiting_remote_st
          /\ a.u.machinesMap = w.u.machinesMap
          /\ a.u.pendingVmsAtStartup = w.u.pendingVmsAtStartup
          /\ a.u.pending_shutdown_requests = w.u.pending_shutdown_requests
          /\ ~ a.u.userFinalizing /\ a.vm = w.vm /\ a.out = w.out
      BY <2>2 DEF Worlds, UserState
    <2>5. Sends(w, a, {})
      <3>1. <<>> \in Seq(Requests) /\ IsInjective(<<>>) /\ ToSet(<<>>) = {} /\ w.out = w.out \o <<>>
        BY <1>1 DEF IsInjective, ToSet
      <3>2. QED
        BY <2>4, <3>1 DEF Sends
    <2>6. QED
      BY <2>1, <2>3, <2>4, <2>5 DEF Finalizes, SameJobs
  <1>6. QED
    BY <1>4, <1>5

\* A user with nothing left asks to leave, once.
LEMMA FinalizeKept ==
    ASSUME NEW u \in Users, NEW w \in Worlds, NEW R, NEW D, NEW S, NEW E,
           UserRight(u, w, R, D, S, E), ~ w.u.userFinalizing, NothingLeft(w)
    PROVE  /\ FinalizeUser(w, u) \in Worlds /\ UserRight(u, FinalizeUser(w, u), R, D, S, E)
           /\ FinalizeUser(w, u).u.machinesMap = w.u.machinesMap
           /\ FinalizeUser(w, u).u.pendingVmsAtStartup = w.u.pendingVmsAtStartup
           /\ FinalizeUser(w, u).vm = w.vm
  <1>1. PICK a : a = FinalizeUser(w, u)
    OBVIOUS
  <1>2. Finalizes(w, a, u)
    BY <1>1, FinalizeUserFinalizes
  <1>3. JobsRight(u, w, E) /\ MachinesRight(w) /\ RequestsRight(u, w, R, D, S)
    BY DEF UserRight
  <1>4. /\ a \in Worlds /\ a.u.containerWaitingQueue = w.u.containerWaitingQueue
        /\ a.u.waitingForStorage = w.u.waitingForStorage
        /\ a.u.containerRunningQueue = w.u.containerRunningQueue
        /\ a.u.machine = w.u.machine
        /\ a.u.vms_waiting_remote_st = w.u.vms_waiting_remote_st
        /\ a.u.machinesMap = w.u.machinesMap
        /\ a.u.pendingVmsAtStartup = w.u.pendingVmsAtStartup
        /\ a.u.pending_shutdown_requests = w.u.pending_shutdown_requests
        /\ a.vm = w.vm
    BY <1>2 DEF Finalizes, SameJobs
  <1>5. Assigned(a) = Assigned(w) /\ Marked(a) = Marked(w)
    BY <1>4 DEF Assigned, Marked
  <1>6. JobsRight(u, a, E)
    BY <1>3, <1>4, <1>5 DEF JobsRight
  <1>7. MachinesRight(a)
    BY <1>3, <1>4, MachinesMoved
  <1>8. PICK Q : /\ Sends(w, a, Q) /\ (Q = {} \/ Q = {Abandon(u)})
                 /\ Abandon(u) \in Q => a.u.userFinalizing
    BY <1>2 DEF Finalizes
  <1>9. RequestsRight(u, a, R, D, S)
    <2>1. /\ ToSet(a.out) = ToSet(w.out) \cup Q
          /\ IsInjective(w.out) /\ ToSet(w.out) \cap Q = {} => IsInjective(a.out)
      BY <1>4, <1>8, SendsFacts
    <2>2. Abandon(u) \notin Asks(w, R)
      BY <1>3 DEF RequestsRight
    <2>3. \A x \in VMs : Free(x) \in Asks(a, R) <=> Free(x) \in Asks(w, R)
      BY <1>8, <2>1, RequestsApart DEF Asks
    <2>4. \A k \in Jobs : Storage(k) \in Asks(a, R) <=> Storage(k) \in Asks(w, R)
      BY <1>8, <2>1, RequestsApart DEF Asks
    <2>5. IsInjective(a.out) /\ ToSet(a.out) \cap R = {}
      BY <1>3, <1>8, <2>1, <2>2 DEF RequestsRight, Asks
    <2>6. ToSet(a.out) \subseteq {Storage(k) : k \in MyJobs(u)} \cup {Free(x) : x \in ToSet(a.u.machinesMap)}
                              \cup {Abandon(u)}
      BY <1>3, <1>4, <1>8, <2>1 DEF RequestsRight
    <2>7. MyJobs(u) \subseteq Jobs /\ ToSet(w.u.machinesMap) \subseteq VMs
      BY WorldParts, CloudAssumption DEF MyJobs, ToSet
    <2>8. Abandon(u) \in Asks(a, R) => a.u.userFinalizing
      BY <1>8, <2>1, <2>2 DEF Asks
    <2>9. \A k \in MyJobs(u) :
              /\ k \in a.u.waitingForStorage <=> (Storage(k) \in Asks(a, R) \/ k \in S)
              /\ ~(Storage(k) \in Asks(a, R) /\ k \in S)
      BY <1>3, <1>4, <2>4, <2>7 DEF RequestsRight
    <2>10. \A x \in ToSet(a.u.machinesMap) :
              /\ x \in Marked(a) <=> (Free(x) \in Asks(a, R) \/ x \in D)
              /\ ~(Free(x) \in Asks(a, R) /\ x \in D)
      BY <1>3, <1>4, <1>5, <2>3, <2>7 DEF RequestsRight
    <2>11. QED
      BY <1>3, <1>4, <1>5, <2>5, <2>6, <2>8, <2>9, <2>10 DEF RequestsRight
  <1>10. FinalizingRight(a)
    <2>1. SUFFICES ASSUME a.u.userFinalizing PROVE FinalizingRight(a)
      BY DEF FinalizingRight
    <2>2. \A v \in VMs : w.u.vms_waiting_remote_st[v] = 0
      BY <1>2, <2>1 DEF Finalizes
    <2>3. w.u.waitingForStorage = {}
      <3>1. \A j \in w.u.waitingForStorage :
               w.u.machine[j] \in VMs /\ w.u.vms_waiting_remote_st[w.u.machine[j]] = 1
        BY <1>3, WorldParts DEF MachinesRight, Assigned
      <3>2. QED
        BY <2>2, <3>1
    <2>4. QED
      BY <1>4, <1>5, <2>3 DEF FinalizingRight, NothingLeft, Assigned
  <1>11. QED
    BY <1>1, <1>4, <1>6, <1>7, <1>9, <1>10 DEF UserRight

\* World a is world w after machine v was turned off and left the machines of user u.
MachineGone(u, w, a, v, R, D, S, E) ==
    /\ a \in Worlds /\ UserRight(u, a, R, D \ {v}, S, E)
    /\ ToSet(a.u.machinesMap) = ToSet(w.u.machinesMap) \ {v}
    /\ a.u.pendingVmsAtStartup = w.u.pendingVmsAtStartup
    /\ a.vm[v].state = "off" /\ a.vm[v].pending = "NOT_PENDING_OPS"
    /\ \A x \in VMs \ {v} : a.vm[x].state = "off" <=> w.vm[x].state = "off"
    /\ \A x \in VMs \ ToSet(w.u.machinesMap) : a.vm[x] = w.vm[x]

\* The answer to a shutdown request keeps the books, without the machine.
LEMMA FreeKept ==
    ASSUME NEW u \in Users, NEW w \in Worlds, NEW R, NEW D, NEW S, NEW E,
           UserRight(u, w, R, D, S, E), NEW v \in ToSet(w.u.machinesMap), v \in D
    PROVE  MachineGone(u, w, FreeAttended(TurnOff(w, v), u, v), v, R, D, S, E)
  <1> DEFINE M == ToSet(w.u.machinesMap)
  <1>1. M \subseteq VMs /\ v \in VMs
    BY WorldParts
  <1>2. IsInjective(w.u.machinesMap) /\ w.u.pending_shutdown_requests # 0
    <2>1. v \in Marked(w) /\ IsInjective(w.u.machinesMap)
          /\ w.u.pending_shutdown_requests = Cardinality(Marked(w))
      BY DEF UserRight, RequestsRight, MachinesRight
    <2>2. IsFiniteSet(Marked(w))
      BY <2>1, MarkedFinite
    <2>3. Cardinality(Marked(w)) # 0
      BY <2>1, <2>2, FS_EmptySet
    <2>4. QED
      BY <2>1, <2>3
  <1>3. PICK g : /\ Gone(w, g, v)
                 /\ FreeAttended(TurnOff(w, v), u, v)
                        = ScheduleUnlessFinalizing(IF NothingLeft(g) THEN FinalizeUser(g, u) ELSE g)
    BY <1>1, <1>2, FreeAttendedGoes
  <1>4. g \in Worlds /\ UserRight(u, g, R, D \ {v}, S, E) /\ ~ g.u.userFinalizing
    BY <1>3, GoneKept DEF Gone
  <1>5. PICK f : f = IF NothingLeft(g) THEN FinalizeUser(g, u) ELSE g
    OBVIOUS
  <1>6. /\ f \in Worlds /\ UserRight(u, f, R, D \ {v}, S, E)
        /\ f.u.machinesMap = g.u.machinesMap
        /\ f.u.pendingVmsAtStartup = g.u.pendingVmsAtStartup
        /\ f.vm = g.vm
    BY <1>4, <1>5, FinalizeKept
  <1>7. PICK a : a = ScheduleUnlessFinalizing(f)
    OBVIOUS
  <1>8. a \in Worlds /\ UserRight(u, a, R, D \ {v}, S, E) /\ Frame(f, a)
    BY <1>6, <1>7, ScheduleUnlessKept DEF Kept
  <1>9. ToSet(f.u.machinesMap) = M \ {v} /\ f.u.pendingVmsAtStartup = w.u.pendingVmsAtStartup
        /\ f.vm[v].state = "off" /\ f.vm[v].pending = "NOT_PENDING_OPS"
        /\ \A x \in VMs \ {v} : f.vm[x] = w.vm[x]
    BY <1>3, <1>6 DEF Gone
  <1>10. /\ a.u.machinesMap = f.u.machinesMap
         /\ a.u.pendingVmsAtStartup = f.u.pendingVmsAtStartup
         /\ \A x \in VMs : a.vm[x].state = "off" <=> f.vm[x].state = "off"
         /\ \A x \in VMs \ (M \ {v}) : a.vm[x] = f.vm[x]
    BY <1>8, <1>9 DEF Frame, SameMap
  <1> HIDE DEF M
  <1>11. /\ a.vm[v].state = "off" /\ a.vm[v].pending = "NOT_PENDING_OPS"
         /\ \A x \in VMs \ {v} : a.vm[x].state = "off" <=> w.vm[x].state = "off"
         /\ \A x \in VMs \ M : a.vm[x] = w.vm[x]
    <2>1. v \in M
      BY DEF M
    <2>2. a.vm[v] = f.vm[v]
      BY <1>1, <1>10
    <2>3. \A x \in VMs \ {v} : a.vm[x].state = "off" <=> w.vm[x].state = "off"
      BY <1>9, <1>10
    <2>4. \A x \in VMs \ M : a.vm[x] = w.vm[x]
      BY <1>9, <1>10, <2>1
    <2>5. QED
      BY <1>9, <2>2, <2>3, <2>4
  <1>12. MachineGone(u, w, a, v, R, D, S, E)
    BY <1>8, <1>9, <1>10, <1>11 DEF M, MachineGone
  <1>13. a = FreeAttended(TurnOff(w, v), u, v)
    BY <1>3, <1>5, <1>7
  <1>14. QED
    BY <1>12, <1>13

\* The elements of a sequence are of its type.
LEMMA ElementsTyped ==
    ASSUME NEW T, NEW s \in Seq(T)
    PROVE  ToSet(s) \subseteq T /\ DOMAIN s = 1 .. Len(s) /\ Len(s) \in Nat
  BY DEF ToSet

\* The world after the machines vs were added and those of K started.
Adds(w, b, vs, K) ==
    /\ b \in Worlds /\ SameJobs(w, b)
    /\ IsInjective(b.u.machinesMap)
    /\ ToSet(b.u.machinesMap) = ToSet(w.u.machinesMap) \cup ToSet(vs)
    /\ w.u.pendingVmsAtStartup - Len(vs) <= b.u.pendingVmsAtStartup
    /\ b.u.pending_shutdown_requests = w.u.pending_shutdown_requests
    /\ b.u.userFinalizing = w.u.userFinalizing
    /\ K \subseteq ToSet(vs)
    /\ w.u.containerWaitingQueue = <<>> => K = {}
    /\ Len(vs) <= Len(w.u.containerWaitingQueue) => K = ToSet(vs)
    /\ \A v \in K : b.vm[v].state = "idle" /\ b.vm[v].pending = "NOT_PENDING_OPS"
    /\ \A v \in VMs \ K : b.vm[v] = w.vm[v]
    /\ b.out = w.out

\* The answer to a start adds the machines to the user's map.
LEMMA StartAttendedAdds ==
    ASSUME NEW w \in Worlds, NEW vs \in Seq(VMs), IsInjective(vs), IsInjective(w.u.machinesMap),
           ToSet(vs) \cap ToSet(w.u.machinesMap) = {},
           \A v \in ToSet(vs) : w.vm[v].state = "off",
           Len(vs) <= w.u.pendingVmsAtStartup
    PROVE  \E b, K : Adds(w, b, vs, K) /\ StartAttended(w, vs) = ScheduleUnlessFinalizing(b)
  <1>1. /\ w.u.machinesMap \in Seq(VMs) /\ w.u.pendingVmsAtStartup \in Nat
        /\ w.vm \in [VMs -> VmStates] /\ w.u.containerWaitingQueue \in Seq(Jobs)
        /\ w.u.pending_shutdown_requests \in Nat
    BY WorldParts
  <1>2. PICK m \in Seq(VMs) : m = w.u.machinesMap \o vs /\ IsInjective(m)
                              /\ ToSet(m) = ToSet(w.u.machinesMap) \cup ToSet(vs)
    <2>1. ToSet(w.u.machinesMap) \cap ToSet(vs) = {}
      OBVIOUS
    <2>2. PICK m : m = w.u.machinesMap \o vs
      OBVIOUS
    <2>3. m \in Seq(VMs) /\ IsInjective(m)
      BY <1>1, <2>1, <2>2, ConcatOnce
    <2>4. ToSet(m) = ToSet(w.u.machinesMap) \cup ToSet(vs)
      BY <1>1, <2>2, ConcatSet
    <2>5. QED
      BY <2>2, <2>3, <2>4
  <1>3. PICK d : d = [w EXCEPT !.u.machinesMap = m]
    OBVIOUS
  <1>4. d \in Worlds
    BY <1>3 DEF Worlds, UserState
  <1>5. /\ d.u.containerWaitingQueue = w.u.containerWaitingQueue
        /\ d.u.waitingForStorage = w.u.waitingForStorage
        /\ d.u.containerRunningQueue = w.u.containerRunningQueue
        /\ d.u.machine = w.u.machine
        /\ d.u.vms_waiting_remote_st = w.u.vms_waiting_remote_st
        /\ d.u.machinesMap = m
        /\ d.u.pendingVmsAtStartup = w.u.pendingVmsAtStartup
        /\ d.u.pending_shutdown_requests = w.u.pending_shutdown_requests
        /\ d.u.userFinalizing = w.u.userFinalizing
        /\ d.vm = w.vm /\ d.out = w.out
    BY <1>3 DEF Worlds, UserState
  <1>6. PICK n \in Nat, l \in Nat : n = Len(w.u.containerWaitingQueue) /\ l = Len(vs)
    <2>1. Len(w.u.containerWaitingQueue) \in Nat /\ Len(vs) \in Nat
      BY <1>1, WorldParts
    <2>2. QED
      BY <2>1
  <1>7. PICK k \in 0 .. l : k = IF n < l THEN n ELSE l
    OBVIOUS
  <1>8. PICK kept : kept = SubSeq(vs, 1, k)
    OBVIOUS
  <1>9. PICK rest : rest = SubSeq(vs, k + 1, l)
    OBVIOUS
  <1>10. /\ kept \in Seq(VMs) /\ Len(kept) = k /\ ToSet(kept) \subseteq ToSet(vs)
         /\ rest \in Seq(VMs) /\ IsInjective(rest) /\ ToSet(rest) \subseteq ToSet(vs)
         /\ k = 0 => ToSet(kept) = {}
         /\ k = l => kept = vs
    <2>1. /\ kept \in Seq(VMs) /\ ToSet(kept) = {vs[i] : i \in 1 .. k} /\ Len(kept) = k
          /\ rest \in Seq(VMs) /\ IsInjective(rest) /\ ToSet(rest) = ToSet(vs) \ ToSet(kept)
          /\ k = l => kept = vs
      <3>1. k \in 0 .. Len(vs) /\ kept = SubSeq(vs, 1, k) /\ rest = SubSeq(vs, k + 1, Len(vs))
        BY <1>6, <1>8, <1>9
      <3>2. /\ kept \in Seq(VMs) /\ ToSet(kept) = {vs[i] : i \in 1 .. k} /\ Len(kept) = k
            /\ rest \in Seq(VMs) /\ IsInjective(rest) /\ ToSet(rest) = ToSet(vs) \ ToSet(kept)
            /\ k = Len(vs) => kept = vs
        BY ONLY <3>1, vs \in Seq(VMs), IsInjective(vs), SplitOnce
      <3>3. QED
        BY <1>6, <3>2
    <2>2. \A i \in 1 .. k : i \in DOMAIN vs
      BY <1>6, ElementsTyped
    <2>3. {vs[i] : i \in 1 .. k} \subseteq ToSet(vs)
      BY <2>2 DEF ToSet
    <2>4. k = 0 => {vs[i] : i \in 1 .. k} = {}
      OBVIOUS
    <2>5. QED
      BY <2>1, <2>3, <2>4
  <1>11. KeptVMs(w, vs) = kept
    BY <1>6, <1>7, <1>8 DEF KeptVMs
  <1>12. PICK e : e = ShutdownVMs(d, rest)
    OBVIOUS
  <1>13. Shuts(d, e, {})
    <2>1. {v \in ToSet(rest) : d.vm[v].state # "off"} = {}
      BY <1>5, <1>10
    <2>2. Shuts(d, e, {v \in ToSet(rest) : d.vm[v].state # "off"})
      BY <1>4, <1>10, <1>12, ShutdownShuts
    <2>3. QED
      BY <2>1, <2>2
  <1>14. /\ e \in Worlds /\ SameJobs(d, e) /\ SameMap(d, e)
         /\ e.u.pending_shutdown_requests = d.u.pending_shutdown_requests
         /\ e.out = d.out /\ \A v \in VMs : e.vm[v] = d.vm[v]
    <2>1. /\ e \in Worlds /\ SameJobs(d, e) /\ SameMap(d, e)
          /\ e.u.pending_shutdown_requests = d.u.pending_shutdown_requests + Cardinality({})
          /\ Marks(d, e, {}, "PENDING_SHUTDOWN") /\ Sends(d, e, {Free(v) : v \in {}})
      BY <1>13 DEF Shuts
    <2>2. Cardinality({}) = 0 /\ d.u.pending_shutdown_requests \in Nat
      BY <1>1, <1>5, FS_EmptySet
    <2>3. e.out = d.out
      <3>1. {Free(v) : v \in {}} = {}
        OBVIOUS
      <3>2. QED
        BY <1>4, <2>1, <3>1, SendsFacts
    <2>4. QED
      BY <2>1, <2>2, <2>3 DEF Marks
  <1> DEFINE K == ToSet(kept)
             vms == [v \in VMs |-> IF v \in K THEN [state |-> "idle", pending |-> "NOT_PENDING_OPS"]
                                   ELSE e.vm[v]]
             p == e.u.pendingVmsAtStartup - k
  <1>15. K \subseteq ToSet(vs) /\ ToSet(vs) \subseteq VMs /\ K \subseteq VMs
    BY <1>10, ElementsTyped
  <1>16. p \in Nat /\ w.u.pendingVmsAtStartup - l <= p
    BY <1>1, <1>5, <1>6, <1>7, <1>14 DEF SameMap
  <1>17. PICK b : b = [e EXCEPT !.u.pendingVmsAtStartup = p, !.vm = vms]
    OBVIOUS
  <1>18. StartAttended(w, vs) = ScheduleUnlessFinalizing(b)
    BY <1>2, <1>3, <1>6, <1>9, <1>10, <1>11, <1>12, <1>17 DEF StartAttended
  <1> HIDE DEF K, p
  <1>19. /\ vms \in [VMs -> VmStates]
         /\ \A v \in K : vms[v].state = "idle" /\ vms[v].pending = "NOT_PENDING_OPS"
         /\ \A v \in VMs \ K : vms[v] = w.vm[v]
    <2>1. e.vm \in [VMs -> VmStates]
      BY <1>14, WorldParts
    <2>2. QED
      BY <1>5, <1>14, <1>15, <2>1 DEF VmStates
  <1> HIDE DEF vms
  <1>20. b \in Worlds
    BY <1>14, <1>16, <1>17, <1>19 DEF Worlds, UserState
  <1>21. /\ b.u.containerWaitingQueue = e.u.containerWaitingQueue
         /\ b.u.waitingForStorage = e.u.waitingForStorage
         /\ b.u.containerRunningQueue = e.u.containerRunningQueue
         /\ b.u.machine = e.u.machine
         /\ b.u.vms_waiting_remote_st = e.u.vms_waiting_remote_st
         /\ b.u.machinesMap = e.u.machinesMap
         /\ b.u.pendingVmsAtStartup = p
         /\ b.u.pending_shutdown_requests = e.u.pending_shutdown_requests
         /\ b.u.userFinalizing = e.u.userFinalizing
         /\ b.vm = vms /\ b.out = e.out
    BY <1>14, <1>17 DEF Worlds, UserState
  <1>22. /\ w.u.containerWaitingQueue = <<>> => K = {}
         /\ l <= n => K = ToSet(vs)
    <2>1. w.u.containerWaitingQueue = <<>> => n = 0
      BY <1>6
    <2>2. w.u.containerWaitingQueue = <<>> => k = 0
      BY <1>7, <2>1
    <2>3. l <= n => k = l
      BY <1>7
    <2>4. QED
      BY <1>10, <2>2, <2>3 DEF K
  <1>23. Adds(w, b, vs, K)
    <2>1. SameJobs(w, b)
      BY <1>5, <1>14, <1>21 DEF SameJobs
    <2>2. /\ b.u.machinesMap = m /\ b.u.userFinalizing = w.u.userFinalizing
          /\ b.u.pending_shutdown_requests = w.u.pending_shutdown_requests /\ b.out = w.out
      BY <1>5, <1>14, <1>21 DEF SameMap
    <2>3. QED
      BY <1>2, <1>6, <1>15, <1>16, <1>19, <1>20, <1>21, <1>22, <2>1, <2>2 DEF Adds
  <1>24. QED
    BY <1>18, <1>23

\* World a is world w after user u was told of his machines vs.
MachinesCame(u, w, a, vs, R, D, S, E) ==
    /\ a \in Worlds /\ UserRight(u, a, R, D, S, E)
    /\ ToSet(a.u.machinesMap) = ToSet(w.u.machinesMap) \cup ToSet(vs)
    /\ w.u.pendingVmsAtStartup - Len(vs) <= a.u.pendingVmsAtStartup
    /\ a.u.userFinalizing = w.u.userFinalizing
    /\ \A x \in VMs \ ToSet(vs) : a.vm[x].state = "off" <=> w.vm[x].state = "off"
    /\ \A x \in VMs \ (ToSet(w.u.machinesMap) \cup ToSet(vs)) : a.vm[x] = w.vm[x]
    /\ Len(vs) <= Len(w.u.containerWaitingQueue) => \A x \in ToSet(vs) : a.vm[x].state # "off"

\* The answer to a start request keeps the books, with the new machines.
LEMMA StartKept ==
    ASSUME NEW u \in Users, NEW w \in Worlds, NEW R, NEW D, NEW S, NEW E,
           UserRight(u, w, R, D, S, E), NEW vs \in Seq(VMs), IsInjective(vs),
           ToSet(vs) \cap ToSet(w.u.machinesMap) = {},
           \A v \in ToSet(vs) : /\ w.vm[v].state = "off" /\ w.vm[v].pending = "NOT_PENDING_OPS"
                                /\ Free(v) \notin Asks(w, R) /\ v \notin D,
           Len(vs) <= w.u.pendingVmsAtStartup
    PROVE  MachinesCame(u, w, StartAttended(w, vs), vs, R, D, S, E)
  <1> DEFINE M == ToSet(w.u.machinesMap)
             V == ToSet(vs)
  <1>1. JobsRight(u, w, E) /\ MachinesRight(w) /\ RequestsRight(u, w, R, D, S) /\ FinalizingRight(w)
    BY DEF UserRight
  <1>2. PICK b, K : Adds(w, b, vs, K) /\ StartAttended(w, vs) = ScheduleUnlessFinalizing(b)
    BY <1>1, StartAttendedAdds DEF MachinesRight
  <1>3. /\ b \in Worlds /\ b.u.containerWaitingQueue = w.u.containerWaitingQueue
        /\ b.u.waitingForStorage = w.u.waitingForStorage
        /\ b.u.containerRunningQueue = w.u.containerRunningQueue
        /\ b.u.machine = w.u.machine
        /\ b.u.vms_waiting_remote_st = w.u.vms_waiting_remote_st
        /\ IsInjective(b.u.machinesMap) /\ ToSet(b.u.machinesMap) = M \cup V
        /\ b.u.pending_shutdown_requests = w.u.pending_shutdown_requests
        /\ b.u.userFinalizing = w.u.userFinalizing
        /\ K \subseteq V /\ (w.u.containerWaitingQueue = <<>> => K = {})
        /\ (Len(vs) <= Len(w.u.containerWaitingQueue) => K = V)
        /\ \A v \in K : b.vm[v].state = "idle" /\ b.vm[v].pending = "NOT_PENDING_OPS"
        /\ \A v \in VMs \ K : b.vm[v] = w.vm[v]
        /\ b.out = w.out
    BY <1>2 DEF Adds, SameJobs
  <1>4. M \subseteq VMs /\ V \subseteq VMs /\ M \cap V = {}
    BY WorldParts, ElementsTyped
  <1> HIDE DEF M, V
  <1>5. Assigned(b) = Assigned(w) /\ Asks(b, R) = Asks(w, R)
    BY <1>3 DEF Assigned, Asks
  <1>6. JobsRight(u, b, E)
    BY <1>1, <1>3, <1>5 DEF JobsRight
  <1>7. /\ \A v \in M : b.vm[v] = w.vm[v]
        /\ \A v \in V : /\ b.vm[v].pending = "NOT_PENDING_OPS"
                        /\ b.vm[v].state = "idle" \/ (b.vm[v].state = "off" /\ v \notin K)
    BY <1>3, <1>4 DEF V
  <1>8. MachinesRight(b)
    <2>1. \A j \in Assigned(w) : w.u.machine[j] \in M
      BY <1>1 DEF MachinesRight, M
    <2>2. \A j \in b.u.waitingForStorage :
              /\ b.vm[b.u.machine[j]].state = "idle"
              /\ b.vm[b.u.machine[j]].pending = "PENDING_STORAGE"
              /\ b.u.vms_waiting_remote_st[b.u.machine[j]] = 1
      BY <1>1, <1>3, <1>7, <2>1 DEF MachinesRight, Assigned
    <2>3. \A j \in b.u.containerRunningQueue :
              /\ b.vm[b.u.machine[j]].state = "running"
              /\ b.vm[b.u.machine[j]].pending = "NOT_PENDING_OPS"
      BY <1>1, <1>3, <1>7, <2>1 DEF MachinesRight, Assigned
    <2>4. ASSUME NEW x \in ToSet(b.u.machinesMap)
          PROVE  /\ b.vm[x].state = "off" => b.vm[x].pending = "NOT_PENDING_OPS"
                 /\ b.vm[x].state = "running" => \E k \in b.u.containerRunningQueue : b.u.machine[k] = x
                 /\ b.vm[x].pending = "PENDING_STORAGE" => \E k \in b.u.waitingForStorage : b.u.machine[k] = x
                 /\ b.vm[x].pending = "PENDING_SHUTDOWN" => b.vm[x].state = "idle"
      <3>1. CASE x \in M
        <4>1. b.vm[x] = w.vm[x] /\ x \in ToSet(w.u.machinesMap)
          BY <1>7, <3>1 DEF M
        <4>2. QED
          BY <1>1, <1>3, <4>1 DEF MachinesRight
      <3>2. CASE x \in V
        BY <1>7, <3>2
      <3>3. QED
        BY <1>3, <3>1, <3>2
    <2>5. /\ \A j \in Assigned(b) : b.u.machine[j] \in ToSet(b.u.machinesMap)
          /\ \A j, k \in Assigned(b) : b.u.machine[j] = b.u.machine[k] => j = k
          /\ \A x \in VMs : b.u.vms_waiting_remote_st[x] # 0 =>
                \E k \in b.u.waitingForStorage : b.u.machine[k] = x
      BY <1>1, <1>3, <1>5, <2>1 DEF MachinesRight
    <2>6. QED
      BY <1>3, <2>2, <2>3, <2>4, <2>5 DEF MachinesRight
  <1>9. Marked(b) = Marked(w)
    BY <1>3, <1>7 DEF Marked, M
  <1>10. RequestsRight(u, b, R, D, S)
    <2>1. ASSUME NEW x \in ToSet(b.u.machinesMap)
          PROVE  /\ x \in Marked(b) <=> (Free(x) \in Asks(b, R) \/ x \in D)
                 /\ ~(Free(x) \in Asks(b, R) /\ x \in D)
      <3>1. CASE x \in M
        BY <1>1, <1>5, <1>9, <3>1 DEF RequestsRight, M
      <3>2. CASE x \in V
        <4>1. x \notin Marked(w)
          BY <1>4, <3>2 DEF Marked, M
        <4>2. QED
          BY <1>5, <1>9, <3>2, <4>1 DEF V
      <3>3. QED
        BY <1>3, <3>1, <3>2
    <2>2. ToSet(b.out) \subseteq {Storage(j) : j \in MyJobs(u)} \cup {Free(x) : x \in ToSet(b.u.machinesMap)}
                              \cup {Abandon(u)}
      BY <1>1, <1>3 DEF RequestsRight, M
    <2>3. QED
      BY <1>1, <1>3, <1>5, <1>9, <2>1, <2>2 DEF RequestsRight
  <1>11. FinalizingRight(b)
    BY <1>1, <1>3, <1>4, <1>5, <1>7 DEF FinalizingRight, M, V
  <1>12. UserRight(u, b, R, D, S, E)
    BY <1>6, <1>8, <1>10, <1>11 DEF UserRight
  <1>13. PICK a : a = ScheduleUnlessFinalizing(b)
    OBVIOUS
  <1>14. a \in Worlds /\ UserRight(u, a, R, D, S, E) /\ Frame(b, a)
    BY <1>3, <1>12, <1>13, ScheduleUnlessKept DEF Kept
  <1>15. /\ a.u.machinesMap = b.u.machinesMap
         /\ a.u.pendingVmsAtStartup = b.u.pendingVmsAtStartup
         /\ a.u.userFinalizing = b.u.userFinalizing
         /\ \A x \in VMs : a.vm[x].state = "off" <=> b.vm[x].state = "off"
         /\ \A x \in VMs \ (M \cup V) : a.vm[x] = b.vm[x]
    BY <1>3, <1>14 DEF Frame, SameMap
  <1>16. w.u.pendingVmsAtStartup - Len(vs) <= b.u.pendingVmsAtStartup
    BY <1>2 DEF Adds
  <1>17. /\ \A x \in VMs \ V : a.vm[x].state = "off" <=> w.vm[x].state = "off"
         /\ \A x \in VMs \ (M \cup V) : a.vm[x] = w.vm[x]
         /\ Len(vs) <= Len(w.u.containerWaitingQueue) => \A x \in V : a.vm[x].state # "off"
    BY <1>3, <1>4, <1>15
  <1>18. MachinesCame(u, w, a, vs, R, D, S, E)
    BY <1>3, <1>14, <1>15, <1>16, <1>17 DEF M, V, MachinesCame
  <1>19. a = StartAttended(w, vs)
    BY <1>2, <1>13
  <1>20. QED
    BY <1>18, <1>19

-------------------------------------------------------------------------------
(* The queue of requests.                                                  *)

\* Erasing an element of a sequence without repetition.
LEMMA EraseOnce ==
    ASSUME NEW T, NEW s \in Seq(T), IsInjective(s), NEW k \in 1 .. Len(s)
    PROVE  LET e == Queue!A!Erase(s, k) IN
           e \in Seq(T) /\ IsInjective(e) /\ ToSet(e) = ToSet(s) \ {s[k]}
  <1>1. PICK n \in Nat \ {0} : n = Len(s) /\ DOMAIN s = 1 .. n /\ k \in 1 .. n /\ n - 1 \in Nat
    <2>1. PICK n \in Nat : n = Len(s) /\ DOMAIN s = 1 .. n
      BY ElementsTyped
    <2>2. k \in 1 .. n
      BY <2>1
    <2>3. n # 0 /\ n - 1 \in Nat
      BY <2>2
    <2>4. QED
      BY <2>1, <2>2, <2>3
  <1>2. PICK e : e = Queue!A!Erase(s, k)
    OBVIOUS
  <1>3. e = [i \in 1 .. n - 1 |-> IF i < k THEN s[i] ELSE s[i + 1]]
    BY <1>1, <1>2 DEF Queue!A!Erase
  <1>4. \A i \in 1 .. n : s[i] \in T
    BY <1>1
  <1>5. e \in Seq(T) /\ DOMAIN e = 1 .. n - 1
    <2>1. \A i \in 1 .. n - 1 : i \in 1 .. n /\ i + 1 \in 1 .. n
      BY <1>1
    <2>2. \A i \in 1 .. n - 1 : (IF i < k THEN s[i] ELSE s[i + 1]) \in T
      BY <1>4, <2>1
    <2>3. QED
      BY <1>1, <1>3, <2>2
  <1>6. ASSUME NEW i \in 1 .. n - 1, NEW l \in 1 .. n - 1, e[i] = e[l] PROVE i = l
    <2>1. PICK x \in 1 .. n : x = IF i < k THEN i ELSE i + 1
      BY <1>1
    <2>2. PICK y \in 1 .. n : y = IF l < k THEN l ELSE l + 1
      BY <1>1
    <2>3. e[i] = s[x] /\ e[l] = s[y]
      BY <1>3, <2>1, <2>2
    <2>4. x = y
      BY <1>1, <1>6, <2>3 DEF IsInjective
    <2>5. QED
      BY <2>1, <2>2, <2>4
  <1>7. IsInjective(e)
    BY <1>5, <1>6 DEF IsInjective
  <1>8. ASSUME NEW i \in 1 .. n - 1 PROVE e[i] \in ToSet(s) /\ e[i] # s[k]
    <2>1. PICK x \in 1 .. n : x = (IF i < k THEN i ELSE i + 1) /\ x # k
      BY <1>1
    <2>2. e[i] = s[x]
      BY <1>3, <2>1
    <2>3. s[x] # s[k]
      BY <1>1, <2>1 DEF IsInjective
    <2>4. QED
      BY <1>1, <2>2, <2>3 DEF ToSet
  <1>9. ASSUME NEW i \in 1 .. n, i # k PROVE s[i] \in ToSet(e)
    <2>1. PICK x \in 1 .. n - 1 : x = IF i < k THEN i ELSE i - 1
      BY <1>1, <1>9
    <2>2. e[x] = s[i]
      BY <1>3, <1>9, <2>1
    <2>3. QED
      BY <1>5, <2>2 DEF ToSet
  <1>10. ToSet(e) = ToSet(s) \ {s[k]}
    <2>1. ToSet(e) \subseteq ToSet(s) \ {s[k]}
      BY <1>5, <1>8 DEF ToSet
    <2>2. \A r \in ToSet(s) : r # s[k] => r \in ToSet(e)
      BY <1>1, <1>9 DEF ToSet
    <2>3. QED
      BY <2>1, <2>2
  <1>11. QED
    BY <1>2, <1>5, <1>7, <1>10

\* What the operations of the queue do to the outstanding requests: those of s are new.
LEMMA SendEffect ==
    ASSUME QueueRight, NEW s \in Seq(Requests), IsInjective(s), ToSet(s) \cap Outs = {},
           Queue!UserSendRequest(s)
    PROVE  QueueRight' /\ Outs' = Outs \cup ToSet(s)
  <1>1. /\ requestsQueue \in Seq(Requests) /\ temporalRequestsQueue \in Seq(Requests) /\ cursor \in Nat
        /\ IsInjective(requestsQueue) /\ IsInjective(temporalRequestsQueue)
        /\ ToSet(requestsQueue) \cap ToSet(temporalRequestsQueue) = {}
    BY DEF QueueRight
  <1>2. /\ requestsQueue' = requestsQueue \o s
        /\ temporalRequestsQueue' = temporalRequestsQueue /\ cursor' = cursor
    BY DEF Queue!UserSendRequest
  <1>3. /\ ToSet(requestsQueue) \cap ToSet(s) = {} /\ ToSet(s) \cap ToSet(temporalRequestsQueue) = {}
    BY DEF Outs
  <1>4. requestsQueue' \in Seq(Requests) /\ IsInjective(requestsQueue')
    BY <1>1, <1>2, <1>3, ConcatOnce
  <1>5. ToSet(requestsQueue') = ToSet(requestsQueue) \cup ToSet(s)
    BY <1>1, <1>2, ConcatSet
  <1>6. QueueRight'
    <2>1. ToSet(requestsQueue') \cap ToSet(temporalRequestsQueue') = {}
      BY <1>1, <1>2, <1>3, <1>5
    <2>2. QED
      BY <1>1, <1>2, <1>4, <2>1 DEF QueueRight
  <1>7. Outs' = ToSet(requestsQueue') \cup ToSet(temporalRequestsQueue')
    BY DEF Outs
  <1>8. QED
    BY <1>2, <1>5, <1>6, <1>7 DEF Outs

\* Postponing a request adds what arrived meanwhile and loses nothing.
LEMMA PostponeEffect ==
    ASSUME QueueRight, NEW s \in Seq(Requests), IsInjective(s), ToSet(s) \cap Outs = {},
           Queue!PostponeRequest(s)
    PROVE  QueueRight' /\ Outs' = Outs \cup ToSet(s)
  <1>1. /\ requestsQueue \in Seq(Requests) /\ temporalRequestsQueue \in Seq(Requests) /\ cursor \in Nat
        /\ IsInjective(requestsQueue) /\ IsInjective(temporalRequestsQueue)
        /\ ToSet(requestsQueue) \cap ToSet(temporalRequestsQueue) = {}
    BY DEF QueueRight
  <1>2. /\ temporalRequestsQueue' = temporalRequestsQueue \o s
        /\ requestsQueue' = requestsQueue /\ cursor' = cursor + 1
    BY DEF Queue!PostponeRequest
  <1>3. /\ ToSet(requestsQueue) \cap ToSet(s) = {} /\ ToSet(temporalRequestsQueue) \cap ToSet(s) = {}
    BY DEF Outs
  <1>4. temporalRequestsQueue' \in Seq(Requests) /\ IsInjective(temporalRequestsQueue')
    BY <1>1, <1>2, <1>3, ConcatOnce
  <1>5. ToSet(temporalRequestsQueue') = ToSet(temporalRequestsQueue) \cup ToSet(s)
    BY <1>1, <1>2, ConcatSet
  <1>6. QueueRight'
    <2>1. ToSet(requestsQueue') \cap ToSet(temporalRequestsQueue') = {}
      BY <1>1, <1>2, <1>3, <1>5
    <2>2. QED
      BY <1>1, <1>2, <1>4, <2>1 DEF QueueRight
  <1>7. Outs' = ToSet(requestsQueue') \cup ToSet(temporalRequestsQueue')
    BY DEF Outs
  <1>8. QED
    BY <1>2, <1>5, <1>6, <1>7 DEF Outs

\* Erasing a request takes it from the queues and adds what arrived meanwhile.
LEMMA EraseEffect ==
    ASSUME QueueRight, NEW s \in Seq(Requests), IsInjective(s), ToSet(s) \cap Outs = {},
           NEW r, r = requestsQueue[cursor], Queue!EraseRequest(s)
    PROVE  QueueRight' /\ r \in Outs /\ Outs' = (Outs \ {r}) \cup ToSet(s)
  <1>1. /\ requestsQueue \in Seq(Requests) /\ temporalRequestsQueue \in Seq(Requests) /\ cursor \in Nat
        /\ IsInjective(requestsQueue) /\ IsInjective(temporalRequestsQueue)
        /\ ToSet(requestsQueue) \cap ToSet(temporalRequestsQueue) = {}
    BY DEF QueueRight
  <1>2. /\ temporalRequestsQueue' = temporalRequestsQueue \o s
        /\ requestsQueue' = Queue!A!Erase(requestsQueue, cursor) /\ cursor' = cursor
        /\ cursor \in 1 .. Len(requestsQueue)
    BY DEF Queue!EraseRequest
  <1>3. /\ ToSet(requestsQueue) \cap ToSet(s) = {} /\ ToSet(temporalRequestsQueue) \cap ToSet(s) = {}
    BY DEF Outs
  <1>4. temporalRequestsQueue' \in Seq(Requests) /\ IsInjective(temporalRequestsQueue')
    BY <1>1, <1>2, <1>3, ConcatOnce
  <1>5. ToSet(temporalRequestsQueue') = ToSet(temporalRequestsQueue) \cup ToSet(s)
    BY <1>1, <1>2, ConcatSet
  <1>6. /\ requestsQueue' \in Seq(Requests) /\ IsInjective(requestsQueue')
        /\ ToSet(requestsQueue') = ToSet(requestsQueue) \ {r}
    BY <1>1, <1>2, EraseOnce
  <1>7. r \in ToSet(requestsQueue)
    BY <1>1, <1>2 DEF ToSet
  <1>8. QueueRight'
    <2>1. ToSet(requestsQueue') \cap ToSet(temporalRequestsQueue') = {}
      BY <1>1, <1>3, <1>5, <1>6
    <2>2. QED
      BY <1>1, <1>2, <1>4, <1>6, <2>1 DEF QueueRight
  <1>9. Outs' = ToSet(requestsQueue') \cup ToSet(temporalRequestsQueue')
    BY DEF Outs
  <1>10. Outs' = (Outs \ {r}) \cup ToSet(s)
    BY <1>1, <1>3, <1>5, <1>6, <1>7, <1>9 DEF Outs
  <1>11. QED
    BY <1>7, <1>8, <1>10 DEF Outs

\* Erasing a storage request takes it from the queues.
LEMMA EraseStorageEffect ==
    ASSUME QueueRight, NEW r, r = requestsQueue[cursor], Queue!EraseStorageRequest
    PROVE  QueueRight' /\ r \in Outs /\ Outs' = Outs \ {r}
  <1>1. /\ requestsQueue \in Seq(Requests) /\ temporalRequestsQueue \in Seq(Requests) /\ cursor \in Nat
        /\ IsInjective(requestsQueue) /\ IsInjective(temporalRequestsQueue)
        /\ ToSet(requestsQueue) \cap ToSet(temporalRequestsQueue) = {}
    BY DEF QueueRight
  <1>2. /\ temporalRequestsQueue' = temporalRequestsQueue
        /\ requestsQueue' = Queue!A!Erase(requestsQueue, cursor) /\ cursor' = cursor + 1
        /\ cursor \in 1 .. Len(requestsQueue)
    BY DEF Queue!EraseStorageRequest
  <1>3. /\ requestsQueue' \in Seq(Requests) /\ IsInjective(requestsQueue')
        /\ ToSet(requestsQueue') = ToSet(requestsQueue) \ {r}
    BY <1>1, <1>2, EraseOnce
  <1>4. r \in ToSet(requestsQueue)
    BY <1>1, <1>2 DEF ToSet
  <1>5. QueueRight'
    <2>1. ToSet(requestsQueue') \cap ToSet(temporalRequestsQueue') = {}
      BY <1>1, <1>2, <1>3
    <2>2. QED
      BY <1>1, <1>2, <1>3, <2>1 DEF QueueRight
  <1>6. Outs' = ToSet(requestsQueue') \cup ToSet(temporalRequestsQueue')
    BY DEF Outs
  <1>7. Outs' = Outs \ {r}
    BY <1>1, <1>2, <1>3, <1>4, <1>6 DEF Outs
  <1>8. QED
    BY <1>4, <1>5, <1>7 DEF Outs

\* Unblocking the scheduler moves requests between the queues.
LEMMA UnblockEffect ==
    ASSUME QueueRight, Queue!SchedulerUnblock
    PROVE  QueueRight' /\ Outs' = Outs
  <1>1. /\ requestsQueue \in Seq(Requests) /\ temporalRequestsQueue \in Seq(Requests) /\ cursor \in Nat
        /\ IsInjective(requestsQueue) /\ IsInjective(temporalRequestsQueue)
        /\ ToSet(requestsQueue) \cap ToSet(temporalRequestsQueue) = {}
    BY DEF QueueRight
  <1>2. /\ temporalRequestsQueue' = <<>> /\ cursor' = 0
        /\ requestsQueue' = requestsQueue \o temporalRequestsQueue
    BY DEF Queue!SchedulerUnblock
  <1>3. requestsQueue' \in Seq(Requests) /\ IsInjective(requestsQueue')
    BY <1>1, <1>2, ConcatOnce
  <1>4. ToSet(requestsQueue') = Outs
    BY <1>1, <1>2, ConcatSet DEF Outs
  <1>5. temporalRequestsQueue' \in Seq(Requests) /\ IsInjective(temporalRequestsQueue')
        /\ ToSet(temporalRequestsQueue') = {}
    BY <1>2 DEF IsInjective, ToSet
  <1>6. QueueRight'
    BY <1>2, <1>3, <1>5 DEF QueueRight
  <1>7. Outs' = ToSet(requestsQueue') \cup ToSet(temporalRequestsQueue')
    BY DEF Outs
  <1>8. QED
    BY <1>4, <1>5, <1>6, <1>7

\* Blocking the scheduler moves no request.
LEMMA BlockEffect ==
    ASSUME QueueRight, Queue!SchedulerBlock
    PROVE  QueueRight' /\ Outs' = Outs
  BY DEF QueueRight, Outs, Queue!SchedulerBlock

-------------------------------------------------------------------------------
(* The states.                                                             *)

\* A user's world has the parts of a world.
LEMMA WorldTyped ==
    ASSUME TypeOK, NEW u \in Users
    PROVE  /\ World(u) \in Worlds
           /\ World(u).u = user[u] /\ World(u).vm = vm /\ World(u).out = <<>>
  BY DEF TypeOK, Worlds, World, VmStates

\* So it is in the next state.
LEMMA NextWorldTyped ==
    ASSUME TypeOK', NEW u \in Users
    PROVE  /\ World(u)' \in Worlds
           /\ World(u)'.u = user'[u] /\ World(u)'.vm = vm' /\ World(u)'.out = <<>>
  BY DEF TypeOK, Worlds, World, VmStates

\* What the books are about: all that a user keeps but the machines he waits for.
SameBooks(x, y) ==
    /\ x.containerWaitingQueue = y.containerWaitingQueue
    /\ x.waitingForStorage = y.waitingForStorage
    /\ x.containerRunningQueue = y.containerRunningQueue
    /\ x.machinesMap = y.machinesMap /\ x.machine = y.machine
    /\ x.pending_shutdown_requests = y.pending_shutdown_requests
    /\ x.vms_waiting_remote_st = y.vms_waiting_remote_st
    /\ x.userFinalizing = y.userFinalizing

\* The books of a user are right in another world, where he and his machines are the same,
\* if his outstanding requests are the same.
LEMMA UserMoved ==
    ASSUME NEW u \in Users, NEW a \in Worlds, NEW R, NEW D, NEW S, NEW E,
           UserRight(u, a, R, D, S, E),
           NEW b \in Worlds, NEW R2, NEW D2, NEW S2, NEW E2,
           SameBooks(b.u, a.u), b.out = <<>>,
           \A v \in ToSet(a.u.machinesMap) :
              /\ b.vm[v] = a.vm[v]
              /\ Free(v) \in R2 \/ v \in D2 <=> Free(v) \in Asks(a, R) \/ v \in D
              /\ ~(Free(v) \in R2 /\ v \in D2),
           \A j \in MyJobs(u) :
              /\ Storage(j) \in R2 \/ j \in S2 <=> Storage(j) \in Asks(a, R) \/ j \in S
              /\ ~(Storage(j) \in R2 /\ j \in S2)
              /\ j \in E2 <=> j \in E,
           Abandon(u) \in R2 => Abandon(u) \in Asks(a, R)
    PROVE  UserRight(u, b, R2, D2, S2, E2)
  <1>1. JobsRight(u, a, E) /\ MachinesRight(a) /\ RequestsRight(u, a, R, D, S) /\ FinalizingRight(a)
    BY DEF UserRight
  <1>2. Assigned(b) = Assigned(a) /\ Marked(b) = Marked(a)
    BY DEF Assigned, Marked, SameBooks
  <1>3. IsInjective(b.out) /\ ToSet(b.out) = {} /\ Asks(b, R2) = R2
    BY DEF Asks, ToSet, IsInjective
  <1>4. JobsRight(u, b, E2)
    <2>1. /\ ToSet(a.u.containerWaitingQueue) \cup Assigned(a) \subseteq MyJobs(u)
          /\ ToSet(a.u.containerWaitingQueue) \cap (Assigned(a) \cup E) = {}
          /\ a.u.waitingForStorage \cap (a.u.containerRunningQueue \cup E) = {}
          /\ a.u.containerRunningQueue \cap E = {}
          /\ MyJobs(u) \subseteq ToSet(a.u.containerWaitingQueue) \cup Assigned(a) \cup E
          /\ a.u.waitingForStorage \subseteq MyJobs(u) /\ a.u.containerRunningQueue \subseteq MyJobs(u)
      BY <1>1 DEF JobsRight, Assigned
    <2>2. QED
      BY <1>1, <1>2, <2>1 DEF JobsRight, SameBooks
  <1>5. MachinesRight(b)
    <2>1. /\ b.u.waitingForStorage = a.u.waitingForStorage
          /\ b.u.containerRunningQueue = a.u.containerRunningQueue
          /\ b.u.machine = a.u.machine /\ b.u.machinesMap = a.u.machinesMap
          /\ b.u.vms_waiting_remote_st = a.u.vms_waiting_remote_st
      BY DEF SameBooks
    <2>2. \A v \in ToSet(a.u.machinesMap) : b.vm[v] = a.vm[v]
      OBVIOUS
    <2>3. QED
      BY <1>1, <2>1, <2>2, MachinesMoved
  <1>6. RequestsRight(u, b, R2, D2, S2)
    BY <1>1, <1>2, <1>3 DEF RequestsRight, SameBooks
  <1>7. FinalizingRight(b)
    BY <1>1, <1>2 DEF FinalizingRight, SameBooks
  <1>8. QED
    BY <1>4, <1>5, <1>6, <1>7 DEF UserRight

\* The requests that user u sends, or that are about his machines M.
OwnBy(u, M) == {Storage(j) : j \in MyJobs(u)} \cup {Free(v) : v \in M} \cup {Abandon(u), StartVM(u)}

\* A step that is about user u and the machines M, which no other user has.
OneUser(u, M) ==
    /\ M \subseteq VMs /\ Maps(u) \subseteq M /\ Maps(u)' \subseteq M
    /\ \A x \in Users \ {u} :
          /\ user'[x] = user[x] /\ Maps(x) \cap M = {}
          /\ x \in arrived' <=> x \in arrived
          /\ x \in userList' <=> x \in userList
          /\ selectionQuantity'[x] = selectionQuantity[x]
    /\ \A v \in VMs \ M : /\ vm'[v] = vm[v] /\ hostOf'[v] = hostOf[v]
                          /\ v \in reqPendingToDelete' <=> v \in reqPendingToDelete
    /\ \A r \in Requests \ OwnBy(u, M) : r \in Outs' <=> r \in Outs
    /\ \A j \in Jobs \ MyJobs(u) :
          /\ j \in pendingStorageRequests' <=> j \in pendingStorageRequests
          /\ executions'[j] = executions[j]

\* Each job is one user's.
LEMMA JobsApart ==
    /\ \A u \in Users : MyJobs(u) \subseteq Jobs /\ JobsOf[u] \in Seq(Jobs)
                        /\ IsInjective(JobsOf[u]) /\ JobsOf[u] # <<>>
    /\ \A u, x \in Users : u # x => MyJobs(u) \cap MyJobs(x) = {}
    /\ \A j \in Jobs : UserOfJob(j) \in Users /\ j \in MyJobs(UserOfJob(j))
  <1>1. \A u \in Users : JobsOf[u] \in Seq(Jobs) /\ IsInjective(JobsOf[u]) /\ JobsOf[u] # <<>>
    BY CloudAssumption
  <1>2. \A u \in Users : MyJobs(u) \subseteq Jobs
    BY <1>1, ElementsTyped DEF MyJobs
  <1>3. \A u, x \in Users : u # x => MyJobs(u) \cap MyJobs(x) = {}
    BY CloudAssumption DEF MyJobs
  <1>4. \A j \in Jobs : UserOfJob(j) \in Users /\ j \in MyJobs(UserOfJob(j))
    BY CloudAssumption DEF UserOfJob, MyJobs
  <1>5. QED
    BY <1>1, <1>2, <1>3, <1>4

\* Such a step leaves the books of the others right.
LEMMA OthersRight ==
    ASSUME IInv, TypeOK', NEW u \in Users, NEW M, OneUser(u, M), NEW x \in Users \ {u}
    PROVE  UserRight(x, World(x)', Outs', reqPendingToDelete', pendingStorageRequests', Done')
           /\ TenantRight(x)'
  <1>1. /\ TypeOK /\ TenantRight(x)
        /\ UserRight(x, World(x), Outs, reqPendingToDelete, pendingStorageRequests, Done)
    BY DEF IInv
  <1>2. /\ World(x) \in Worlds /\ World(x).u = user[x] /\ World(x).vm = vm /\ World(x).out = <<>>
        /\ World(x)' \in Worlds /\ World(x)'.u = user'[x] /\ World(x)'.vm = vm'
        /\ World(x)'.out = <<>>
    BY <1>1, WorldTyped, NextWorldTyped
  <1>3. /\ user'[x] = user[x] /\ Maps(x) \cap M = {} /\ Maps(x) \subseteq VMs /\ M \subseteq VMs
        /\ x \in arrived' <=> x \in arrived
        /\ x \in userList' <=> x \in userList
        /\ selectionQuantity'[x] = selectionQuantity[x]
    BY <1>2, WorldParts DEF OneUser, Maps
  <1>4. MyJobs(x) \cap MyJobs(u) = {} /\ MyJobs(x) \subseteq Jobs /\ MyJobs(u) \subseteq Jobs
    BY JobsApart
  <1>5. /\ \A v \in Maps(x) : Free(v) \in Requests \ OwnBy(u, M)
        /\ \A j \in MyJobs(x) : Storage(j) \in Requests \ OwnBy(u, M)
        /\ Abandon(x) \in Requests \ OwnBy(u, M) /\ StartVM(x) \in Requests \ OwnBy(u, M)
    BY <1>3, <1>4, RequestsApart, RequestsTyped DEF OwnBy
  <1>6. /\ \A v \in Maps(x) : /\ vm'[v] = vm[v] /\ (Free(v) \in Outs' <=> Free(v) \in Outs)
                              /\ v \in reqPendingToDelete' <=> v \in reqPendingToDelete
        /\ \A j \in MyJobs(x) : /\ Storage(j) \in Outs' <=> Storage(j) \in Outs
                                /\ j \in pendingStorageRequests' <=> j \in pendingStorageRequests
                                /\ executions'[j] = executions[j]
        /\ Abandon(x) \in Outs' <=> Abandon(x) \in Outs
        /\ StartVM(x) \in Outs' <=> StartVM(x) \in Outs
    BY <1>3, <1>4, <1>5 DEF OneUser
  <1>7. Asks(World(x), Outs) = Outs
    BY <1>2 DEF Asks, ToSet
  <1>8. \A j \in MyJobs(x) : j \in Done' <=> j \in Done
    BY <1>4, <1>6 DEF Done
  <1>9. UserRight(x, World(x)', Outs', reqPendingToDelete', pendingStorageRequests', Done')
    <2>1. /\ \A v \in Maps(x) : ~(Free(v) \in Outs /\ v \in reqPendingToDelete)
          /\ \A j \in MyJobs(x) : ~(Storage(j) \in Outs /\ j \in pendingStorageRequests)
      BY <1>1, <1>2, <1>7 DEF UserRight, RequestsRight, Maps
    <2> DEFINE a == World(x)
               b == World(x)'
               O == Outs'
               D == reqPendingToDelete'
               S == pendingStorageRequests'
               E == Done'
    <2>2. /\ b.u = a.u /\ b.out = <<>> /\ a \in Worlds /\ b \in Worlds
          /\ UserRight(x, a, Outs, reqPendingToDelete, pendingStorageRequests, Done)
      BY <1>1, <1>2, <1>3
    <2>3. \A v \in ToSet(a.u.machinesMap) :
              /\ b.vm[v] = a.vm[v]
              /\ Free(v) \in O \/ v \in D <=> Free(v) \in Asks(a, Outs) \/ v \in reqPendingToDelete
              /\ ~(Free(v) \in O /\ v \in D)
      BY <1>2, <1>6, <1>7, <2>1 DEF Maps
    <2>4. \A j \in MyJobs(x) :
              /\ Storage(j) \in O \/ j \in S <=> Storage(j) \in Asks(a, Outs) \/ j \in pendingStorageRequests
              /\ ~(Storage(j) \in O /\ j \in S)
              /\ j \in E <=> j \in Done
      BY <1>6, <1>7, <1>8, <2>1
    <2>5. Abandon(x) \in O => Abandon(x) \in Asks(a, Outs)
      BY <1>6, <1>7
    <2> HIDE DEF a, b, O, D, S, E
    <2>6. UserRight(x, b, O, D, S, E)
      BY <2>2, <2>3, <2>4, <2>5, UserMoved DEF SameBooks
    <2>7. QED
      BY <2>6 DEF b, O, D, S, E
  <1>10. TenantRight(x)'
    BY <1>1, <1>3, <1>6 DEF TenantRight
  <1>11. QED
    BY <1>9, <1>10

\* A step about user u that leaves his books right leaves all books right.
LEMMA BooksAfter ==
    ASSUME IInv, TypeOK', QueueRight', NEW u \in Users, NEW M, OneUser(u, M),
           UserRight(u, World(u)', Outs', reqPendingToDelete', pendingStorageRequests', Done'),
           TenantRight(u)',
           \A v \in Maps(u)' : hostOf'[v] # 0 /\ v < nextPid',
           \A v \in M : v \notin Maps(u)' =>
              /\ hostOf'[v] = 0 /\ vm'[v].state = "off" /\ vm'[v].pending = "NOT_PENDING_OPS"
              /\ v \notin reqPendingToDelete' /\ Free(v) \notin Outs',
           NotificationsRight', nextPid <= nextPid', \A j \in Jobs : executions'[j] \in 0 .. 1
    PROVE  IInv'
  <1>1. \A x \in Users :
           /\ UserRight(x, World(x)', Outs', reqPendingToDelete', pendingStorageRequests', Done')
           /\ TenantRight(x)'
    <2>1. TAKE x \in Users
    <2>2. CASE x = u
      BY <2>2
    <2>3. CASE x # u
      <3>1. x \in Users \ {u}
        BY <2>3
      <3>2. QED
        BY <3>1, OthersRight
    <2>4. QED
      BY <2>2, <2>3
  <1>2. /\ \A x \in Users \ {u} : Maps(x)' = Maps(x) /\ Maps(x) \cap M = {}
        /\ Maps(u) \subseteq M /\ Maps(u)' \subseteq M /\ M \subseteq VMs
    BY DEF OneUser, Maps
  <1>3. TypeOK /\ MachinesPlaced
    BY DEF IInv
  <1>4. \A x \in Users : Maps(x) \subseteq VMs
    BY <1>3, WorldTyped, WorldParts DEF Maps
  <1>5. \A v \in VMs \ M :
           /\ vm'[v] = vm[v] /\ hostOf'[v] = hostOf[v]
           /\ v \in reqPendingToDelete' <=> v \in reqPendingToDelete
           /\ Free(v) \in Outs' <=> Free(v) \in Outs
    <2>1. \A v \in VMs \ M : Free(v) \in Requests \ OwnBy(u, M)
      <3>1. MyJobs(u) \subseteq Jobs
        BY JobsApart
      <3>2. QED
        BY <1>2, <3>1, RequestsApart, RequestsTyped DEF OwnBy
    <2>2. QED
      BY <2>1 DEF OneUser
  <1>6. nextPid \in Nat /\ nextPid' \in Nat /\ VMs \subseteq Nat
    BY <1>3, CloudAssumption DEF TypeOK, VMs
  <1>7. MachinesPlaced'
    <2>1. ASSUME NEW x \in Users, NEW y \in Users, NEW v \in VMs, v \in Maps(x)', v \in Maps(y)'
          PROVE  x = y
      BY <1>2, <1>3, <2>1 DEF MachinesPlaced
    <2>2. ASSUME NEW x \in Users, NEW v \in Maps(x)' PROVE hostOf'[v] # 0 /\ v < nextPid'
      <3>1. CASE x = u
        BY <3>1
      <3>2. CASE x # u
        <4>1. v \in Maps(x) /\ v \in VMs \ M
          BY <1>2, <1>4, <3>2
        <4>2. hostOf[v] # 0 /\ v < nextPid
          BY <1>3, <4>1 DEF MachinesPlaced
        <4>3. hostOf'[v] = hostOf[v] /\ v \in Nat
          BY <1>5, <1>6, <4>1
        <4>4. QED
          BY <1>6, <4>2, <4>3
      <3>3. QED
        BY <3>1, <3>2
    <2>3. ASSUME NEW v \in VMs, \A x \in Users : v \notin Maps(x)'
          PROVE  /\ hostOf'[v] = 0 /\ vm'[v].state = "off" /\ vm'[v].pending = "NOT_PENDING_OPS"
                 /\ v \notin reqPendingToDelete' /\ Free(v) \notin Outs'
      <3>1. CASE v \in M
        BY <2>3, <3>1
      <3>2. CASE v \notin M
        <4>1. \A x \in Users : v \notin Maps(x)
          BY <1>2, <2>3, <3>2
        <4>2. QED
          BY <1>3, <1>5, <3>2, <4>1 DEF MachinesPlaced
      <3>3. QED
        BY <3>1, <3>2
    <2>4. QED
      BY <2>1, <2>2, <2>3 DEF MachinesPlaced
  <1>8. QED
    BY <1>1, <1>7 DEF IInv

\* A step that touches neither the users nor their machines and requests.
LEMMA BooksUntouched ==
    ASSUME IInv, TypeOK', QueueRight', NotificationsRight', Outs' = Outs,
           UNCHANGED <<user, vm, selectionQuantity, nextPid, hostOf, pendingStorageRequests,
                       reqPendingToDelete, userList, arrived, executions>>
    PROVE  IInv' /\ (AInv /\ fault' = fault => AInv')
  <1>1. \A x \in Users : World(x)' = World(x) /\ (TenantRight(x) => TenantRight(x)')
    BY DEF World, TenantRight
  <1>2. Done' = Done
    BY DEF Done
  <1>3. MachinesPlaced'
    BY DEF IInv, MachinesPlaced, Maps
  <1>4. \A x \in Users :
           UserRight(x, World(x)', Outs', reqPendingToDelete', pendingStorageRequests', Done')
    BY <1>1, <1>2 DEF IInv
  <1>5. IInv'
    BY <1>1, <1>3, <1>4 DEF IInv
  <1>6. ASSUME AInv, fault' = fault PROVE AInv'
    <2>1. \A x \in Users : AmpleRight(x)'
      BY <1>6 DEF AInv, AmpleRight, Maps
    <2>2. Granted' = Granted /\ Demand' = Demand
      BY DEF Granted, Demand, Asked
    <2>3. QED
      BY <1>6, <2>1, <2>2 DEF AInv
  <1>7. QED
    BY <1>5, <1>6

\* The state after a user's handler keeps its type.
LEMMA CommitTyped ==
    ASSUME TypeOK, NEW u \in Users, NEW a \in Worlds, Commit(u, a)
    PROVE  /\ user' \in [Users -> UserState] /\ user'[u] = a.u
           /\ \A x \in Users \ {u} : user'[x] = user[x]
           /\ vm' = a.vm
           /\ vm' \in [VMs -> [state : {"off", "idle", "running"},
                               pending : {"NOT_PENDING_OPS", "PENDING_STORAGE", "PENDING_SHUTDOWN"}]]
  <1>1. a.u \in UserState /\ a.vm \in [VMs -> VmStates] /\ user \in [Users -> UserState]
    BY WorldParts DEF TypeOK
  <1>2. user' = [user EXCEPT ![u] = a.u] /\ vm' = a.vm
    BY DEF Commit
  <1>3. QED
    BY <1>1, <1>2 DEF VmStates

\* The books of the user of a handler, once what it did is part of the state.
LEMMA CommitMoved ==
    ASSUME TypeOK, TypeOK', NEW u \in Users, NEW a \in Worlds, Commit(u, a), NEW R,
           Outs' = R \cup ToSet(a.out),
           UserRight(u, a, R, reqPendingToDelete', pendingStorageRequests', Done')
    PROVE  UserRight(u, World(u)', Outs', reqPendingToDelete', pendingStorageRequests', Done')
  <1>1. World(u)' \in Worlds /\ World(u)'.u = a.u /\ World(u)'.vm = a.vm /\ World(u)'.out = <<>>
    BY NextWorldTyped, CommitTyped
  <1> DEFINE b == World(u)'
             O == Outs'
             D == reqPendingToDelete'
             S == pendingStorageRequests'
             E == Done'
  <1>2. b \in Worlds /\ b.u = a.u /\ b.vm = a.vm /\ b.out = <<>> /\ O = Asks(a, R)
    BY <1>1 DEF Asks
  <1>3. UserRight(u, a, R, D, S, E)
    OBVIOUS
  <1> HIDE DEF b, O, D, S, E
  <1>4. /\ \A v \in ToSet(a.u.machinesMap) : ~(Free(v) \in Asks(a, R) /\ v \in D)
        /\ \A j \in MyJobs(u) : ~(Storage(j) \in Asks(a, R) /\ j \in S)
    BY <1>3 DEF UserRight, RequestsRight
  <1>5. UserRight(u, b, O, D, S, E)
    BY <1>2, <1>3, <1>4, UserMoved DEF SameBooks
  <1>6. QED
    BY <1>5 DEF b, O, D, S, E

\* What the books say of the requests that a handler sends.
LEMMA SentRight ==
    ASSUME NEW u \in Users, NEW a \in Worlds, NEW R, NEW D, NEW S, NEW E, UserRight(u, a, R, D, S, E)
    PROVE  /\ a.out \in Seq(Requests) /\ IsInjective(a.out) /\ ToSet(a.out) \cap R = {}
           /\ StartVM(u) \notin ToSet(a.out)
           /\ \A M : ToSet(a.u.machinesMap) \subseteq M => ToSet(a.out) \subseteq OwnBy(u, M)
           /\ Abandon(u) \in Asks(a, R) => a.u.userFinalizing
  <1>1. /\ a.out \in Seq(Requests) /\ ToSet(a.u.machinesMap) \subseteq VMs
    BY WorldParts
  <1>2. MyJobs(u) \subseteq Jobs
    BY JobsApart
  <1>3. /\ IsInjective(a.out) /\ ToSet(a.out) \cap R = {}
        /\ ToSet(a.out) \subseteq {Storage(j) : j \in MyJobs(u)}
                \cup {Free(v) : v \in ToSet(a.u.machinesMap)} \cup {Abandon(u)}
        /\ Abandon(u) \in Asks(a, R) => a.u.userFinalizing
    BY DEF UserRight, RequestsRight
  <1>4. StartVM(u) \notin ToSet(a.out)
    BY <1>1, <1>2, <1>3, RequestsApart
  <1>5. ASSUME NEW M, ToSet(a.u.machinesMap) \subseteq M PROVE ToSet(a.out) \subseteq OwnBy(u, M)
    BY <1>3, <1>5 DEF OwnBy
  <1>6. QED
    BY <1>1, <1>3, <1>4, <1>5

\* The machines of the users are apart, and a handler finds its user's books right.
LEMMA StateRight ==
    ASSUME IInv, NEW u \in Users
    PROVE  /\ TypeOK /\ QueueRight /\ TenantRight(u) /\ NotificationsRight
           /\ World(u) \in Worlds /\ World(u).u = user[u] /\ World(u).vm = vm /\ World(u).out = <<>>
           /\ UserRight(u, World(u), Outs, reqPendingToDelete, pendingStorageRequests, Done)
           /\ Maps(u) = ToSet(World(u).u.machinesMap) /\ Maps(u) \subseteq VMs
           /\ \A x \in Users \ {u} : Maps(x) \subseteq VMs /\ Maps(x) \cap Maps(u) = {}
           /\ \A v \in Maps(u) : hostOf[v] # 0 /\ v < nextPid
  <1>1. /\ TypeOK /\ QueueRight /\ TenantRight(u) /\ NotificationsRight /\ MachinesPlaced
        /\ UserRight(u, World(u), Outs, reqPendingToDelete, pendingStorageRequests, Done)
    BY DEF IInv
  <1>2. \A x \in Users : /\ World(x) \in Worlds /\ World(x).u = user[x] /\ World(x).vm = vm
                         /\ World(x).out = <<>>
    BY <1>1, WorldTyped
  <1>3. \A x \in Users : Maps(x) = ToSet(World(x).u.machinesMap)
    BY <1>2 DEF Maps
  <1>4. \A x \in Users : Maps(x) \subseteq VMs
    BY <1>2, <1>3, WorldParts
  <1>5. \A x \in Users \ {u} : Maps(x) \cap Maps(u) = {}
    BY <1>1, <1>4 DEF MachinesPlaced
  <1>6. \A v \in Maps(u) : hostOf[v] # 0 /\ v < nextPid
    BY <1>1 DEF MachinesPlaced
  <1>7. QED
    BY <1>1, <1>2, <1>3, <1>4, <1>5, <1>6

\* What such a step leaves to the other users of what they were granted.
LEMMA AmpleOthers ==
    ASSUME IInv, AInv, NEW u \in Users, NEW M, OneUser(u, M), NEW x \in Users \ {u}
    PROVE  /\ AmpleRight(x)'
           /\ x \in arrived' <=> x \in arrived
           /\ StartVM(x) \in Outs' <=> StartVM(x) \in Outs
  <1>1. /\ user'[x] = user[x] /\ Maps(x) \cap M = {} /\ selectionQuantity'[x] = selectionQuantity[x]
        /\ x \in arrived' <=> x \in arrived
    BY DEF OneUser
  <1>2. Maps(x) \subseteq VMs /\ M \subseteq VMs
    BY StateRight DEF OneUser
  <1>3. \A v \in Maps(x) : vm'[v] = vm[v]
    BY <1>1, <1>2 DEF OneUser
  <1>4. StartVM(x) \in Requests \ OwnBy(u, M)
    <2>1. MyJobs(u) \subseteq Jobs
      BY JobsApart
    <2>2. QED
      BY <1>2, <2>1, RequestsApart, RequestsTyped DEF OwnBy
  <1>5. StartVM(x) \in Outs' <=> StartVM(x) \in Outs
    BY <1>4 DEF OneUser
  <1>6. AmpleRight(x)
    BY DEF AInv
  <1>7. Maps(x)' = Maps(x)
    BY <1>1 DEF Maps
  <1>8. AmpleRight(x)'
    BY <1>1, <1>3, <1>5, <1>6, <1>7 DEF AmpleRight
  <1>9. QED
    BY <1>1, <1>5, <1>8

\* A step about user u and machines M that creates no machine: if his part is right, all is.
LEMMA AmpleAfter ==
    ASSUME IInv, AInv, NEW u \in Users, NEW M, OneUser(u, M), AmpleRight(u)',
           fault' = fault, nextPid' = nextPid, u \in Granted' <=> u \in Granted
    PROVE  AInv'
  <1>1. \A x \in Users \ {u} :
           /\ AmpleRight(x)'
           /\ x \in arrived' <=> x \in arrived
           /\ StartVM(x) \in Outs' <=> StartVM(x) \in Outs
    <2>1. TAKE x \in Users \ {u}
    <2>2. QED
      BY <2>1, AmpleOthers
  <1>2. \A x \in Users : AmpleRight(x)'
    <2>1. TAKE x \in Users
    <2>2. CASE x = u
      BY <2>2
    <2>3. CASE x # u
      <3>1. x \in Users \ {u}
        BY <2>3
      <3>2. QED
        BY <1>1, <3>1
    <2>4. QED
      BY <2>2, <2>3
  <1>3. {p \in Demand : p[1] \in Granted'} = {p \in Demand : p[1] \in Granted}
    <2>1. \A p \in Demand : p[1] \in Users
      BY DEF Demand
    <2>2. ASSUME NEW x \in Users PROVE x \in Granted' <=> x \in Granted
      <3>1. CASE x = u
        BY <3>1
      <3>2. CASE x # u
        <4>1. x \in Users \ {u}
          BY <3>2
        <4>2. (x \in arrived' <=> x \in arrived) /\ (StartVM(x) \in Outs' <=> StartVM(x) \in Outs)
          BY <1>1, <4>1
        <4>3. QED
          BY <4>2 DEF Granted
      <3>3. QED
        BY <3>1, <3>2
    <2>3. QED
      BY <2>1, <2>2
  <1>4. Demand' = Demand
    BY DEF Demand, Asked
  <1>5. QED
    BY <1>2, <1>3, <1>4 DEF AInv

\* So it is when the step touches neither his machines nor his start request.
LEMMA AmpleQuiet ==
    ASSUME IInv, AInv, NEW u \in Users, NEW M, OneUser(u, M),
           UNCHANGED <<user, vm, selectionQuantity, arrived, fault, nextPid>>,
           StartVM(u) \in Outs' <=> StartVM(u) \in Outs
    PROVE  AInv'
  <1>1. AmpleRight(u)
    BY DEF AInv
  <1>2. AmpleRight(u)' /\ (u \in Granted' <=> u \in Granted)
    BY <1>1 DEF AmpleRight, Granted, Maps
  <1>3. QED
    BY <1>2, AmpleAfter

\* A handler of a user outside the scheduler's walk that keeps his machines.
LEMMA UserStep ==
    ASSUME IInv, NEW u \in Users, u \in arrived => u \in userList, NEW a,
           Kept(u, World(u), a, Outs, reqPendingToDelete, pendingStorageRequests', Done'),
           Commit(u, a), Queue!UserSendRequest(a.out),
           UNCHANGED <<selectionQuantity, nextPid, hostOf, nodesOn, pendingRemoteStorageDeletion,
                       connectionsDeletion, reqPendingToDelete, tenantVars, ended>>,
           selfMessages' \in [Users -> Nat], fault' \in BOOLEAN,
           pendingStorageRequests' \subseteq Jobs, executions' \in [Jobs -> Nat],
           \A j \in Jobs : executions'[j] \in 0 .. 1,
           \A j \in Jobs \ MyJobs(u) :
              /\ j \in pendingStorageRequests' <=> j \in pendingStorageRequests
              /\ executions'[j] = executions[j]
    PROVE  IInv' /\ (AInv /\ fault' = fault => AInv')
  <1> DEFINE w == World(u)
  <1>1. /\ TypeOK /\ QueueRight /\ TenantRight(u) /\ NotificationsRight
        /\ w \in Worlds /\ w.u = user[u] /\ w.vm = vm /\ w.out = <<>>
        /\ Maps(u) = ToSet(w.u.machinesMap) /\ Maps(u) \subseteq VMs
        /\ \A x \in Users \ {u} : Maps(x) \subseteq VMs /\ Maps(x) \cap Maps(u) = {}
        /\ \A v \in Maps(u) : hostOf[v] # 0 /\ v < nextPid
    BY StateRight
  <1>2. /\ a \in Worlds /\ Frame(w, a)
        /\ UserRight(u, a, Outs, reqPendingToDelete, pendingStorageRequests', Done')
    BY DEF Kept
  <1> HIDE DEF w
  <1>3. /\ a.out \in Seq(Requests) /\ IsInjective(a.out) /\ ToSet(a.out) \cap Outs = {}
        /\ StartVM(u) \notin ToSet(a.out) /\ ToSet(a.out) \subseteq OwnBy(u, Maps(u))
    <2>1. ToSet(a.u.machinesMap) = Maps(u)
      BY <1>1, <1>2 DEF Frame, SameMap
    <2>2. QED
      BY <1>2, <2>1, SentRight
  <1>4. QueueRight' /\ Outs' = Outs \cup ToSet(a.out)
    BY <1>1, <1>3, SendEffect
  <1>5. /\ user' \in [Users -> UserState] /\ user'[u] = a.u /\ vm' = a.vm
        /\ \A x \in Users \ {u} : user'[x] = user[x]
        /\ vm' \in [VMs -> [state : {"off", "idle", "running"},
                           pending : {"NOT_PENDING_OPS", "PENDING_STORAGE", "PENDING_SHUTDOWN"}]]
    BY <1>1, <1>2, CommitTyped
  <1>6. TypeOK'
    BY <1>1, <1>4, <1>5 DEF TypeOK, QueueRight, tenantVars
  <1>7. UserRight(u, World(u)', Outs', reqPendingToDelete', pendingStorageRequests', Done')
    BY <1>1, <1>2, <1>4, <1>6, CommitMoved
  <1>8. Maps(u)' = Maps(u)
    BY <1>1, <1>2, <1>5 DEF Frame, SameMap, Maps
  <1>9. OneUser(u, Maps(u))
    <2>1. \A v \in VMs \ Maps(u) : vm'[v] = vm[v]
      BY <1>1, <1>2, <1>5 DEF Frame
    <2>2. QED
      BY <1>1, <1>3, <1>4, <1>5, <1>8, <2>1 DEF OneUser, tenantVars
  <1>10. TenantRight(u)'
    BY <1>1, <1>2, <1>3, <1>4, <1>5 DEF TenantRight, Frame, SameMap, tenantVars, ToSet
  <1>11. NotificationsRight'
    BY <1>1 DEF NotificationsRight
  <1>12. nextPid <= nextPid' /\ \A v \in Maps(u)' : hostOf'[v] # 0 /\ v < nextPid'
    BY <1>1, <1>8 DEF TypeOK
  <1>13. \A v \in Maps(u) : v \notin Maps(u)' =>
              /\ hostOf'[v] = 0 /\ vm'[v].state = "off" /\ vm'[v].pending = "NOT_PENDING_OPS"
              /\ v \notin reqPendingToDelete' /\ Free(v) \notin Outs'
    BY <1>8
  <1>14. IInv'
    BY <1>4, <1>6, <1>7, <1>9, <1>10, <1>11, <1>12, <1>13, BooksAfter
  <1>15. ASSUME AInv, fault' = fault PROVE AInv'
    <2>1. AmpleRight(u)
      BY <1>15 DEF AInv
    <2>2. StartVM(u) \in Outs' <=> StartVM(u) \in Outs
      BY <1>3, <1>4
    <2>3. /\ user'[u].machinesMap = user[u].machinesMap
          /\ user[u].machinesMap = <<>> =>
                user'[u].containerWaitingQueue = user[u].containerWaitingQueue
          /\ \A v \in Maps(u) : vm'[v].state = "off" <=> vm[v].state = "off"
      BY <1>1, <1>2, <1>5 DEF Frame, SameMap
    <2>4. AmpleRight(u)'
      BY <1>8, <2>1, <2>2, <2>3 DEF AmpleRight
    <2>5. u \in Granted' <=> u \in Granted
      BY <2>2 DEF Granted, tenantVars
    <2>6. QED
      BY <1>9, <1>15, <2>4, <2>5, AmpleAfter
  <1>16. QED
    BY <1>14, <1>15

\* The steps of the users keep the books of the whole system.
LEMMA SelfMessageStep ==
    ASSUME IInv, NEW u \in Users, SelfMessage(u)
    PROVE  IInv' /\ (AInv => AInv')
  <1>1. PICK a : a = Schedule(ExecutePendingJobs(World(u)))
    OBVIOUS
  <1>2. /\ TypeOK /\ World(u) \in Worlds
        /\ UserRight(u, World(u), Outs, reqPendingToDelete, pendingStorageRequests, Done)
    BY StateRight
  <1>3. Kept(u, World(u), a, Outs, reqPendingToDelete, pendingStorageRequests, Done)
    BY <1>1, <1>2, SelfMessageKept
  <1>4. u \in userList /\ Commit(u, a) /\ Queue!UserSendRequest(a.out)
    BY <1>1 DEF SelfMessage
  <1>5. /\ selfMessages' = [selfMessages EXCEPT ![u] = @ - 1] /\ selfMessages[u] > 0
        /\ UNCHANGED <<managerVars, tenantVars, executions, ended, fault>>
    BY DEF SelfMessage
  <1>6. UNCHANGED <<selectionQuantity, nextPid, hostOf, nodesOn, pendingRemoteStorageDeletion,
                    connectionsDeletion, reqPendingToDelete, pendingStorageRequests, tenantVars,
                    executions, ended, fault>>
    BY <1>5 DEF managerVars
  <1>7. Done' = Done
    BY <1>6 DEF Done
  <1>8. Kept(u, World(u), a, Outs, reqPendingToDelete, pendingStorageRequests', Done')
    BY <1>3, <1>6, <1>7
  <1>9. selfMessages' \in [Users -> Nat]
    BY <1>2, <1>5 DEF TypeOK
  <1>10. /\ pendingStorageRequests' \subseteq Jobs /\ executions' \in [Jobs -> Nat] /\ fault' \in BOOLEAN
         /\ \A j \in Jobs : executions'[j] \in 0 .. 1
         /\ \A j \in Jobs \ MyJobs(u) :
              /\ j \in pendingStorageRequests' <=> j \in pendingStorageRequests
              /\ executions'[j] = executions[j]
    BY <1>2, <1>6 DEF TypeOK, IInv
  <1>11. QED
    BY <1>4, <1>6, <1>8, <1>9, <1>10, UserStep

\* A user that has jobs to run has not left.
LEMMA BusyStays ==
    ASSUME IInv, NEW u \in Users, Assigned(World(u)) # {}
    PROVE  u \in arrived => u \in userList
  <1>1. /\ TenantRight(u) /\ World(u).u = user[u]
        /\ UserRight(u, World(u), Outs, reqPendingToDelete, pendingStorageRequests, Done)
    BY StateRight
  <1>2. ~user[u].userFinalizing
    BY <1>1 DEF UserRight, FinalizingRight
  <1>3. QED
    BY <1>1, <1>2 DEF TenantRight

\* A storage node that answers keeps both invariants.
LEMMA StorageReadyStep ==
    ASSUME IInv, NEW j \in Jobs, StorageReady(j)
    PROVE  IInv' /\ (AInv => AInv')
  <1> DEFINE u == UserOfJob(j)
             w == World(u)
  <1>1. u \in Users /\ j \in MyJobs(u)
    BY JobsApart
  <1>2. PICK a : a = StorageAttended(w, j)
    OBVIOUS
  <1>3. /\ TypeOK /\ w \in Worlds /\ w.u = user[u]
        /\ UserRight(u, w, Outs, reqPendingToDelete, pendingStorageRequests, Done)
    BY <1>1, StateRight
  <1>4. /\ j \in pendingStorageRequests
        /\ pendingStorageRequests' = pendingStorageRequests \ {j}
        /\ UNCHANGED <<selectionQuantity, nextPid, hostOf, nodesOn, pendingRemoteStorageDeletion,
                       connectionsDeletion, reqPendingToDelete, tenantVars, executions,
                       selfMessages, ended>>
    BY DEF StorageReady
  <1>5. \/ /\ Commit(u, a) /\ Queue!UserSendRequest(a.out) /\ fault' = fault
        \/ user[u].vms_waiting_remote_st[user[u].machine[j]] = 0
    BY <1>2 DEF StorageReady
  <1> HIDE DEF w, u
  <1>6. /\ w.u.vms_waiting_remote_st[w.u.machine[j]] = 1 /\ j \in w.u.waitingForStorage
        /\ Kept(u, w, a, Outs, reqPendingToDelete, pendingStorageRequests \ {j}, Done)
    BY <1>1, <1>2, <1>3, <1>4, StorageKept
  <1>7. Commit(u, a) /\ Queue!UserSendRequest(a.out) /\ fault' = fault
    BY <1>3, <1>5, <1>6
  <1>8. Done' = Done
    BY <1>4 DEF Done
  <1>9. Kept(u, w, a, Outs, reqPendingToDelete, pendingStorageRequests', Done')
    BY <1>4, <1>6, <1>8
  <1>10. u \in arrived => u \in userList
    BY <1>1, <1>6, BusyStays DEF Assigned, w
  <1>11. /\ pendingStorageRequests' \subseteq Jobs /\ executions' \in [Jobs -> Nat] /\ fault' \in BOOLEAN
         /\ \A k \in Jobs : executions'[k] \in 0 .. 1
         /\ selfMessages' \in [Users -> Nat]
         /\ \A k \in Jobs \ MyJobs(u) :
              /\ k \in pendingStorageRequests' <=> k \in pendingStorageRequests
              /\ executions'[k] = executions[k]
    BY <1>1, <1>3, <1>4, <1>7 DEF TypeOK, IInv
  <1>12. QED
    BY <1>1, <1>4, <1>7, <1>9, <1>10, <1>11, UserStep DEF w

\* A job that finishes keeps both invariants.
LEMMA JobFinishesStep ==
    ASSUME IInv, NEW j \in Jobs, JobFinishes(j)
    PROVE  IInv' /\ (AInv => AInv')
  <1> DEFINE u == UserOfJob(j)
             w == World(u)
  <1>1. u \in Users /\ j \in MyJobs(u)
    BY JobsApart
  <1>2. PICK a : a = JobFinished(w, j)
    OBVIOUS
  <1>3. /\ TypeOK /\ w \in Worlds /\ w.u = user[u]
        /\ UserRight(u, w, Outs, reqPendingToDelete, pendingStorageRequests, Done)
    BY <1>1, StateRight
  <1>4. /\ j \in user[u].containerRunningQueue
        /\ executions' = [executions EXCEPT ![j] = @ + 1]
        /\ selfMessages' = IF user[u].containerWaitingQueue = <<>> THEN selfMessages
                           ELSE [selfMessages EXCEPT ![u] = @ + 1]
        /\ UNCHANGED <<managerVars, tenantVars, ended, fault>>
    BY DEF JobFinishes
  <1>5. Commit(u, a) /\ Queue!UserSendRequest(a.out)
    BY <1>2 DEF JobFinishes
  <1> HIDE DEF w, u
  <1>6. UNCHANGED <<selectionQuantity, nextPid, hostOf, nodesOn, pendingRemoteStorageDeletion,
                    connectionsDeletion, reqPendingToDelete, pendingStorageRequests, tenantVars,
                    ended, fault>>
    BY <1>4 DEF managerVars
  <1>7. /\ j \notin Done /\ j \in w.u.containerRunningQueue
        /\ Kept(u, w, a, Outs, reqPendingToDelete, pendingStorageRequests, Done \cup {j})
    BY <1>1, <1>2, <1>3, <1>4, JobFinishedKept
  <1>8. executions \in [Jobs -> Nat] /\ \A k \in Jobs : executions[k] \in 0 .. 1
    BY <1>3 DEF TypeOK, IInv
  <1>9. executions[j] = 0
    BY <1>7, <1>8 DEF Done
  <1>10. /\ executions' \in [Jobs -> Nat] /\ executions'[j] = 1
         /\ \A k \in Jobs \ {j} : executions'[k] = executions[k]
    BY <1>4, <1>8, <1>9
  <1>11. Done' = Done \cup {j}
    BY <1>10 DEF Done
  <1>12. Kept(u, w, a, Outs, reqPendingToDelete, pendingStorageRequests', Done')
    BY <1>6, <1>7, <1>11
  <1>13. u \in arrived => u \in userList
    BY <1>1, <1>7, BusyStays DEF Assigned, w
  <1>14. \A k \in Jobs : executions'[k] \in 0 .. 1
    BY <1>8, <1>10
  <1>15. /\ pendingStorageRequests' \subseteq Jobs /\ fault' \in BOOLEAN
         /\ selfMessages' \in [Users -> Nat]
         /\ \A k \in Jobs \ MyJobs(u) :
              /\ k \in pendingStorageRequests' <=> k \in pendingStorageRequests
              /\ executions'[k] = executions[k]
    BY <1>1, <1>3, <1>4, <1>6, <1>10 DEF TypeOK
  <1>16. QED
    BY <1>1, <1>5, <1>6, <1>10, <1>12, <1>13, <1>14, <1>15, UserStep DEF w

\* The books of a user when neither he nor his machines do anything.
LEMMA UserUnmoved ==
    ASSUME IInv, TypeOK', NEW u \in Users, SameBooks(user'[u], user[u]), vm' = vm,
           executions' = executions,
           \A v \in Maps(u) :
              /\ Free(v) \in Outs' \/ v \in reqPendingToDelete'
                   <=> Free(v) \in Outs \/ v \in reqPendingToDelete
              /\ ~(Free(v) \in Outs' /\ v \in reqPendingToDelete'),
           \A j \in MyJobs(u) :
              /\ Storage(j) \in Outs' \/ j \in pendingStorageRequests'
                   <=> Storage(j) \in Outs \/ j \in pendingStorageRequests
              /\ ~(Storage(j) \in Outs' /\ j \in pendingStorageRequests'),
           Abandon(u) \in Outs' => Abandon(u) \in Outs
    PROVE  UserRight(u, World(u)', Outs', reqPendingToDelete', pendingStorageRequests', Done')
  <1>1. /\ World(u)' \in Worlds /\ World(u)'.u = user'[u] /\ World(u)'.vm = vm'
        /\ World(u)'.out = <<>>
    BY NextWorldTyped
  <1>2. /\ World(u) \in Worlds /\ World(u).u = user[u] /\ World(u).vm = vm /\ World(u).out = <<>>
        /\ UserRight(u, World(u), Outs, reqPendingToDelete, pendingStorageRequests, Done)
        /\ Maps(u) = ToSet(World(u).u.machinesMap)
    BY StateRight
  <1>3. Done' = Done
    BY DEF Done
  <1>4. Asks(World(u), Outs) = Outs
    BY <1>2 DEF Asks, ToSet
  <1> DEFINE a == World(u)
             b == World(u)'
             O == Outs'
             D == reqPendingToDelete'
             S == pendingStorageRequests'
             E == Done'
  <1>5. /\ b \in Worlds /\ SameBooks(b.u, a.u) /\ b.vm = a.vm /\ b.out = <<>>
        /\ a \in Worlds /\ UserRight(u, a, Outs, reqPendingToDelete, pendingStorageRequests, Done)
    BY <1>1, <1>2
  <1>6. /\ \A v \in ToSet(a.u.machinesMap) :
              /\ b.vm[v] = a.vm[v]
              /\ Free(v) \in O \/ v \in D <=> Free(v) \in Asks(a, Outs) \/ v \in reqPendingToDelete
              /\ ~(Free(v) \in O /\ v \in D)
        /\ \A j \in MyJobs(u) :
              /\ Storage(j) \in O \/ j \in S
                   <=> Storage(j) \in Asks(a, Outs) \/ j \in pendingStorageRequests
              /\ ~(Storage(j) \in O /\ j \in S)
              /\ j \in E <=> j \in Done
        /\ Abandon(u) \in O => Abandon(u) \in Asks(a, Outs)
    BY <1>1, <1>2, <1>3, <1>4
  <1> HIDE DEF a, b, O, D, S, E
  <1>7. UserRight(u, b, O, D, S, E)
    BY <1>5, <1>6, UserMoved
  <1>8. QED
    BY <1>7 DEF b, O, D, S, E

\* What the books of the state say of requests.
LEMMA AskedOnce ==
    ASSUME IInv, NEW u \in Users
    PROVE  /\ \A v \in Maps(u) : ~(Free(v) \in Outs /\ v \in reqPendingToDelete)
           /\ \A j \in MyJobs(u) : ~(Storage(j) \in Outs /\ j \in pendingStorageRequests)
           /\ Abandon(u) \in Outs => user[u].userFinalizing
  <1>1. /\ World(u).u = user[u] /\ World(u).out = <<>>
        /\ UserRight(u, World(u), Outs, reqPendingToDelete, pendingStorageRequests, Done)
        /\ Maps(u) = ToSet(World(u).u.machinesMap)
    BY StateRight
  <1>2. Asks(World(u), Outs) = Outs
    BY <1>1 DEF Asks, ToSet
  <1>3. QED
    BY <1>1, <1>2 DEF UserRight, RequestsRight

\* A step that neither users nor machines take part in, about requests of user u.
LEMMA QuietStep ==
    ASSUME IInv, TypeOK', QueueRight', NEW u \in Users, SameBooks(user'[u], user[u]),
           UNCHANGED <<vm, hostOf, nextPid, executions>>,
           \A v \in Maps(u) :
              /\ Free(v) \in Outs' \/ v \in reqPendingToDelete'
                   <=> Free(v) \in Outs \/ v \in reqPendingToDelete
              /\ ~(Free(v) \in Outs' /\ v \in reqPendingToDelete'),
           \A j \in MyJobs(u) :
              /\ Storage(j) \in Outs' \/ j \in pendingStorageRequests'
                   <=> Storage(j) \in Outs \/ j \in pendingStorageRequests
              /\ ~(Storage(j) \in Outs' /\ j \in pendingStorageRequests'),
           Abandon(u) \in Outs' => Abandon(u) \in Outs,
           \A x \in Users \ {u} :
              /\ user'[x] = user[x] /\ selectionQuantity'[x] = selectionQuantity[x]
              /\ x \in arrived' <=> x \in arrived
              /\ x \in userList' <=> x \in userList,
           \A v \in VMs \ Maps(u) : v \in reqPendingToDelete' <=> v \in reqPendingToDelete,
           \A r \in Requests \ OwnBy(u, Maps(u)) : r \in Outs' <=> r \in Outs,
           \A j \in Jobs \ MyJobs(u) : j \in pendingStorageRequests' <=> j \in pendingStorageRequests,
           TenantRight(u)', NotificationsRight'
    PROVE  IInv' /\ OneUser(u, Maps(u))
  <1>1. /\ TypeOK /\ Maps(u) \subseteq VMs
        /\ \A x \in Users \ {u} : Maps(x) \subseteq VMs /\ Maps(x) \cap Maps(u) = {}
        /\ \A v \in Maps(u) : hostOf[v] # 0 /\ v < nextPid
    BY StateRight
  <1>2. UserRight(u, World(u)', Outs', reqPendingToDelete', pendingStorageRequests', Done')
    BY UserUnmoved
  <1>3. Maps(u)' = Maps(u)
    BY DEF Maps, SameBooks
  <1>4. OneUser(u, Maps(u))
    BY <1>1, <1>3 DEF OneUser
  <1>5. nextPid <= nextPid' /\ \A v \in Maps(u)' : hostOf'[v] # 0 /\ v < nextPid'
    BY <1>1, <1>3 DEF TypeOK
  <1>6. \A v \in Maps(u) : v \notin Maps(u)' =>
              /\ hostOf'[v] = 0 /\ vm'[v].state = "off" /\ vm'[v].pending = "NOT_PENDING_OPS"
              /\ v \notin reqPendingToDelete' /\ Free(v) \notin Outs'
    BY <1>3
  <1>7. \A k \in Jobs : executions'[k] \in 0 .. 1
    BY DEF IInv
  <1>8. QED
    BY <1>2, <1>4, <1>5, <1>6, <1>7, BooksAfter

\* Attending a storage request keeps both invariants.
LEMMA AttendStorageStep ==
    ASSUME IInv, NEW j \in Jobs, AttendStorage(j)
    PROVE  IInv' /\ (AInv => AInv')
  <1> DEFINE u == UserOfJob(j)
  <1>1. u \in Users /\ j \in MyJobs(u)
    BY JobsApart
  <1> HIDE DEF u
  <1>2. /\ TypeOK /\ QueueRight /\ TenantRight(u) /\ NotificationsRight /\ Maps(u) \subseteq VMs
        /\ \A x \in Users \ {u} : Maps(x) \subseteq VMs /\ Maps(x) \cap Maps(u) = {}
        /\ \A v \in Maps(u) : hostOf[v] # 0 /\ v < nextPid
    BY <1>1, StateRight
  <1>3. /\ requestsQueue[cursor] = Storage(j) /\ Queue!EraseStorageRequest
        /\ pendingStorageRequests' = pendingStorageRequests \cup {j}
        /\ UNCHANGED <<user, vm, selectionQuantity, nextPid, hostOf, nodesOn,
                       pendingRemoteStorageDeletion, connectionsDeletion, reqPendingToDelete,
                       tenantVars, executions, selfMessages, ended, fault>>
    BY DEF AttendStorage, Request
  <1>4. QueueRight' /\ Storage(j) \in Outs /\ Outs' = Outs \ {Storage(j)}
    BY <1>2, <1>3, EraseStorageEffect
  <1>5. TypeOK'
    BY <1>2, <1>3, <1>4 DEF TypeOK, QueueRight, tenantVars
  <1>6. MyJobs(u) \subseteq Jobs
    BY <1>1, JobsApart
  <1>7. /\ \A v \in VMs : Free(v) \in Outs' <=> Free(v) \in Outs
        /\ \A k \in Jobs \ {j} : Storage(k) \in Outs' <=> Storage(k) \in Outs
        /\ Abandon(u) \in Outs' <=> Abandon(u) \in Outs
        /\ StartVM(u) \in Outs' <=> StartVM(u) \in Outs
    BY <1>1, <1>4, RequestsApart
  <1>8. /\ \A v \in Maps(u) : ~(Free(v) \in Outs /\ v \in reqPendingToDelete)
        /\ \A k \in MyJobs(u) : ~(Storage(k) \in Outs /\ k \in pendingStorageRequests)
    BY <1>1, AskedOnce
  <1>9. \A k \in MyJobs(u) :
           /\ Storage(k) \in Outs' \/ k \in pendingStorageRequests'
                <=> Storage(k) \in Outs \/ k \in pendingStorageRequests
           /\ ~(Storage(k) \in Outs' /\ k \in pendingStorageRequests')
    BY <1>3, <1>4, <1>6, <1>7, <1>8
  <1>10. \A v \in Maps(u) :
            /\ Free(v) \in Outs' \/ v \in reqPendingToDelete'
                 <=> Free(v) \in Outs \/ v \in reqPendingToDelete
            /\ ~(Free(v) \in Outs' /\ v \in reqPendingToDelete')
    BY <1>2, <1>3, <1>7, <1>8
  <1>11. SameBooks(user'[u], user[u])
    BY <1>3 DEF SameBooks
  <1>12. \A r \in Requests \ OwnBy(u, Maps(u)) : r \in Outs' <=> r \in Outs
    BY <1>1, <1>4 DEF OwnBy
  <1>13. TenantRight(u)' /\ NotificationsRight'
    BY <1>2, <1>3, <1>7 DEF TenantRight, NotificationsRight, tenantVars
  <1>14. /\ \A x \in Users \ {u} :
              /\ user'[x] = user[x] /\ selectionQuantity'[x] = selectionQuantity[x]
              /\ x \in arrived' <=> x \in arrived
              /\ x \in userList' <=> x \in userList
         /\ \A v \in VMs \ Maps(u) : v \in reqPendingToDelete' <=> v \in reqPendingToDelete
         /\ \A k \in Jobs \ MyJobs(u) : k \in pendingStorageRequests' <=> k \in pendingStorageRequests
         /\ UNCHANGED <<vm, hostOf, nextPid, executions>>
    BY <1>1, <1>3 DEF tenantVars
  <1>15. IInv' /\ OneUser(u, Maps(u))
    BY <1>1, <1>4, <1>5, <1>7, <1>9, <1>10, <1>11, <1>12, <1>13, <1>14, QuietStep
  <1>16. QED
    BY <1>1, <1>3, <1>7, <1>15, AmpleQuiet DEF tenantVars

\* Attending a shutdown request keeps both invariants.
LEMMA AttendFreeStep ==
    ASSUME IInv, NEW v \in VMs, AttendFree(v)
    PROVE  IInv' /\ (AInv => AInv')
  <1>1. /\ requestsQueue[cursor] = Free(v) /\ Queue!EraseRequest(<<>>)
        /\ reqPendingToDelete' = reqPendingToDelete \cup {v}
        /\ pendingRemoteStorageDeletion' = [pendingRemoteStorageDeletion EXCEPT ![v] = @ + 1]
        /\ connectionsDeletion' = [connectionsDeletion EXCEPT ![v] = @ + 1]
        /\ UNCHANGED <<user, vm, selectionQuantity, nextPid, hostOf, nodesOn, pendingStorageRequests,
                       tenantVars, executions, selfMessages, ended, fault>>
    BY DEF AttendFree, Request
  <1>2. TypeOK /\ QueueRight /\ MachinesPlaced /\ NotificationsRight
    BY DEF IInv
  <1>3. QueueRight' /\ Free(v) \in Outs /\ Outs' = Outs \ {Free(v)}
    <2>1. <<>> \in Seq(Requests) /\ IsInjective(<<>>) /\ ToSet(<<>>) = {}
      BY DEF IsInjective, ToSet
    <2>2. QED
      BY <1>1, <1>2, <2>1, EraseEffect
  <1>4. PICK u \in Users : v \in Maps(u)
    BY <1>2, <1>3 DEF MachinesPlaced
  <1>5. /\ TenantRight(u) /\ Maps(u) \subseteq VMs
    BY StateRight
  <1>6. /\ \A x \in Maps(u) : ~(Free(x) \in Outs /\ x \in reqPendingToDelete)
        /\ \A k \in MyJobs(u) : ~(Storage(k) \in Outs /\ k \in pendingStorageRequests)
    BY AskedOnce
  <1>7. /\ pendingRemoteStorageDeletion \in [VMs -> Nat] /\ connectionsDeletion \in [VMs -> Nat]
        /\ pendingRemoteStorageDeletion[v] = 0 /\ connectionsDeletion[v] = 0
    BY <1>2, <1>3, <1>4, <1>6 DEF TypeOK, NotificationsRight
  <1>8. /\ pendingRemoteStorageDeletion' \in [VMs -> Nat] /\ connectionsDeletion' \in [VMs -> Nat]
        /\ pendingRemoteStorageDeletion'[v] = 1 /\ connectionsDeletion'[v] = 1
        /\ \A x \in VMs \ {v} : /\ pendingRemoteStorageDeletion'[x] = pendingRemoteStorageDeletion[x]
                                /\ connectionsDeletion'[x] = connectionsDeletion[x]
    BY <1>1, <1>7
  <1>9. TypeOK'
    BY <1>1, <1>2, <1>3, <1>8 DEF TypeOK, QueueRight, tenantVars
  <1>10. MyJobs(u) \subseteq Jobs
    BY JobsApart
  <1>11. /\ \A x \in VMs \ {v} : Free(x) \in Outs' <=> Free(x) \in Outs
         /\ \A k \in Jobs : Storage(k) \in Outs' <=> Storage(k) \in Outs
         /\ Abandon(u) \in Outs' <=> Abandon(u) \in Outs
         /\ StartVM(u) \in Outs' <=> StartVM(u) \in Outs
    BY <1>3, RequestsApart
  <1>12. \A k \in MyJobs(u) :
           /\ Storage(k) \in Outs' \/ k \in pendingStorageRequests'
                <=> Storage(k) \in Outs \/ k \in pendingStorageRequests
           /\ ~(Storage(k) \in Outs' /\ k \in pendingStorageRequests')
    BY <1>1, <1>6, <1>10, <1>11
  <1>13. \A x \in Maps(u) :
            /\ Free(x) \in Outs' \/ x \in reqPendingToDelete'
                 <=> Free(x) \in Outs \/ x \in reqPendingToDelete
            /\ ~(Free(x) \in Outs' /\ x \in reqPendingToDelete')
    BY <1>1, <1>3, <1>5, <1>6, <1>11
  <1>14. SameBooks(user'[u], user[u])
    BY <1>1 DEF SameBooks
  <1>15. \A r \in Requests \ OwnBy(u, Maps(u)) : r \in Outs' <=> r \in Outs
    BY <1>3, <1>4 DEF OwnBy
  <1>16. TenantRight(u)'
    BY <1>1, <1>5, <1>11 DEF TenantRight, tenantVars
  <1>17. NotificationsRight'
    <2>1. ASSUME NEW x \in VMs
          PROVE  /\ pendingRemoteStorageDeletion'[x] \in 0 .. 1 /\ connectionsDeletion'[x] \in 0 .. 1
                 /\ x \in reqPendingToDelete' <=>
                       pendingRemoteStorageDeletion'[x] + connectionsDeletion'[x] > 0
      <3>1. CASE x = v
        BY <1>1, <1>8, <3>1
      <3>2. CASE x # v
        BY <1>1, <1>2, <1>8, <3>2 DEF NotificationsRight
      <3>3. QED
        BY <3>1, <3>2
    <2>2. QED
      BY <2>1 DEF NotificationsRight
  <1>18. /\ \A x \in Users \ {u} :
              /\ user'[x] = user[x] /\ selectionQuantity'[x] = selectionQuantity[x]
              /\ x \in arrived' <=> x \in arrived
              /\ x \in userList' <=> x \in userList
         /\ \A x \in VMs \ Maps(u) : x \in reqPendingToDelete' <=> x \in reqPendingToDelete
         /\ \A k \in Jobs \ MyJobs(u) : k \in pendingStorageRequests' <=> k \in pendingStorageRequests
         /\ UNCHANGED <<vm, hostOf, nextPid, executions>>
    BY <1>1, <1>4 DEF tenantVars
  <1>19. IInv' /\ OneUser(u, Maps(u))
    BY <1>3, <1>9, <1>11, <1>12, <1>13, <1>14, <1>15, <1>16, <1>17, <1>18, QuietStep
  <1>20. QED
    BY <1>1, <1>11, <1>19, AmpleQuiet DEF tenantVars

\* Attending the request of a user who leaves keeps both invariants.
LEMMA AttendAbandonStep ==
    ASSUME IInv, NEW u \in Users, AttendAbandon(u)
    PROVE  IInv' /\ (AInv => AInv')
  <1>1. /\ requestsQueue[cursor] = Abandon(u) /\ Queue!EraseRequest(<<>>)
        /\ userList' = userList \ {u}
        /\ UNCHANGED <<user, vm, managerVars, arrived, no_more_users, executions, selfMessages,
                       ended, fault>>
    BY DEF AttendAbandon, Request
  <1>a. UNCHANGED <<selectionQuantity, nextPid, hostOf, nodesOn, pendingStorageRequests,
                    pendingRemoteStorageDeletion, connectionsDeletion, reqPendingToDelete>>
    BY <1>1 DEF managerVars
  <1>2. TypeOK /\ QueueRight /\ NotificationsRight /\ TenantRight(u) /\ Maps(u) \subseteq VMs
    BY StateRight
  <1>3. QueueRight' /\ Abandon(u) \in Outs /\ Outs' = Outs \ {Abandon(u)}
    <2>1. <<>> \in Seq(Requests) /\ IsInjective(<<>>) /\ ToSet(<<>>) = {}
      BY DEF IsInjective, ToSet
    <2>2. QED
      BY <1>1, <1>2, <2>1, EraseEffect
  <1>6. /\ \A x \in Maps(u) : ~(Free(x) \in Outs /\ x \in reqPendingToDelete)
        /\ \A k \in MyJobs(u) : ~(Storage(k) \in Outs /\ k \in pendingStorageRequests)
        /\ user[u].userFinalizing
    BY <1>3, AskedOnce
  <1>9. TypeOK'
    BY <1>1, <1>a, <1>2, <1>3 DEF TypeOK, QueueRight
  <1>10. MyJobs(u) \subseteq Jobs
    BY JobsApart
  <1>11. /\ \A x \in VMs : Free(x) \in Outs' <=> Free(x) \in Outs
         /\ \A k \in Jobs : Storage(k) \in Outs' <=> Storage(k) \in Outs
         /\ StartVM(u) \in Outs' <=> StartVM(u) \in Outs
    BY <1>3, RequestsApart
  <1>12. \A k \in MyJobs(u) :
           /\ Storage(k) \in Outs' \/ k \in pendingStorageRequests'
                <=> Storage(k) \in Outs \/ k \in pendingStorageRequests
           /\ ~(Storage(k) \in Outs' /\ k \in pendingStorageRequests')
    BY <1>a, <1>6, <1>10, <1>11
  <1>13. \A x \in Maps(u) :
            /\ Free(x) \in Outs' \/ x \in reqPendingToDelete'
                 <=> Free(x) \in Outs \/ x \in reqPendingToDelete
            /\ ~(Free(x) \in Outs' /\ x \in reqPendingToDelete')
    BY <1>a, <1>2, <1>6, <1>11
  <1>14. SameBooks(user'[u], user[u]) /\ (Abandon(u) \in Outs' => Abandon(u) \in Outs)
    BY <1>1, <1>3 DEF SameBooks
  <1>15. \A r \in Requests \ OwnBy(u, Maps(u)) : r \in Outs' <=> r \in Outs
    BY <1>3 DEF OwnBy
  <1>16. TenantRight(u)'
    BY <1>1, <1>a, <1>2, <1>3, <1>6, <1>11 DEF TenantRight
  <1>17. NotificationsRight'
    BY <1>a, <1>2 DEF NotificationsRight
  <1>18. /\ \A x \in Users \ {u} :
              /\ user'[x] = user[x] /\ selectionQuantity'[x] = selectionQuantity[x]
              /\ x \in arrived' <=> x \in arrived
              /\ x \in userList' <=> x \in userList
         /\ \A x \in VMs \ Maps(u) : x \in reqPendingToDelete' <=> x \in reqPendingToDelete
         /\ \A k \in Jobs \ MyJobs(u) : k \in pendingStorageRequests' <=> k \in pendingStorageRequests
         /\ UNCHANGED <<vm, hostOf, nextPid, executions>>
    BY <1>1, <1>a
  <1>19. IInv' /\ OneUser(u, Maps(u))
    BY <1>3, <1>9, <1>12, <1>13, <1>14, <1>15, <1>16, <1>17, <1>18, QuietStep
  <1>20. QED
    BY <1>1, <1>a, <1>11, <1>19, AmpleQuiet

\* A user who arrives keeps both invariants.
LEMMA UserArrivesStep ==
    ASSUME IInv, NEW u \in Users, UserArrives(u)
    PROVE  IInv' /\ (AInv => AInv')
  <1> DEFINE n == IF VmQuantity[u] < Len(JobsOf[u]) THEN VmQuantity[u] ELSE Len(JobsOf[u])
  <1>1. /\ u \notin arrived /\ arrived' = arrived \cup {u} /\ userList' = userList \cup {u}
        /\ selectionQuantity' = [selectionQuantity EXCEPT ![u] = n]
        /\ user' = [user EXCEPT ![u].pendingVmsAtStartup = n]
        /\ Queue!UserSendRequest(<<StartVM(u)>>)
        /\ UNCHANGED <<vm, nextPid, hostOf, nodesOn, pendingStorageRequests,
                       pendingRemoteStorageDeletion, connectionsDeletion, reqPendingToDelete,
                       no_more_users, executions, selfMessages, ended, fault>>
    BY DEF UserArrives
  <1>a. n \in Nat
    BY CloudAssumption
  <1> HIDE DEF n
  <1>2. TypeOK /\ QueueRight /\ NotificationsRight /\ TenantRight(u) /\ Maps(u) \subseteq VMs
    BY StateRight
  <1>3. QueueRight' /\ Outs' = Outs \cup {StartVM(u)}
    <2>1. /\ <<StartVM(u)>> \in Seq(Requests) /\ IsInjective(<<StartVM(u)>>)
          /\ ToSet(<<StartVM(u)>>) = {StartVM(u)}
      BY RequestsTyped DEF IsInjective, ToSet
    <2>2. StartVM(u) \notin Outs
      BY <1>1, <1>2 DEF TenantRight
    <2>3. QED
      BY <1>1, <1>2, <2>1, <2>2, SendEffect
  <1>4. /\ user' \in [Users -> UserState] /\ \A x \in Users \ {u} : user'[x] = user[x]
        /\ SameBooks(user'[u], user[u]) /\ user'[u].pendingVmsAtStartup = n
    <2>1. user \in [Users -> UserState] /\ user[u] \in UserState
      BY <1>2 DEF TypeOK
    <2>2. PICK y : y = [user[u] EXCEPT !.pendingVmsAtStartup = n]
      OBVIOUS
    <2>3. y \in UserState /\ SameBooks(y, user[u]) /\ y.pendingVmsAtStartup = n
      BY <1>a, <2>1, <2>2 DEF UserState, SameBooks
    <2>4. user' = [user EXCEPT ![u] = y]
      BY <1>1, <2>1, <2>2
    <2>5. QED
      BY <2>1, <2>3, <2>4
  <1>5. /\ selectionQuantity' \in [Users -> Nat] /\ selectionQuantity'[u] = n
        /\ \A x \in Users \ {u} : selectionQuantity'[x] = selectionQuantity[x]
    BY <1>a, <1>1, <1>2 DEF TypeOK
  <1>6. /\ \A x \in Maps(u) : ~(Free(x) \in Outs /\ x \in reqPendingToDelete)
        /\ \A k \in MyJobs(u) : ~(Storage(k) \in Outs /\ k \in pendingStorageRequests)
    BY AskedOnce
  <1>9. TypeOK'
    BY <1>1, <1>2, <1>3, <1>4, <1>5 DEF TypeOK, QueueRight
  <1>10. MyJobs(u) \subseteq Jobs
    BY JobsApart
  <1>11. /\ \A x \in VMs : Free(x) \in Outs' <=> Free(x) \in Outs
         /\ \A k \in Jobs : Storage(k) \in Outs' <=> Storage(k) \in Outs
         /\ Abandon(u) \in Outs' <=> Abandon(u) \in Outs
    BY <1>3, RequestsApart
  <1>12. \A k \in MyJobs(u) :
           /\ Storage(k) \in Outs' \/ k \in pendingStorageRequests'
                <=> Storage(k) \in Outs \/ k \in pendingStorageRequests
           /\ ~(Storage(k) \in Outs' /\ k \in pendingStorageRequests')
    BY <1>1, <1>6, <1>10, <1>11
  <1>13. \A x \in Maps(u) :
            /\ Free(x) \in Outs' \/ x \in reqPendingToDelete'
                 <=> Free(x) \in Outs \/ x \in reqPendingToDelete
            /\ ~(Free(x) \in Outs' /\ x \in reqPendingToDelete')
    BY <1>1, <1>2, <1>6, <1>11
  <1>15. \A r \in Requests \ OwnBy(u, Maps(u)) : r \in Outs' <=> r \in Outs
    BY <1>3 DEF OwnBy
  <1>16. TenantRight(u)'
    BY <1>a, <1>1, <1>4, <1>5 DEF TenantRight
  <1>17. NotificationsRight'
    BY <1>1, <1>2 DEF NotificationsRight
  <1>18. /\ \A x \in Users \ {u} :
              /\ user'[x] = user[x] /\ selectionQuantity'[x] = selectionQuantity[x]
              /\ x \in arrived' <=> x \in arrived
              /\ x \in userList' <=> x \in userList
         /\ \A x \in VMs \ Maps(u) : x \in reqPendingToDelete' <=> x \in reqPendingToDelete
         /\ \A k \in Jobs \ MyJobs(u) : k \in pendingStorageRequests' <=> k \in pendingStorageRequests
         /\ UNCHANGED <<vm, hostOf, nextPid, executions>>
    BY <1>1, <1>4, <1>5
  <1>19. IInv' /\ OneUser(u, Maps(u))
    BY <1>3, <1>4, <1>9, <1>11, <1>12, <1>13, <1>15, <1>16, <1>17, <1>18, QuietStep
  <1>20. ASSUME AInv PROVE AInv'
    <2>1. /\ user'[u].machinesMap = <<>> /\ user'[u].containerWaitingQueue = JobsOf[u]
      BY <1>1, <1>2, <1>4 DEF TenantRight, SameBooks
    <2>2. selectionQuantity'[u] = Asked(u)
      BY <1>5 DEF n, Asked
    <2>3. Maps(u)' = {}
      BY <2>1 DEF Maps, ToSet
    <2>4. AmpleRight(u)'
      BY <2>1, <2>2, <2>3 DEF AmpleRight
    <2>5. u \notin Granted /\ u \notin Granted'
      BY <1>1, <1>3 DEF Granted
    <2>6. QED
      BY <1>1, <1>19, <1>20, <2>4, <2>5, AmpleAfter
  <1>21. QED
    BY <1>19, <1>20

\* A machine whose shutdown was attended belongs to a user that is still there, and no job
\* of his is on it: its last notification finds it.
LEMMA DeletedFound ==
    ASSUME IInv, NEW v \in VMs, v \in reqPendingToDelete
    PROVE  /\ Owner(v) \in Users /\ v \in Maps(Owner(v)) /\ Owner(v) \in userList
           /\ Processes(World(Owner(v)), v) = {}
  <1>1. MachinesPlaced
    BY DEF IInv
  <1>2. \E u \in Users : v \in ToSet(user[u].machinesMap)
    BY <1>1 DEF MachinesPlaced, Maps
  <1>3. PICK u : u = Owner(v)
    OBVIOUS
  <1>4. u \in Users /\ v \in Maps(u)
    BY <1>2, <1>3 DEF Owner, Maps
  <1>5. /\ World(u).u = user[u] /\ World(u).vm = vm /\ TenantRight(u) /\ TypeOK
        /\ Maps(u) = ToSet(World(u).u.machinesMap)
        /\ UserRight(u, World(u), Outs, reqPendingToDelete, pendingStorageRequests, Done)
    BY <1>4, StateRight
  <1>6. vm[v].pending = "PENDING_SHUTDOWN"
    BY <1>4, <1>5 DEF UserRight, RequestsRight, Marked
  <1>7. vm[v].state = "idle"
    BY <1>4, <1>5, <1>6 DEF UserRight, MachinesRight
  <1>8. Processes(World(u), v) = {}
    BY <1>5, <1>6 DEF UserRight, MachinesRight, Processes
  <1>9. u \in userList
    <2>1. ~user[u].userFinalizing
      BY <1>4, <1>5, <1>7 DEF UserRight, FinalizingRight
    <2>2. user[u].machinesMap # <<>>
      BY <1>4 DEF Maps, ToSet
    <2>3. QED
      BY <1>5, <2>1, <2>2 DEF TenantRight
  <1>10. QED
    BY <1>3, <1>4, <1>8, <1>9

\* The last notification of a shutdown keeps both invariants.
LEMMA ShutDownStep ==
    ASSUME IInv, NEW v \in VMs, v \in reqPendingToDelete, ShutDown(v),
           pendingRemoteStorageDeletion' \in [VMs -> Nat], connectionsDeletion' \in [VMs -> Nat],
           pendingRemoteStorageDeletion'[v] = 0, connectionsDeletion'[v] = 0,
           \A x \in VMs \ {v} : /\ pendingRemoteStorageDeletion'[x] = pendingRemoteStorageDeletion[x]
                                /\ connectionsDeletion'[x] = connectionsDeletion[x],
           UNCHANGED <<selectionQuantity, nextPid, pendingStorageRequests, tenantVars, executions,
                       selfMessages, ended>>
    PROVE  IInv' /\ (AInv => AInv')
  <1>1. PICK u : u = Owner(v)
    OBVIOUS
  <1>2. u \in Users /\ v \in Maps(u) /\ u \in userList /\ Processes(World(u), v) = {}
    BY <1>1, DeletedFound
  <1> DEFINE w == World(u)
  <1>3. /\ TypeOK /\ QueueRight /\ TenantRight(u) /\ NotificationsRight
        /\ w \in Worlds /\ w.u = user[u] /\ w.vm = vm /\ w.out = <<>>
        /\ UserRight(u, w, Outs, reqPendingToDelete, pendingStorageRequests, Done)
        /\ Maps(u) = ToSet(w.u.machinesMap) /\ Maps(u) \subseteq VMs
        /\ \A x \in Users \ {u} : Maps(x) \subseteq VMs /\ Maps(x) \cap Maps(u) = {}
        /\ \A x \in Maps(u) : hostOf[x] # 0 /\ x < nextPid
    BY <1>2, StateRight
  <1> HIDE DEF w
  <1>a. PICK a : a = FreeAttended(TurnOff(w, v), u, v)
    OBVIOUS
  <1>b. MachineGone(u, w, a, v, Outs, reqPendingToDelete, pendingStorageRequests, Done)
    BY <1>2, <1>3, <1>a, FreeKept
  <1>4. /\ a \in Worlds
        /\ UserRight(u, a, Outs, reqPendingToDelete \ {v}, pendingStorageRequests, Done)
        /\ ToSet(a.u.machinesMap) = ToSet(w.u.machinesMap) \ {v}
        /\ a.u.pendingVmsAtStartup = w.u.pendingVmsAtStartup
        /\ a.vm[v].state = "off" /\ a.vm[v].pending = "NOT_PENDING_OPS"
        /\ \A x \in VMs \ {v} : a.vm[x].state = "off" <=> w.vm[x].state = "off"
        /\ \A x \in VMs \ ToSet(w.u.machinesMap) : a.vm[x] = w.vm[x]
    BY <1>b DEF MachineGone
  <1>5. /\ UnlinkVM(v, u, a) /\ reqPendingToDelete' = reqPendingToDelete \ {v}
        /\ Queue!UserSendRequest(a.out) /\ fault' = fault
    <2>1. \E x \in userList : v \in ToSet(user[x].machinesMap)
      BY <1>2 DEF Maps
    <2>2. a = FreeAttended([World(u) EXCEPT !.vm[v] = [state |-> "off", pending |-> "NOT_PENDING_OPS"]], u, v)
      BY <1>a DEF TurnOff, w
    <2>3. QED
      BY <1>1, <1>2, <2>1, <2>2 DEF ShutDown
  <1>6. /\ hostOf' = [hostOf EXCEPT ![v] = 0] /\ Commit(u, a)
        /\ nodesOn' = nodesOn \/ nodesOn' = nodesOn \ {hostOf[v]}
    BY <1>5 DEF UnlinkVM
  <1>7. /\ a.out \in Seq(Requests) /\ IsInjective(a.out) /\ ToSet(a.out) \cap Outs = {}
        /\ StartVM(u) \notin ToSet(a.out)
        /\ ToSet(a.out) \subseteq OwnBy(u, Maps(u)) /\ ToSet(a.out) \subseteq OwnBy(u, Maps(u) \ {v})
    <2>1. ToSet(a.u.machinesMap) = Maps(u) \ {v} /\ Maps(u) \ {v} \subseteq Maps(u)
      BY <1>3, <1>4
    <2>2. QED
      BY <1>2, <1>4, <2>1, SentRight
  <1>8. QueueRight' /\ Outs' = Outs \cup ToSet(a.out)
    BY <1>3, <1>5, <1>7, SendEffect
  <1>9. /\ user' \in [Users -> UserState] /\ user'[u] = a.u /\ vm' = a.vm
        /\ \A x \in Users \ {u} : user'[x] = user[x]
        /\ vm' \in [VMs -> [state : {"off", "idle", "running"},
                           pending : {"NOT_PENDING_OPS", "PENDING_STORAGE", "PENDING_SHUTDOWN"}]]
    BY <1>2, <1>3, <1>4, <1>6, CommitTyped
  <1>10. /\ hostOf' \in [VMs -> Nodes \cup {0}] /\ nodesOn' \subseteq Nodes /\ hostOf'[v] = 0
         /\ \A x \in VMs \ {v} : hostOf'[x] = hostOf[x]
    BY <1>3, <1>6 DEF TypeOK
  <1>11. TypeOK'
    BY <1>3, <1>5, <1>8, <1>9, <1>10 DEF TypeOK, QueueRight, tenantVars
  <1>12. Done' = Done
    BY DEF Done
  <1>13. UserRight(u, World(u)', Outs', reqPendingToDelete', pendingStorageRequests', Done')
    <2>1. UserRight(u, a, Outs, reqPendingToDelete', pendingStorageRequests', Done')
      BY <1>4, <1>5, <1>12
    <2>2. QED
      BY <1>2, <1>3, <1>4, <1>6, <1>8, <1>11, <2>1, CommitMoved
  <1>14. Maps(u)' = Maps(u) \ {v}
    BY <1>3, <1>4, <1>9 DEF Maps
  <1>15. OneUser(u, Maps(u))
    <2>1. \A x \in VMs \ Maps(u) : /\ vm'[x] = vm[x] /\ hostOf'[x] = hostOf[x]
                                   /\ x \in reqPendingToDelete' <=> x \in reqPendingToDelete
      BY <1>2, <1>3, <1>4, <1>5, <1>9, <1>10
    <2>2. \A r \in Requests \ OwnBy(u, Maps(u)) : r \in Outs' <=> r \in Outs
      BY <1>7, <1>8
    <2>3. QED
      BY <1>3, <1>9, <1>14, <2>1, <2>2 DEF OneUser, tenantVars
  <1>16. TenantRight(u)'
    BY <1>2, <1>3, <1>4, <1>9, <1>11 DEF TenantRight, tenantVars, TypeOK
  <1>17. NotificationsRight'
    <2>1. ASSUME NEW x \in VMs
          PROVE  /\ pendingRemoteStorageDeletion'[x] \in 0 .. 1 /\ connectionsDeletion'[x] \in 0 .. 1
                 /\ x \in reqPendingToDelete' <=>
                       pendingRemoteStorageDeletion'[x] + connectionsDeletion'[x] > 0
      <3>1. CASE x = v
        BY <1>5, <3>1
      <3>2. CASE x # v
        BY <1>3, <1>5, <3>2 DEF NotificationsRight
      <3>3. QED
        BY <3>1, <3>2
    <2>2. QED
      BY <2>1 DEF NotificationsRight
  <1>18. nextPid <= nextPid' /\ \A x \in Maps(u)' : hostOf'[x] # 0 /\ x < nextPid'
    BY <1>3, <1>10, <1>14 DEF TypeOK
  <1>19. \A x \in Maps(u) : x \notin Maps(u)' =>
              /\ hostOf'[x] = 0 /\ vm'[x].state = "off" /\ vm'[x].pending = "NOT_PENDING_OPS"
              /\ x \notin reqPendingToDelete' /\ Free(x) \notin Outs'
    <2>1. Free(v) \notin Outs
      BY <1>2, AskedOnce
    <2>2. Free(v) \notin OwnBy(u, Maps(u) \ {v})
      <3>1. MyJobs(u) \subseteq Jobs
        BY <1>2, JobsApart
      <3>2. QED
        BY <1>2, <1>3, <3>1, RequestsApart DEF OwnBy
    <2>3. Free(v) \notin Outs'
      BY <1>7, <1>8, <2>1, <2>2
    <2>4. QED
      BY <1>4, <1>5, <1>9, <1>10, <1>14, <2>3
  <1>20. \A k \in Jobs : executions'[k] \in 0 .. 1
    BY DEF IInv
  <1>21. IInv'
    BY <1>2, <1>8, <1>11, <1>13, <1>15, <1>16, <1>17, <1>18, <1>19, <1>20, BooksAfter
  <1>22. ASSUME AInv PROVE AInv'
    <2>1. AmpleRight(u)
      BY <1>2, <1>22 DEF AInv
    <2>2. StartVM(u) \notin Outs'
      <3>1. user[u].machinesMap # <<>>
        BY <1>2 DEF Maps, ToSet
      <3>2. QED
        BY <1>7, <1>8, <2>1, <3>1 DEF AmpleRight
    <2>3. \A x \in Maps(u)' : vm'[x].state # "off"
      BY <1>3, <1>4, <1>9, <1>14, <2>1 DEF AmpleRight
    <2>4. AmpleRight(u)'
      BY <2>2, <2>3 DEF AmpleRight
    <2>5. u \in Granted' <=> u \in Granted
      BY <1>8, <2>2 DEF Granted, tenantVars
    <2>6. QED
      BY <1>2, <1>5, <1>15, <1>22, <2>4, <2>5, AmpleAfter
  <1>23. QED
    BY <1>21, <1>22

\* The two notifications about a machine.
LEMMA FSFormattedStep ==
    ASSUME IInv, NEW v \in VMs, FSFormatted(v)
    PROVE  IInv' /\ (AInv => AInv')
  <1>1. TypeOK /\ QueueRight /\ NotificationsRight
    BY DEF IInv
  <1>2. /\ pendingRemoteStorageDeletion[v] > 0
        /\ pendingRemoteStorageDeletion' = [pendingRemoteStorageDeletion EXCEPT ![v] = @ - 1]
        /\ UNCHANGED <<selectionQuantity, nextPid, pendingStorageRequests, connectionsDeletion,
                       tenantVars, executions, selfMessages, ended>>
    BY DEF FSFormatted
  <1>3. /\ pendingRemoteStorageDeletion \in [VMs -> Nat] /\ connectionsDeletion \in [VMs -> Nat]
        /\ pendingRemoteStorageDeletion[v] = 1 /\ connectionsDeletion[v] \in 0 .. 1
        /\ v \in reqPendingToDelete
    BY <1>1, <1>2 DEF TypeOK, NotificationsRight
  <1>4. /\ pendingRemoteStorageDeletion' \in [VMs -> Nat] /\ connectionsDeletion' \in [VMs -> Nat]
        /\ pendingRemoteStorageDeletion'[v] = 0 /\ connectionsDeletion'[v] = connectionsDeletion[v]
        /\ \A x \in VMs \ {v} : /\ pendingRemoteStorageDeletion'[x] = pendingRemoteStorageDeletion[x]
                                /\ connectionsDeletion'[x] = connectionsDeletion[x]
    BY <1>2, <1>3
  <1>5. CASE connectionsDeletion[v] = 0
    <2>1. ShutDown(v)
      BY <1>3, <1>5 DEF FSFormatted
    <2>2. QED
      BY <1>2, <1>3, <1>4, <1>5, <2>1, ShutDownStep
  <1>6. CASE connectionsDeletion[v] = 1
    <2>1. UNCHANGED <<user, vm, queueVars, hostOf, nodesOn, reqPendingToDelete, fault>>
      BY <1>3, <1>6 DEF FSFormatted
    <2>2. QueueRight' /\ Outs' = Outs
      BY <1>1, <2>1 DEF QueueRight, Outs, queueVars
    <2>3. TypeOK'
      BY <1>1, <1>2, <1>4, <2>1, <2>2 DEF TypeOK, QueueRight, tenantVars
    <2>4. NotificationsRight'
      <3>1. ASSUME NEW x \in VMs
            PROVE  /\ pendingRemoteStorageDeletion'[x] \in 0 .. 1 /\ connectionsDeletion'[x] \in 0 .. 1
                   /\ x \in reqPendingToDelete' <=>
                         pendingRemoteStorageDeletion'[x] + connectionsDeletion'[x] > 0
        <4>1. CASE x = v
          BY <1>3, <1>4, <1>6, <2>1, <4>1
        <4>2. CASE x # v
          BY <1>1, <1>4, <2>1, <4>2 DEF NotificationsRight
        <4>3. QED
          BY <4>1, <4>2
      <3>2. QED
        BY <3>1 DEF NotificationsRight
    <2>5. QED
      BY <1>2, <2>1, <2>2, <2>3, <2>4, BooksUntouched DEF tenantVars
  <1>7. QED
    BY <1>3, <1>5, <1>6

\* The connections of a machine, once closed, keep both invariants.
LEMMA ConnectionsClosedStep ==
    ASSUME IInv, NEW v \in VMs, ConnectionsClosed(v)
    PROVE  IInv' /\ (AInv => AInv')
  <1>1. TypeOK /\ QueueRight /\ NotificationsRight
    BY DEF IInv
  <1>2. /\ connectionsDeletion[v] > 0
        /\ connectionsDeletion' = [connectionsDeletion EXCEPT ![v] = @ - 1]
        /\ UNCHANGED <<selectionQuantity, nextPid, pendingStorageRequests,
                       pendingRemoteStorageDeletion, tenantVars, executions, selfMessages, ended>>
    BY DEF ConnectionsClosed
  <1>3. /\ pendingRemoteStorageDeletion \in [VMs -> Nat] /\ connectionsDeletion \in [VMs -> Nat]
        /\ connectionsDeletion[v] = 1 /\ pendingRemoteStorageDeletion[v] \in 0 .. 1
        /\ v \in reqPendingToDelete
    BY <1>1, <1>2 DEF TypeOK, NotificationsRight
  <1>4. /\ pendingRemoteStorageDeletion' \in [VMs -> Nat] /\ connectionsDeletion' \in [VMs -> Nat]
        /\ connectionsDeletion'[v] = 0
        /\ pendingRemoteStorageDeletion'[v] = pendingRemoteStorageDeletion[v]
        /\ \A x \in VMs \ {v} : /\ pendingRemoteStorageDeletion'[x] = pendingRemoteStorageDeletion[x]
                                /\ connectionsDeletion'[x] = connectionsDeletion[x]
    BY <1>2, <1>3
  <1>5. CASE pendingRemoteStorageDeletion[v] = 0
    <2>1. ShutDown(v)
      BY <1>3, <1>5 DEF ConnectionsClosed
    <2>2. QED
      BY <1>2, <1>3, <1>4, <1>5, <2>1, ShutDownStep
  <1>6. CASE pendingRemoteStorageDeletion[v] = 1
    <2>1. UNCHANGED <<user, vm, queueVars, hostOf, nodesOn, reqPendingToDelete, fault>>
      BY <1>3, <1>6 DEF ConnectionsClosed
    <2>2. QueueRight' /\ Outs' = Outs
      BY <1>1, <2>1 DEF QueueRight, Outs, queueVars
    <2>3. TypeOK'
      BY <1>1, <1>2, <1>4, <2>1, <2>2 DEF TypeOK, QueueRight, tenantVars
    <2>4. NotificationsRight'
      <3>1. ASSUME NEW x \in VMs
            PROVE  /\ pendingRemoteStorageDeletion'[x] \in 0 .. 1 /\ connectionsDeletion'[x] \in 0 .. 1
                   /\ x \in reqPendingToDelete' <=>
                         pendingRemoteStorageDeletion'[x] + connectionsDeletion'[x] > 0
        <4>1. CASE x = v
          BY <1>3, <1>4, <1>6, <2>1, <4>1
        <4>2. CASE x # v
          BY <1>1, <1>4, <2>1, <4>2 DEF NotificationsRight
        <4>3. QED
          BY <4>1, <4>2
      <3>2. QED
        BY <3>1 DEF NotificationsRight
    <2>5. QED
      BY <1>2, <2>1, <2>2, <2>3, <2>4, BooksUntouched DEF tenantVars
  <1>7. QED
    BY <1>3, <1>5, <1>6

\* The places of the nodes are finitely many, and selectNode finds a node for each machine
\* for which there is a place.
LEMMA PlacesCounted ==
    /\ IsFiniteSet(Places) /\ FreeUpTo(0) = 0
    /\ \A n \in 0 .. NumNodes : FreeUpTo(n) \in Nat
  <1>1. NumNodes \in Nat /\ MaxVmsPerNode \in Nat
    BY CloudAssumption
  <1>2. IsFiniteSet(1 .. NumNodes) /\ IsFiniteSet(1 .. MaxVmsPerNode)
    BY <1>1, FS_Interval
  <1>3. IsFiniteSet(Places)
    BY <1>2, FS_Product DEF Places, Nodes
  <1>4. ASSUME NEW n \in 0 .. NumNodes PROVE FreeUpTo(n) \in Nat
    <2>1. {p \in Places : p[1] <= n /\ p[2] > Linked(p[1])} \subseteq Places
      OBVIOUS
    <2>2. QED
      BY <1>3, <2>1, FS_Subset, FS_CardinalityType DEF FreeUpTo
  <1>5. FreeUpTo(0) = 0
    <2>1. {p \in Places : p[1] <= 0 /\ p[2] > Linked(p[1])} = {}
      BY DEF Places, Nodes
    <2>2. QED
      BY <2>1, FS_EmptySet DEF FreeUpTo
  <1>6. QED
    BY <1>3, <1>4, <1>5

\* The scheduler selects a node of the data centre.
LEMMA NodeSelected ==
    ASSUME NEW k \in Nat, k > 0, k <= FreeUpTo(NumNodes)
    PROVE  SelectNode(k) \in Nodes
  <1>1. NumNodes \in Nat
    BY CloudAssumption
  <1> DEFINE B == {n \in 0 .. NumNodes : FreeUpTo(n) >= k}
  <1>2. NumNodes \in B /\ B \in SUBSET Nat
    BY <1>1
  <1>3. PICK m \in B : \A y \in B : m <= y
    BY <1>2, LeastNat
  <1>4. m # 0
    BY <1>3, PlacesCounted
  <1>5. m \in Nodes /\ m - 1 \in 0 .. NumNodes /\ ~(m <= m - 1)
    BY <1>1, <1>4 DEF Nodes
  <1>6. m - 1 \notin B
    BY <1>3, <1>5
  <1>7. FreeUpTo(m) >= k /\ FreeUpTo(m - 1) < k
    BY <1>3, <1>5, <1>6, PlacesCounted
  <1>8. QED
    BY <1>5, <1>7 DEF SelectNode

\* A start request is none of what the books of its user are about.
LEMMA StartApart ==
    ASSUME IInv, NEW u \in Users, NEW R, R = Outs \/ R = Outs \ {StartVM(u)}
    PROVE  UserRight(u, World(u), R, reqPendingToDelete, pendingStorageRequests, Done)
  <1> DEFINE w == World(u)
             D == reqPendingToDelete
             S == pendingStorageRequests
             E == Done
             O == Outs
  <1>1. /\ w \in Worlds /\ w.out = <<>> /\ UserRight(u, w, O, D, S, E) /\ Asks(w, O) = O
        /\ ToSet(w.u.machinesMap) \subseteq VMs
        /\ (R = O \/ R = O \ {StartVM(u)})
    <2>1. w \in Worlds /\ w.out = <<>> /\ UserRight(u, w, O, D, S, E)
      BY StateRight
    <2>2. QED
      BY <2>1, WorldParts DEF Asks, ToSet
  <1> HIDE DEF w, D, S, E, O
  <1>2. MyJobs(u) \subseteq Jobs
    BY JobsApart
  <1>3. /\ \A v \in ToSet(w.u.machinesMap) : Free(v) \in R <=> Free(v) \in O
        /\ \A j \in MyJobs(u) : Storage(j) \in R <=> Storage(j) \in O
        /\ Abandon(u) \in R <=> Abandon(u) \in O
    BY <1>1, <1>2, RequestsApart
  <1>4. /\ \A v \in ToSet(w.u.machinesMap) : ~(Free(v) \in Asks(w, O) /\ v \in D)
        /\ \A j \in MyJobs(u) : ~(Storage(j) \in Asks(w, O) /\ j \in S)
    BY <1>1 DEF UserRight, RequestsRight
  <1>5. UserRight(u, w, R, D, S, E)
    BY <1>1, <1>3, <1>4, UserMoved DEF SameBooks
  <1>6. QED
    BY <1>5 DEF w, D, S, E

\* The machines that a start request is granted.
LEMMA GrantedMachines ==
    ASSUME IInv, NEW n \in Nat, n > 0, nextPid + n - 1 <= MaxVMs, NEW vs,
           vs = [k \in 1 .. n |-> nextPid + k - 1]
    PROVE  /\ vs \in Seq(VMs) /\ IsInjective(vs) /\ Len(vs) = n
           /\ ToSet(vs) \subseteq VMs
           /\ \A v \in ToSet(vs) :
                 /\ v - nextPid + 1 \in 1 .. n /\ v < nextPid + n
                 /\ \A u \in Users : v \notin Maps(u)
                 /\ hostOf[v] = 0 /\ vm[v].state = "off" /\ vm[v].pending = "NOT_PENDING_OPS"
                 /\ v \notin reqPendingToDelete /\ Free(v) \notin Outs
  <1>1. TypeOK /\ MachinesPlaced
    BY DEF IInv
  <1>2. nextPid \in Nat /\ nextPid >= 1 /\ MaxVMs \in Nat
    BY <1>1, CloudAssumption DEF TypeOK
  <1>3. \A k \in 1 .. n : nextPid + k - 1 \in VMs
    BY <1>2 DEF VMs
  <1>4. vs \in [1 .. n -> VMs] /\ vs \in Seq(VMs) /\ Len(vs) = n
    BY <1>3
  <1>5. IsInjective(vs)
    BY <1>2 DEF IsInjective
  <1>6. ASSUME NEW v \in ToSet(vs)
        PROVE  /\ v \in VMs /\ v - nextPid + 1 \in 1 .. n /\ v < nextPid + n
               /\ \A u \in Users : v \notin Maps(u)
               /\ hostOf[v] = 0 /\ vm[v].state = "off" /\ vm[v].pending = "NOT_PENDING_OPS"
               /\ v \notin reqPendingToDelete /\ Free(v) \notin Outs
    <2>1. PICK k \in 1 .. n : v = nextPid + k - 1
      BY <1>4 DEF ToSet
    <2>2. v \in VMs /\ v - nextPid + 1 \in 1 .. n /\ v < nextPid + n /\ ~(v < nextPid)
      BY <1>2, <1>3, <2>1
    <2>3. \A u \in Users : v \notin Maps(u)
      BY <1>1, <2>2 DEF MachinesPlaced
    <2>4. QED
      BY <1>1, <2>2, <2>3 DEF MachinesPlaced
  <1>7. QED
    BY <1>4, <1>5, <1>6

\* The request that the scheduler looks at is one of the queue.
LEMMA FirstOut ==
    ASSUME QueueRight, cursor \in 1 .. Len(requestsQueue)
    PROVE  requestsQueue[cursor] \in Outs
  <1>1. cursor \in DOMAIN requestsQueue
    BY DEF QueueRight
  <1>2. QED
    BY <1>1 DEF Outs, ToSet

\* Each place of a node that has no room left holds a machine that was created.
LEMMA PlacesLeft ==
    ASSUME IInv
    PROVE  Cardinality(Places) <= FreeUpTo(NumNodes) + (nextPid - 1)
  <1> DEFINE On(n)  == {v \in VMs : hostOf[v] = n}
             Hosted == {v \in VMs : hostOf[v] # 0}
             Taken  == {p \in Places : ~(p[2] > Linked(p[1]))}
             Left   == {p \in Places : p[1] <= NumNodes /\ p[2] > Linked(p[1])}
             B(n)   == CHOOSE f : f \in Bijection(1 .. Linked(n), On(n))
             g      == [p \in Taken |-> B(p[1])[p[2]]]
  <1>1. TypeOK /\ MachinesPlaced /\ nextPid \in Nat /\ nextPid >= 1 /\ VMs \subseteq Nat
    BY DEF IInv, TypeOK, VMs
  <1>2. NumNodes \in Nat /\ MaxVmsPerNode \in Nat /\ MaxVMs \in Nat
    BY CloudAssumption
  <1>3. IsFiniteSet(Hosted) /\ Cardinality(Hosted) <= nextPid - 1
    <2>1. Hosted \subseteq 1 .. nextPid - 1
      <3>1. \A v \in Hosted : v < nextPid
        BY <1>1 DEF MachinesPlaced
      <3>2. QED
        BY <1>1, <3>1 DEF VMs
    <2>2. IsFiniteSet(1 .. nextPid - 1) /\ Cardinality(1 .. nextPid - 1) = nextPid - 1
      BY <1>1, FS_Interval
    <2>3. QED
      BY <2>1, <2>2, FS_Subset
  <1>4. ASSUME NEW n \in Nodes
        PROVE  /\ B(n) \in Bijection(1 .. Linked(n), On(n)) /\ Linked(n) \in Nat
               /\ On(n) \subseteq Hosted
    <2>1. On(n) \subseteq Hosted
      BY DEF Nodes
    <2>2. IsFiniteSet(On(n))
      BY <1>3, <2>1, FS_Subset
    <2>3. Linked(n) = Cardinality(On(n))
      BY DEF Linked
    <2>4. Linked(n) \in Nat /\ Bijection(1 .. Linked(n), On(n)) # {}
      <3>1. Cardinality(On(n)) \in Nat /\ ExistsBijection(1 .. Cardinality(On(n)), On(n))
        BY <2>2, FS_CardinalityType
      <3>2. QED
        BY <2>3, <3>1 DEF ExistsBijection
    <2>5. QED
      BY <2>1, <2>4
  <1>5. \A p \in Places : p[1] \in Nodes /\ p[2] \in 1 .. MaxVmsPerNode /\ p = <<p[1], p[2]>>
    BY DEF Places
  <1> HIDE DEF B
  <1>6. ASSUME NEW p \in Taken
        PROVE  /\ p[2] \in 1 .. Linked(p[1]) /\ B(p[1])[p[2]] \in On(p[1]) /\ p[1] \in Nodes
    <2>1. p[1] \in Nodes /\ p[2] \in Nat /\ p[2] >= 1 /\ ~(p[2] > Linked(p[1]))
      BY <1>2, <1>5
    <2>a. Linked(p[1]) \in Nat
      BY <1>4, <2>1
    <2>2. p[2] \in 1 .. Linked(p[1])
      BY <2>1, <2>a
    <2>3. B(p[1]) \in [1 .. Linked(p[1]) -> On(p[1])]
      BY <1>4, <2>1 DEF Bijection, Injection
    <2>4. QED
      BY <2>1, <2>2, <2>3
  <1>7. g \in Injection(Taken, Hosted)
    <2>1. g \in [Taken -> Hosted]
      BY <1>4, <1>6
    <2>2. ASSUME NEW p \in Taken, NEW q \in Taken, g[p] = g[q] PROVE p = q
      <3>1. B(p[1])[p[2]] = B(q[1])[q[2]]
        BY <2>2
      <3>2. p[1] = q[1]
        BY <1>6, <3>1
      <3>3. \A x, y \in 1 .. Linked(p[1]) : B(p[1])[x] = B(p[1])[y] => x = y
        <4>1. B(p[1]) \in Injection(1 .. Linked(p[1]), On(p[1]))
          BY <1>4, <1>6 DEF Bijection
        <4>2. QED
          BY <4>1 DEF Injection, IsInjective
      <3>4. p[2] = q[2]
        BY <1>6, <3>1, <3>2, <3>3
      <3>5. QED
        BY <1>5, <3>2, <3>4
    <2>3. QED
      <3>1. DOMAIN g = Taken
        OBVIOUS
      <3> HIDE DEF g
      <3>2. QED
        BY <2>1, <2>2, <3>1 DEF Injection, IsInjective
  <1>8. IsFiniteSet(Taken) /\ Cardinality(Taken) <= Cardinality(Hosted)
    <2> HIDE DEF g, Taken, Hosted
    <2>1. QED
      BY <1>3, <1>7, FS_Injection
  <1>9. Places = Taken \cup Left /\ Taken \cap Left = {} /\ IsFiniteSet(Left)
    <2>1. \A p \in Places : p[1] <= NumNodes
      BY <1>2, <1>5 DEF Nodes
    <2>2. Places = Taken \cup Left /\ Taken \cap Left = {} /\ Left \subseteq Places
      BY <2>1
    <2>3. QED
      BY <2>2, PlacesCounted, FS_Subset
  <1>10. FreeUpTo(NumNodes) = Cardinality(Left)
    BY DEF FreeUpTo
  <1> HIDE DEF Taken, Left, Hosted
  <1>11. Cardinality(Places) = Cardinality(Taken) + Cardinality(Left)
    <2>1. Cardinality(Taken \cup Left)
             = Cardinality(Taken) + Cardinality(Left) - Cardinality(Taken \cap Left)
      BY <1>8, <1>9, FS_Union
    <2>2. Cardinality(Taken \cap Left) = 0
      BY <1>9, FS_EmptySet
    <2>3. Cardinality(Taken) \in Nat /\ Cardinality(Left) \in Nat
      BY <1>8, <1>9, FS_CardinalityType
    <2>4. QED
      BY <1>9, <2>1, <2>2, <2>3
  <1>12. QED
    <2>1. Cardinality(Taken) \in Nat /\ Cardinality(Left) \in Nat /\ Cardinality(Hosted) \in Nat
      BY <1>3, <1>8, <1>9, FS_CardinalityType
    <2>2. QED
      BY <1>1, <1>3, <1>8, <1>10, <1>11, <2>1

\* The demand of the users that were granted their machines grows by what one asked for.
LEMMA DemandGrows ==
    ASSUME Ample, NEW u \in Users, NEW G, u \notin G, Asked(u) \in Nat
    PROVE  /\ Cardinality({p \in Demand : p[1] \in G \cup {u}})
                 = Cardinality({p \in Demand : p[1] \in G}) + Asked(u)
           /\ Cardinality({p \in Demand : p[1] \in G \cup {u}}) <= Cardinality(Demand)
           /\ Cardinality({p \in Demand : p[1] \in G}) \in Nat /\ Cardinality(Demand) \in Nat
  <1> DEFINE All == {p \in Demand : p[1] \in G \cup {u}}
             Old == {p \in Demand : p[1] \in G}
             New == {p \in Demand : p[1] = u}
             I   == 1 .. Asked(u)
             f   == [k \in I |-> <<u, k>>]
  <1>a. All = Old \cup New /\ Old \cap New = {}
    OBVIOUS
  <1>1. All \subseteq Demand /\ Old \subseteq Demand /\ New \subseteq Demand
    OBVIOUS
  <1>2. IsFiniteSet(Demand)
    BY DEF Ample
  <1>3. IsFiniteSet(All) /\ IsFiniteSet(Old) /\ IsFiniteSet(New) /\ Cardinality(All) <= Cardinality(Demand)
    BY <1>1, <1>2, FS_Subset
  <1>4. \A p \in New : \E k \in I : p = <<u, k>>
    BY DEF Demand
  <1>5. \A k \in I : <<u, k>> \in New
    BY DEF Demand
  <1>6. f \in Surjection(I, New) /\ f \in Injection(I, New)
    <2>1. f \in [I -> New] /\ DOMAIN f = I
      BY <1>5
    <2>2. \A p \in New : \E k \in I : f[k] = p
      BY <1>4
    <2>3. \A k, m \in I : f[k] = f[m] => k = m
      OBVIOUS
    <2> HIDE DEF f, I, New
    <2>4. QED
      BY <2>1, <2>2, <2>3 DEF Surjection, Injection, IsInjective
  <1>7. IsFiniteSet(I) /\ Cardinality(I) = Asked(u)
    BY FS_Interval
  <1> HIDE DEF f, I, New, Old, All
  <1>8. Cardinality(New) = Asked(u)
    BY <1>6, <1>7, FS_Surjection
  <1>9. Cardinality(All) = Cardinality(Old) + Asked(u)
    <2>1. Cardinality(Old \cup New) = Cardinality(Old) + Cardinality(New) - Cardinality(Old \cap New)
      BY <1>3, FS_Union
    <2>2. Cardinality(Old \cap New) = 0
      BY <1>a, FS_EmptySet
    <2>3. Cardinality(Old) \in Nat
      BY <1>3, FS_CardinalityType
    <2>4. QED
      BY <1>a, <1>8, <2>1, <2>2, <2>3
  <1>10. Cardinality(Old) \in Nat /\ Cardinality(Demand) \in Nat
    BY <1>2, <1>3, FS_CardinalityType
  <1>11. QED
    BY <1>3, <1>9, <1>10 DEF All, Old

\* While the demanded machines fit, a start request finds its user and all places it needs.
LEMMA AmpleGrants ==
    ASSUME IInv, AInv, Ample, NEW u \in Users, StartVM(u) \in Outs
    PROVE  /\ u \in userList /\ u \in arrived
           /\ selectionQuantity[u] = Asked(u) /\ Asked(u) <= FreeUpTo(NumNodes)
           /\ Asked(u) \in Nat /\ Asked(u) # 0 /\ Asked(u) <= Len(JobsOf[u])
           /\ user[u].machinesMap = <<>> /\ user[u].containerWaitingQueue = JobsOf[u]
  <1>1. /\ user[u].machinesMap = <<>> /\ user[u].containerWaitingQueue = JobsOf[u]
        /\ selectionQuantity[u] = Asked(u)
    BY DEF AInv, AmpleRight
  <1>2. /\ TypeOK /\ TenantRight(u) /\ World(u).u = user[u]
        /\ UserRight(u, World(u), Outs, reqPendingToDelete, pendingStorageRequests, Done)
    BY StateRight
  <1>3. JobsOf[u] # <<>> /\ JobsOf[u] \in Seq(Jobs) /\ VmQuantity[u] \in Nat /\ VmQuantity[u] # 0
    BY CloudAssumption
  <1>4. Len(JobsOf[u]) \in Nat /\ Len(JobsOf[u]) # 0
    BY <1>3, EmptySeq
  <1>5. Asked(u) \in Nat /\ Asked(u) # 0 /\ Asked(u) <= Len(JobsOf[u])
    BY <1>3, <1>4 DEF Asked
  <1>6. u \in arrived /\ u \in userList
    BY <1>1, <1>2, <1>3 DEF TenantRight, UserRight, FinalizingRight
  <1>7. Asked(u) <= FreeUpTo(NumNodes)
    <2>1. PICK G : G = Granted
      OBVIOUS
    <2>2. u \notin G
      BY <2>1 DEF Granted
    <2>3. /\ Cardinality({p \in Demand : p[1] \in G \cup {u}})
                 = Cardinality({p \in Demand : p[1] \in G}) + Asked(u)
          /\ Cardinality({p \in Demand : p[1] \in G \cup {u}}) <= Cardinality(Demand)
          /\ Cardinality({p \in Demand : p[1] \in G}) \in Nat /\ Cardinality(Demand) \in Nat
      BY <1>5, <2>2, DemandGrows
    <2>4. nextPid - 1 = Cardinality({p \in Demand : p[1] \in G})
      BY <2>1 DEF AInv
    <2>5. Cardinality(Demand) <= Cardinality(Places)
      BY DEF Ample
    <2>6. Cardinality(Places) <= FreeUpTo(NumNodes) + (nextPid - 1)
      BY PlacesLeft
    <2>7. FreeUpTo(NumNodes) \in Nat /\ Cardinality(Places) \in Nat
      <3>1. NumNodes \in 0 .. NumNodes
        BY CloudAssumption
      <3>2. QED
        BY <3>1, PlacesCounted, FS_CardinalityType
    <2>8. QED
      BY <1>5, <2>3, <2>4, <2>5, <2>6, <2>7
  <1>8. QED
    BY <1>1, <1>5, <1>6, <1>7

\* Attending a start request keeps IInv, and AInv when the nodes have room.
LEMMA AttendStartStep ==
    ASSUME IInv, NEW u \in Users, AttendStart(u)
    PROVE  IInv' /\ (AInv /\ Ample => AInv')
  <1> DEFINE asked   == selectionQuantity[u]
             n       == IF asked < FreeUpTo(NumNodes) THEN asked ELSE FreeUpTo(NumNodes)
             vs      == [k \in 1 .. n |-> nextPid + k - 1]
             w       == World(u)
  <1>1. PICK a : a = StartAttended(w, vs)
    OBVIOUS
  <1>2. /\ Request = StartVM(u) /\ nextPid + n - 1 <= MaxVMs
        /\ cursor \in 1 .. Len(requestsQueue)
        /\ UNCHANGED <<pendingStorageRequests, pendingRemoteStorageDeletion, connectionsDeletion,
                       reqPendingToDelete, tenantVars, executions, selfMessages, ended>>
        /\ \/ /\ n > 0 /\ u \in userList
              /\ hostOf' = [v \in VMs |-> IF v \in ToSet(vs) THEN SelectNode(v - nextPid + 1)
                                          ELSE hostOf[v]]
              /\ nodesOn' = nodesOn \cup {SelectNode(k) : k \in 1 .. n}
              /\ nextPid' = nextPid + n
              /\ selectionQuantity' = [selectionQuantity EXCEPT ![u] = @ - n]
              /\ Commit(u, a)
              /\ \/ n = asked /\ Queue!EraseRequest(a.out)
                 \/ n < asked /\ Queue!PostponeRequest(a.out)
              /\ UNCHANGED fault
           \/ /\ n = 0
              /\ Queue!PostponeRequest(<<>>)
              /\ UNCHANGED <<user, vm, hostOf, nodesOn, nextPid, selectionQuantity, fault>>
           \/ /\ fault' = TRUE /\ u \notin userList
              /\ UNCHANGED <<user, vm, queueVars, hostOf, nodesOn, nextPid, selectionQuantity>>
    BY <1>1 DEF AttendStart, Walking
  <1>3. /\ TypeOK /\ QueueRight /\ TenantRight(u) /\ NotificationsRight
        /\ w \in Worlds /\ w.u = user[u] /\ w.vm = vm /\ w.out = <<>>
        /\ Maps(u) = ToSet(w.u.machinesMap) /\ Maps(u) \subseteq VMs
        /\ \A x \in Users \ {u} : Maps(x) \subseteq VMs /\ Maps(x) \cap Maps(u) = {}
        /\ \A x \in Maps(u) : hostOf[x] # 0 /\ x < nextPid
    BY StateRight
  <1>4. /\ asked \in Nat /\ n \in Nat /\ n <= asked /\ n <= FreeUpTo(NumNodes)
        /\ nextPid \in Nat /\ asked <= w.u.pendingVmsAtStartup
    <2>1. FreeUpTo(NumNodes) \in Nat
      <3>1. NumNodes \in 0 .. NumNodes
        BY CloudAssumption
      <3>2. QED
        BY <3>1, PlacesCounted
    <2>2. QED
      BY <1>3, <2>1 DEF TypeOK, TenantRight
  <1>a. ASSUME AInv, Ample
        PROVE  /\ n = asked /\ asked = Asked(u) /\ n # 0 /\ u \in userList /\ u \in arrived
               /\ user[u].machinesMap = <<>> /\ user[u].containerWaitingQueue = JobsOf[u]
               /\ Asked(u) \in Nat /\ Asked(u) <= Len(JobsOf[u])
    <2>1. StartVM(u) \in Outs
      BY <1>2, <1>3, FirstOut DEF Request
    <2>2. /\ u \in userList /\ u \in arrived
          /\ selectionQuantity[u] = Asked(u) /\ Asked(u) <= FreeUpTo(NumNodes)
          /\ Asked(u) \in Nat /\ Asked(u) # 0 /\ Asked(u) <= Len(JobsOf[u])
          /\ user[u].machinesMap = <<>> /\ user[u].containerWaitingQueue = JobsOf[u]
      BY <1>a, <2>1, AmpleGrants
    <2>3. NumNodes \in 0 .. NumNodes
      BY CloudAssumption
    <2>4. QED
      BY <2>2, <2>3, PlacesCounted
  <1> HIDE DEF asked, n, w
  <1>5. PICK s : s = vs
    OBVIOUS
  <1> HIDE DEF vs
  <1>6. CASE /\ n > 0 /\ u \in userList /\ Commit(u, a)
             /\ hostOf' = [v \in VMs |-> IF v \in ToSet(s) THEN SelectNode(v - nextPid + 1)
                                          ELSE hostOf[v]]
             /\ nodesOn' = nodesOn \cup {SelectNode(k) : k \in 1 .. n}
             /\ nextPid' = nextPid + n
             /\ selectionQuantity' = [selectionQuantity EXCEPT ![u] = @ - n]
             /\ UNCHANGED fault
             /\ \/ n = asked /\ Queue!EraseRequest(a.out)
                \/ n < asked /\ Queue!PostponeRequest(a.out)
    <2> DEFINE V == ToSet(s)
               M == Maps(u) \cup V
    <2>1. /\ s \in Seq(VMs) /\ IsInjective(s) /\ Len(s) = n /\ V \subseteq VMs
          /\ \A v \in V :
                 /\ v - nextPid + 1 \in 1 .. n /\ v < nextPid + n
                 /\ \A x \in Users : v \notin Maps(x)
                 /\ hostOf[v] = 0 /\ vm[v].state = "off" /\ vm[v].pending = "NOT_PENDING_OPS"
                 /\ v \notin reqPendingToDelete /\ Free(v) \notin Outs
      <3>1. s = [k \in 1 .. n |-> nextPid + k - 1]
        BY <1>5 DEF vs
      <3>2. QED
        BY <1>2, <1>4, <1>6, <3>1, GrantedMachines
    <2> HIDE DEF V
    <2>2. PICK R : R = IF Queue!EraseRequest(a.out) THEN Outs \ {StartVM(u)} ELSE Outs
      OBVIOUS
    <2>3. UserRight(u, w, R, reqPendingToDelete, pendingStorageRequests, Done)
      BY <2>2, StartApart DEF w
    <2>4. MachinesCame(u, w, a, s, R, reqPendingToDelete, pendingStorageRequests, Done)
      <3>1. \A v \in ToSet(s) : /\ w.vm[v].state = "off" /\ w.vm[v].pending = "NOT_PENDING_OPS"
                                /\ Free(v) \notin Asks(w, R) /\ v \notin reqPendingToDelete
        BY <1>3, <2>1, <2>2 DEF Asks, ToSet, V
      <3>2. ToSet(s) \cap ToSet(w.u.machinesMap) = {}
        BY <1>3, <2>1 DEF V
      <3>3. Len(s) <= w.u.pendingVmsAtStartup
        <4>1. w.u.pendingVmsAtStartup \in Nat
          BY <1>3, WorldParts
        <4>2. QED
          BY <1>4, <2>1, <4>1
      <3>4. a = StartAttended(w, s)
        BY <1>1, <1>5
      <3>5. MachinesCame(u, w, StartAttended(w, s), s, R, reqPendingToDelete, pendingStorageRequests, Done)
        BY <1>3, <2>1, <2>3, <3>1, <3>2, <3>3, StartKept
      <3>6. QED
        BY <3>4, <3>5
    <2>5. /\ a \in Worlds /\ UserRight(u, a, R, reqPendingToDelete, pendingStorageRequests, Done)
          /\ ToSet(a.u.machinesMap) = M
          /\ w.u.pendingVmsAtStartup - n <= a.u.pendingVmsAtStartup
          /\ a.u.userFinalizing = w.u.userFinalizing
          /\ \A x \in VMs \ M : a.vm[x] = w.vm[x]
      BY <1>3, <2>1, <2>4 DEF MachinesCame, V
    <2> HIDE DEF M
    <2>6. /\ a.out \in Seq(Requests) /\ IsInjective(a.out) /\ ToSet(a.out) \cap R = {}
          /\ StartVM(u) \notin ToSet(a.out) /\ ToSet(a.out) \subseteq OwnBy(u, M)
      BY <2>5, SentRight
    <2>7. ToSet(a.out) \cap Outs = {}
      BY <2>2, <2>6
    <2>8. QueueRight' /\ Outs' = R \cup ToSet(a.out)
      <3>1. CASE Queue!EraseRequest(a.out)
        <4>1. StartVM(u) = requestsQueue[cursor]
          BY <1>2 DEF Request
        <4>2. QueueRight' /\ Outs' = (Outs \ {StartVM(u)}) \cup ToSet(a.out)
          BY <1>3, <2>6, <2>7, <3>1, <4>1, EraseEffect
        <4>3. QED
          BY <2>2, <3>1, <4>2
      <3>2. CASE ~Queue!EraseRequest(a.out)
        <4>1. QueueRight' /\ Outs' = Outs \cup ToSet(a.out)
          BY <1>3, <1>6, <2>6, <2>7, <3>2, PostponeEffect
        <4>2. QED
          BY <2>2, <3>2, <4>1
      <3>3. QED
        BY <3>1, <3>2
    <2>9. /\ user' \in [Users -> UserState] /\ user'[u] = a.u /\ vm' = a.vm
          /\ \A x \in Users \ {u} : user'[x] = user[x]
          /\ vm' \in [VMs -> [state : {"off", "idle", "running"},
                             pending : {"NOT_PENDING_OPS", "PENDING_STORAGE", "PENDING_SHUTDOWN"}]]
      BY <1>3, <1>6, <2>5, CommitTyped
    <2>10. \A k \in 1 .. n : SelectNode(k) \in Nodes
      <3>1. TAKE k \in 1 .. n
      <3>2. NumNodes \in 0 .. NumNodes
        BY CloudAssumption
      <3>3. k \in Nat /\ k > 0 /\ k <= FreeUpTo(NumNodes)
        BY <1>4, <3>2, PlacesCounted
      <3>4. QED
        BY <3>3, NodeSelected
    <2>11. /\ hostOf' \in [VMs -> Nodes \cup {0}]
           /\ \A v \in V : hostOf'[v] \in Nodes
           /\ \A v \in VMs \ V : hostOf'[v] = hostOf[v]
      <3>1. \A v \in V : v - nextPid + 1 \in 1 .. n /\ v \in VMs
        BY <2>1
      <3>2. hostOf \in [VMs -> Nodes \cup {0}]
        BY <1>3 DEF TypeOK
      <3>3. QED
        BY <1>6, <2>10, <3>1, <3>2 DEF V
    <2>12. nodesOn' \subseteq Nodes
      BY <1>3, <1>6, <2>10 DEF TypeOK
    <2>13. /\ selectionQuantity' \in [Users -> Nat] /\ selectionQuantity'[u] = asked - n
           /\ \A x \in Users \ {u} : selectionQuantity'[x] = selectionQuantity[x]
      BY <1>3, <1>4, <1>6 DEF TypeOK, asked
    <2>14. nextPid' \in 1 .. MaxVMs + 1
      <3>1. MaxVMs \in Nat /\ nextPid \in 1 .. MaxVMs + 1
        BY <1>3, CloudAssumption DEF TypeOK
      <3>2. QED
        BY <1>2, <1>4, <1>6, <3>1
    <2>15. TypeOK'
      BY <1>2, <1>3, <1>6, <2>8, <2>9, <2>11, <2>12, <2>13, <2>14 DEF TypeOK, QueueRight, tenantVars
    <2>16. Done' = Done
      BY <1>2 DEF Done
    <2>17. UserRight(u, World(u)', Outs', reqPendingToDelete', pendingStorageRequests', Done')
      <3>1. UserRight(u, a, R, reqPendingToDelete', pendingStorageRequests', Done')
        BY <1>2, <2>5, <2>16
      <3>2. QED
        BY <1>3, <1>6, <2>5, <2>8, <2>15, <3>1, CommitMoved
    <2>18. Maps(u)' = M
      BY <2>5, <2>9 DEF Maps
    <2>19. M \subseteq VMs /\ Maps(u) \subseteq M /\ \A x \in Users \ {u} : Maps(x) \cap M = {}
      BY <1>3, <2>1 DEF M
    <2>20. OneUser(u, M)
      <3>1. \A x \in VMs \ M : vm'[x] = vm[x] /\ hostOf'[x] = hostOf[x]
        BY <1>3, <2>5, <2>9, <2>11 DEF M
      <3>2. \A r \in Requests \ OwnBy(u, M) : r \in Outs' <=> r \in Outs
        <4>1. StartVM(u) \in OwnBy(u, M)
          BY DEF OwnBy
        <4>2. QED
          BY <2>2, <2>6, <2>8, <4>1
      <3>3. QED
        BY <1>2, <2>9, <2>13, <2>18, <2>19, <3>1, <3>2 DEF OneUser, tenantVars
    <2>21. TenantRight(u)'
      <3>1. /\ u \in userList' /\ u \in arrived'
        BY <1>2, <1>3, <1>6 DEF tenantVars, TypeOK
      <3>2. selectionQuantity'[u] <= user'[u].pendingVmsAtStartup
        <4>1. w.u.pendingVmsAtStartup \in Nat /\ a.u.pendingVmsAtStartup \in Nat
          BY <1>3, <2>5, WorldParts
        <4>2. QED
          BY <1>4, <2>5, <2>9, <2>13, <4>1
      <3>3. QED
        BY <3>1, <3>2 DEF TenantRight
    <2>22. NotificationsRight'
      BY <1>2, <1>3 DEF NotificationsRight
    <2>23. nextPid <= nextPid' /\ \A x \in Maps(u)' : hostOf'[x] # 0 /\ x < nextPid'
      <3>1. nextPid <= nextPid'
        BY <1>4, <1>6
      <3>2. ASSUME NEW x \in M PROVE hostOf'[x] # 0 /\ x < nextPid'
        <4>1. CASE x \in V
          <5>1. 0 \notin Nodes
            BY DEF Nodes
          <5>2. hostOf'[x] # 0
            BY <2>11, <4>1, <5>1
          <5>3. x < nextPid + n
            BY <2>1, <4>1
          <5>4. QED
            BY <1>6, <5>2, <5>3
        <4>2. CASE x \notin V
          <5>1. x \in Maps(u) /\ x \in VMs \ V
            BY <2>19, <4>2 DEF M
          <5>2. x \in Nat /\ x < nextPid /\ hostOf[x] # 0
            BY <1>3, <5>1 DEF VMs
          <5>3. QED
            BY <1>4, <1>6, <2>11, <5>1, <5>2
        <4>3. QED
          BY <4>1, <4>2
      <3>3. QED
        BY <2>18, <3>1, <3>2
    <2>24. \A x \in M : x \notin Maps(u)' =>
              /\ hostOf'[x] = 0 /\ vm'[x].state = "off" /\ vm'[x].pending = "NOT_PENDING_OPS"
              /\ x \notin reqPendingToDelete' /\ Free(x) \notin Outs'
      BY <2>18
    <2>25. \A k \in Jobs : executions'[k] \in 0 .. 1
      BY <1>2 DEF IInv
    <2>26. IInv'
      BY <2>8, <2>15, <2>17, <2>20, <2>21, <2>22, <2>23, <2>24, <2>25, BooksAfter
    <2>27. ASSUME AInv, Ample PROVE AInv'
      <3>1. /\ n = asked /\ asked = Asked(u) /\ user[u].machinesMap = <<>>
            /\ user[u].containerWaitingQueue = JobsOf[u]
            /\ Asked(u) \in Nat /\ Asked(u) <= Len(JobsOf[u]) /\ u \in arrived
        BY <1>a, <2>27
      <3>2. /\ StartVM(u) \notin Outs' /\ u \in Granted' /\ u \notin Granted
        <4>1. Queue!EraseRequest(a.out)
          BY <1>4, <1>6, <3>1
        <4>2. StartVM(u) \notin Outs'
          BY <2>2, <2>6, <2>8, <4>1
        <4>3. StartVM(u) \in Outs
          BY <1>3, <1>2, FirstOut DEF Request
        <4>4. QED
          BY <1>2, <3>1, <4>2, <4>3 DEF Granted, tenantVars
      <3>3. AmpleRight(u)'
        <4>1. Maps(u)' = V
          BY <2>18, <3>1 DEF M, Maps, ToSet
        <4>2. \A x \in V : a.vm[x].state # "off"
          BY <1>3, <2>1, <2>4, <3>1 DEF MachinesCame, V
        <4>3. QED
          BY <2>9, <3>2, <4>1, <4>2 DEF AmpleRight
      <3>4. \A x \in Users \ {u} :
               /\ AmpleRight(x)'
               /\ x \in arrived' <=> x \in arrived
               /\ StartVM(x) \in Outs' <=> StartVM(x) \in Outs
        <4>1. TAKE x \in Users \ {u}
        <4>2. QED
          BY <2>20, <2>27, <4>1, AmpleOthers
      <3>5. \A x \in Users : AmpleRight(x)'
        <4>1. TAKE x \in Users
        <4>2. CASE x = u
          BY <3>3, <4>2
        <4>3. CASE x # u
          <5>1. x \in Users \ {u}
            BY <4>3
          <5>2. QED
            BY <3>4, <5>1
        <4>4. QED
          BY <4>2, <4>3
      <3>6. Granted' = Granted \cup {u}
        <4>1. \A x \in Users \ {u} : x \in Granted' <=> x \in Granted
          BY <3>4 DEF Granted
        <4>2. Granted \subseteq Users /\ Granted' \subseteq Users
          BY <1>3, <2>15 DEF Granted, TypeOK
        <4>3. QED
          BY <3>2, <4>1, <4>2
      <3>7. nextPid' - 1 = Cardinality({p \in Demand : p[1] \in Granted'})
        <4>1. nextPid - 1 = Cardinality({p \in Demand : p[1] \in Granted})
          BY <2>27 DEF AInv
        <4>2. PICK G : G = Granted
          OBVIOUS
        <4>3. Cardinality({p \in Demand : p[1] \in G \cup {u}})
                 = Cardinality({p \in Demand : p[1] \in G}) + Asked(u)
          BY <2>27, <3>1, <3>2, <4>2, DemandGrows
        <4>4. QED
          BY <1>4, <1>6, <3>1, <3>6, <4>1, <4>2, <4>3
      <3>8. ~fault' /\ Demand' = Demand
        BY <1>6, <2>27 DEF AInv, Demand, Asked
      <3>9. QED
        BY <3>5, <3>7, <3>8 DEF AInv
    <2>28. QED
      BY <2>26, <2>27
  <1>7. CASE /\ UNCHANGED <<user, vm, hostOf, nodesOn, nextPid, selectionQuantity>>
             /\ fault' \in BOOLEAN
             /\ \/ n = 0 /\ Queue!PostponeRequest(<<>>)
                \/ u \notin userList /\ UNCHANGED queueVars
    <2>1. QueueRight' /\ Outs' = Outs
      <3>1. CASE UNCHANGED queueVars
        BY <1>3, <3>1 DEF QueueRight, Outs, queueVars
      <3>2. CASE Queue!PostponeRequest(<<>>)
        <4>1. <<>> \in Seq(Requests) /\ IsInjective(<<>>) /\ ToSet(<<>>) = {}
          BY DEF IsInjective, ToSet
        <4>2. QED
          BY <1>3, <3>2, <4>1, PostponeEffect
      <3>3. QED
        BY <1>7, <3>1, <3>2
    <2>2. TypeOK'
      BY <1>2, <1>3, <1>7, <2>1 DEF TypeOK, QueueRight, tenantVars
    <2>3. NotificationsRight'
      BY <1>2, <1>3 DEF NotificationsRight
    <2>4. IInv'
      BY <1>2, <1>7, <2>1, <2>2, <2>3, BooksUntouched DEF tenantVars
    <2>5. ~(AInv /\ Ample)
      BY <1>7, <1>a
    <2>6. QED
      BY <2>4, <2>5
  <1>8. fault \in BOOLEAN
    BY <1>3 DEF TypeOK
  <1>9. QED
    BY <1>2, <1>5, <1>6, <1>7, <1>8

\* The steps that leave users, machines and requests alone.
LEMMA QuietSteps ==
    ASSUME IInv, FinalizeUserGenerator \/ ScheduleBegin \/ ScheduleEnd \/ UNCHANGED vars
    PROVE  IInv' /\ (AInv => AInv')
  <1>1. TypeOK /\ QueueRight /\ NotificationsRight
    BY DEF IInv
  <1>2. /\ UNCHANGED <<user, vm, selectionQuantity, nextPid, hostOf, nodesOn, pendingStorageRequests,
                       pendingRemoteStorageDeletion, connectionsDeletion, reqPendingToDelete,
                       userList, arrived, executions, selfMessages, fault>>
        /\ QueueRight' /\ Outs' = Outs
        /\ no_more_users' \in BOOLEAN /\ ended' \in BOOLEAN
    <2>1. CASE FinalizeUserGenerator
      BY <1>1, <2>1 DEF FinalizeUserGenerator, managerVars, queueVars, QueueRight, Outs, TypeOK
    <2>2. CASE ScheduleBegin
      <3>1. Queue!SchedulerBlock
        BY <2>2 DEF ScheduleBegin
      <3>2. QueueRight' /\ Outs' = Outs
        BY <1>1, <3>1, BlockEffect
      <3>3. QED
        BY <1>1, <2>2, <3>2 DEF ScheduleBegin, managerVars, tenantVars, TypeOK
    <2>3. CASE ScheduleEnd
      <3>1. Queue!SchedulerUnblock
        BY <2>3 DEF ScheduleEnd
      <3>2. QueueRight' /\ Outs' = Outs
        BY <1>1, <3>1, UnblockEffect
      <3>3. ended' = (no_more_users /\ userList = {})
            /\ UNCHANGED <<user, vm, managerVars, tenantVars, executions, selfMessages, fault>>
        BY <2>3 DEF ScheduleEnd
      <3>4. ended' \in BOOLEAN /\ no_more_users' \in BOOLEAN
        BY <1>1, <3>3 DEF TypeOK, tenantVars
      <3>5. QED
        BY <3>2, <3>3, <3>4 DEF managerVars, tenantVars
    <2>4. CASE UNCHANGED vars
      BY <1>1, <2>4 DEF vars, managerVars, tenantVars, queueVars, QueueRight, Outs, TypeOK
    <2>5. QED
      BY <2>1, <2>2, <2>3, <2>4
  <1>3. TypeOK'
    BY <1>1, <1>2 DEF TypeOK, QueueRight
  <1>4. NotificationsRight'
    BY <1>1, <1>2 DEF NotificationsRight
  <1>5. QED
    BY <1>2, <1>3, <1>4, BooksUntouched

\* The books are right at the start.
LEMMA BooksAtStart ==
    ASSUME Init
    PROVE  IInv
  <1>1. /\ requestsQueue = <<>> /\ temporalRequestsQueue = <<>> /\ cursor = 0
    BY DEF Init, Queue!Init
  <1>2. QueueRight /\ Outs = {}
    BY <1>1 DEF QueueRight, Outs, IsInjective, ToSet
  <1> DEFINE first(u) == [containerWaitingQueue |-> JobsOf[u], waitingForStorage |-> {},
                          containerRunningQueue |-> {}, machinesMap |-> <<>>,
                          machine |-> [j \in Jobs |-> 0], pendingVmsAtStartup |-> 0,
                          pending_shutdown_requests |-> 0,
                          vms_waiting_remote_st |-> [v \in VMs |-> 0],
                          userFinalizing |-> FALSE]
  <1>3. user = [u \in Users |-> first(u)]
    BY DEF Init
  <1>4. \A u \in Users : first(u) \in UserState
    <2>1. MaxVMs \in Nat
      BY CloudAssumption
    <2>2. \A u \in Users : JobsOf[u] \in Seq(Jobs)
      BY JobsApart
    <2>3. [j \in Jobs |-> 0] \in [Jobs -> 0 .. MaxVMs] /\ [v \in VMs |-> 0] \in [VMs -> Nat]
          /\ <<>> \in Seq(VMs)
      BY <2>1
    <2>4. QED
      BY <2>2, <2>3 DEF UserState
  <1>5. TypeOK
    <2>1. user \in [Users -> UserState]
      BY <1>3, <1>4
    <2> HIDE DEF first
    <2>2. vm \in [VMs -> [state : {"off", "idle", "running"},
                       pending : {"NOT_PENDING_OPS", "PENDING_STORAGE", "PENDING_SHUTDOWN"}]]
      BY DEF Init
    <2>3. nextPid \in 1 .. MaxVMs + 1
      BY CloudAssumption DEF Init
    <2>4. /\ selfMessages \in [Users -> Nat] /\ selectionQuantity \in [Users -> Nat]
          /\ hostOf \in [VMs -> Nodes \cup {0}] /\ nodesOn \subseteq Nodes
          /\ pendingStorageRequests \subseteq Jobs /\ reqPendingToDelete \subseteq VMs
          /\ pendingRemoteStorageDeletion \in [VMs -> Nat] /\ connectionsDeletion \in [VMs -> Nat]
          /\ userList \subseteq arrived /\ arrived \subseteq Users /\ no_more_users \in BOOLEAN
          /\ executions \in [Jobs -> Nat] /\ ended \in BOOLEAN /\ fault \in BOOLEAN
      BY DEF Init
    <2>5. QED
      BY <1>2, <2>1, <2>2, <2>3, <2>4 DEF TypeOK, QueueRight
  <1>6. ASSUME NEW u \in Users
        PROVE  /\ UserRight(u, World(u), Outs, reqPendingToDelete, pendingStorageRequests, Done)
               /\ TenantRight(u)
    <2> DEFINE w == World(u)
    <2>1. /\ w.u.containerWaitingQueue = JobsOf[u] /\ w.u.waitingForStorage = {}
          /\ w.u.containerRunningQueue = {} /\ w.u.machinesMap = <<>>
          /\ w.u.pendingVmsAtStartup = 0 /\ w.u.pending_shutdown_requests = 0
          /\ w.u.vms_waiting_remote_st = [v \in VMs |-> 0] /\ w.u.userFinalizing = FALSE
          /\ w.out = <<>>
      BY <1>3, <1>5, WorldTyped
    <2> HIDE DEF w
    <2>2. /\ ToSet(w.u.machinesMap) = {} /\ ToSet(w.out) = {} /\ IsInjective(w.u.machinesMap)
          /\ IsInjective(w.out)
      BY <2>1 DEF ToSet, IsInjective
    <2>3. /\ Assigned(w) = {} /\ Marked(w) = {} /\ Asks(w, Outs) = {}
          /\ reqPendingToDelete = {} /\ pendingStorageRequests = {} /\ Done = {}
      BY <1>2, <2>1, <2>2 DEF Assigned, Marked, Asks, Init, Done
    <2>4. JobsRight(u, w, Done)
      BY <2>1, <2>3, JobsApart DEF JobsRight, MyJobs
    <2>5. MachinesRight(w)
      BY <2>1, <2>2, <2>3 DEF MachinesRight
    <2>6. RequestsRight(u, w, Outs, reqPendingToDelete, pendingStorageRequests)
      <3>1. Cardinality({}) = 0
        BY FS_EmptySet
      <3>2. QED
        BY <1>2, <2>1, <2>2, <2>3, <3>1 DEF RequestsRight
    <2>7. FinalizingRight(w)
      BY <2>1 DEF FinalizingRight
    <2>8. TenantRight(u)
      <3>1. user[u] = w.u
        BY <1>5, WorldTyped DEF w
      <3>2. selectionQuantity[u] = 0 /\ arrived = {} /\ u \notin arrived
        BY DEF Init
      <3>3. QED
        BY <1>2, <2>1, <3>1, <3>2 DEF TenantRight
    <2>9. QED
      BY <2>4, <2>5, <2>6, <2>7, <2>8 DEF UserRight, w
  <1>7. \A u \in Users : Maps(u) = {}
    BY <1>3 DEF Maps, ToSet
  <1>8. MachinesPlaced
    BY <1>2, <1>7 DEF MachinesPlaced, Init
  <1>9. NotificationsRight
    BY DEF NotificationsRight, Init
  <1>10. \A j \in Jobs : executions[j] \in 0 .. 1
    BY DEF Init
  <1>11. QED
    BY <1>2, <1>5, <1>6, <1>8, <1>9, <1>10 DEF IInv

\* Every step keeps the books right.
LEMMA BooksKept ==
    ASSUME IInv, [Next]_vars
    PROVE  IInv'
  <1>1. ASSUME NEW u \in Users, UserArrives(u) PROVE IInv'
    BY <1>1, UserArrivesStep
  <1>2. ASSUME NEW u \in Users, SelfMessage(u) PROVE IInv'
    BY <1>2, SelfMessageStep
  <1>3. ASSUME NEW j \in Jobs, StorageReady(j) PROVE IInv'
    BY <1>3, StorageReadyStep
  <1>4. ASSUME NEW j \in Jobs, JobFinishes(j) PROVE IInv'
    BY <1>4, JobFinishesStep
  <1>5. ASSUME NEW v \in VMs, FSFormatted(v) PROVE IInv'
    BY <1>5, FSFormattedStep
  <1>6. ASSUME NEW v \in VMs, ConnectionsClosed(v) PROVE IInv'
    BY <1>6, ConnectionsClosedStep
  <1>7. ASSUME NEW j \in Jobs, AttendStorage(j) PROVE IInv'
    BY <1>7, AttendStorageStep
  <1>8. ASSUME NEW u \in Users, AttendStart(u) PROVE IInv'
    BY <1>8, AttendStartStep
  <1>9. ASSUME NEW u \in Users, AttendAbandon(u) PROVE IInv'
    BY <1>9, AttendAbandonStep
  <1>10. ASSUME NEW v \in VMs, AttendFree(v) PROVE IInv'
    BY <1>10, AttendFreeStep
  <1>11. CASE FinalizeUserGenerator \/ ScheduleBegin \/ ScheduleEnd \/ UNCHANGED vars
    BY <1>11, QuietSteps
  <1>12. CASE Stopped
    BY <1>11, <1>12 DEF Stopped
  <1>13. QED
    BY <1>1, <1>2, <1>3, <1>4, <1>5, <1>6, <1>7, <1>8, <1>9, <1>10, <1>11, <1>12 DEF Next

-------------------------------------------------------------------------------
(* The theorems.                                                           *)

\* What the books say about the places of jobs.
LEMMA BooksPlaceJobs ==
    ASSUME IInv
    PROVE  JobsOnOwnMachine
  <1> SUFFICES ASSUME NEW u \in Users, NEW v \in VMs, Processes(World(u), v) # {}
               PROVE  /\ Cardinality(Processes(World(u), v)) = 1
                      /\ v \in ToSet(user[u].machinesMap)
                      /\ hostOf[v] # 0 /\ vm[v].state # "off"
                      /\ vm[v].pending # "PENDING_SHUTDOWN"
    BY DEF JobsOnOwnMachine
  <1>1. /\ World(u).u = user[u] /\ World(u).vm = vm
        /\ UserRight(u, World(u), Outs, reqPendingToDelete, pendingStorageRequests, Done)
        /\ Maps(u) = ToSet(World(u).u.machinesMap)
        /\ \A x \in Maps(u) : hostOf[x] # 0
    BY StateRight
  <1>2. PICK j : j \in Assigned(World(u)) /\ user[u].machine[j] = v
    BY <1>1 DEF Processes, Assigned
  <1>3. MachinesRight(World(u))
    BY <1>1 DEF UserRight
  <1>4. Processes(World(u), v) = {j}
    BY <1>1, <1>2, <1>3 DEF MachinesRight, Processes, Assigned
  <1>5. Cardinality(Processes(World(u), v)) = 1
    BY <1>4, FS_Singleton
  <1>6. v \in Maps(u)
    BY <1>1, <1>2, <1>3 DEF MachinesRight
  <1>7. vm[v].state # "off" /\ vm[v].pending # "PENDING_SHUTDOWN"
    BY <1>1, <1>2, <1>3 DEF MachinesRight, Assigned
  <1>8. QED
    BY <1>1, <1>5, <1>6, <1>7 DEF Maps

\* And about users that have left.
LEMMA BooksEndWithJobsDone ==
    ASSUME IInv
    PROVE  LeavesWithJobsDone
  <1> SUFFICES ASSUME NEW u \in arrived \ userList, NEW j \in MyJobs(u)
               PROVE  executions[j] = 1
    BY DEF LeavesWithJobsDone, MyJobs
  <1>1. u \in Users
    BY DEF IInv, TypeOK
  <1>2. /\ World(u).u = user[u] /\ TenantRight(u)
        /\ UserRight(u, World(u), Outs, reqPendingToDelete, pendingStorageRequests, Done)
    BY <1>1, StateRight
  <1>3. user[u].containerWaitingQueue = <<>> /\ Assigned(World(u)) = {}
    BY <1>2 DEF TenantRight, UserRight, FinalizingRight
  <1>4. j \in Done
    BY <1>2, <1>3 DEF UserRight, JobsRight, ToSet
  <1>5. QED
    BY <1>4 DEF Done

\* The books are those of the property.
LEMMA BooksAccount ==
    ASSUME IInv, ~fault
    PROVE  RequestsAccounted
  <1>1. ToSet(Queue!Outstanding) = Outs
    <2>1. requestsQueue \in Seq(Requests) /\ temporalRequestsQueue \in Seq(Requests)
      BY DEF IInv, QueueRight
    <2>2. QED
      BY <2>1, ConcatSet DEF Queue!Outstanding, Outs
  <1>2. \A u \in Users :
           /\ TypeOK /\ World(u).u = user[u] /\ World(u).vm = vm
           /\ MachinesRight(World(u)) /\ Asks(World(u), Outs) = Outs
           /\ RequestsRight(u, World(u), Outs, reqPendingToDelete, pendingStorageRequests)
    <2>1. TAKE u \in Users
    <2>2. /\ World(u).out = <<>> /\ World(u).u = user[u] /\ World(u).vm = vm /\ TypeOK
          /\ UserRight(u, World(u), Outs, reqPendingToDelete, pendingStorageRequests, Done)
      BY StateRight
    <2>3. Asks(World(u), Outs) = Outs
      BY <2>2 DEF Asks, ToSet
    <2>4. QED
      BY <2>2, <2>3 DEF UserRight
  <1>3. ASSUME NEW u \in userList
        PROVE  LET marked == {v \in ToSet(user[u].machinesMap) : vm[v].pending = "PENDING_SHUTDOWN"} IN
               /\ user[u].pending_shutdown_requests = Cardinality(marked)
               /\ \A v \in marked :
                     (Free(v) \in ToSet(Queue!Outstanding)) # (v \in reqPendingToDelete)
    <2>1. u \in Users
      BY DEF IInv, TypeOK
    <2> DEFINE marked == {v \in ToSet(user[u].machinesMap) : vm[v].pending = "PENDING_SHUTDOWN"}
    <2>2. marked = Marked(World(u))
      BY <1>2, <2>1 DEF Marked
    <2>3. user[u].pending_shutdown_requests = Cardinality(marked)
      BY <1>2, <2>1, <2>2 DEF RequestsRight
    <2>4. ASSUME NEW v \in marked
          PROVE  (Free(v) \in ToSet(Queue!Outstanding)) # (v \in reqPendingToDelete)
      <3>1. v \in ToSet(user[u].machinesMap) /\ v \in Marked(World(u))
        BY <2>2
      <3>2. /\ Free(v) \in Outs \/ v \in reqPendingToDelete
            /\ ~(Free(v) \in Outs /\ v \in reqPendingToDelete)
        BY <1>2, <2>1, <3>1 DEF RequestsRight
      <3>3. QED
        BY <1>1, <3>2
    <2>5. QED
      BY <2>3, <2>4
  <1>4. ASSUME NEW u \in Users, NEW j \in ToSet(JobsOf[u])
        PROVE  j \in user[u].waitingForStorage
                  <=> (Storage(j) \in ToSet(Queue!Outstanding) \/ j \in pendingStorageRequests)
    BY <1>1, <1>2 DEF RequestsRight, MyJobs
  <1>5. ASSUME NEW u \in Users, NEW v \in VMs
        PROVE  user[u].vms_waiting_remote_st[v]
                  = Cardinality({j \in user[u].waitingForStorage : user[u].machine[j] = v})
    <2> DEFINE W == {j \in user[u].waitingForStorage : user[u].machine[j] = v}
    <2>1. CASE W = {}
      <3>1. user[u].vms_waiting_remote_st[v] = 0
        BY <1>2, <2>1 DEF MachinesRight
      <3>2. QED
        BY <2>1, <3>1, FS_EmptySet
    <2>2. CASE W # {}
      <3>1. PICK j : j \in W
        BY <2>2
      <3>2. W = {j}
        BY <1>2, <3>1 DEF MachinesRight, Assigned
      <3>3. user[u].vms_waiting_remote_st[v] = 1
        BY <1>2, <3>1 DEF MachinesRight
      <3>4. QED
        BY <3>2, <3>3, FS_Singleton
    <2>3. QED
      BY <2>1, <2>2
  <1>6. QED
    BY <1>3, <1>4, <1>5 DEF RequestsAccounted

\* A machine on a node is one of a user that has machines that are not off.
LEMMA BooksLeaveNothing ==
    ASSUME IInv, AInv
    PROVE  LeavesCleanly
  <1>1. ASSUME NEW v \in VMs, hostOf[v] # 0
        PROVE  \E u \in userList : v \in ToSet(user[u].machinesMap)
    <2>1. PICK u \in Users : v \in Maps(u)
      BY <1>1 DEF IInv, MachinesPlaced
    <2>2. /\ World(u).u = user[u] /\ World(u).vm = vm /\ TenantRight(u)
          /\ UserRight(u, World(u), Outs, reqPendingToDelete, pendingStorageRequests, Done)
          /\ Maps(u) = ToSet(World(u).u.machinesMap)
      BY StateRight
    <2>3. vm[v].state # "off"
      BY <2>1 DEF AInv, AmpleRight
    <2>4. ~user[u].userFinalizing
      BY <2>1, <2>2, <2>3 DEF UserRight, FinalizingRight
    <2>5. user[u].machinesMap # <<>>
      BY <2>1 DEF Maps, ToSet
    <2>6. u \in userList
      BY <2>2, <2>4, <2>5 DEF TenantRight
    <2>7. QED
      BY <2>1, <2>6 DEF Maps
  <1>2. NoOrphanVM
    BY <1>1 DEF NoOrphanVM
  <1>3. QED
    BY <1>2, BooksEndWithJobsDone DEF LeavesCleanly

\* The books of every user are right in every state: the inductive invariant.
THEOREM BooksAreRight == Spec => []IInv
  <1>1. Init => IInv
    BY BooksAtStart
  <1>2. IInv /\ [Next]_vars => IInv'
    BY BooksKept
  <1>3. QED
    BY <1>1, <1>2, PTL DEF Spec

\* TypeOK: the variables of the cloud keep their types.
THEOREM CloudTyped == Spec => []TypeOK
  <1>1. IInv => TypeOK
    BY DEF IInv
  <1>2. QED
    BY <1>1, BooksAreRight, PTL

\* JobsOnOwnMachine: a job that waits for its storage or runs has a machine of its own, that
\* is up, linked to a node and not marked for shutdown, whatever the order in which
\* schedule(), the jobs' ends and the late notifications of storage, formatting and closed
\* connections come.
THEOREM JobsKeepTheirMachine == Spec => []JobsOnOwnMachine
  <1>1. IInv => JobsOnOwnMachine
    BY BooksPlaceJobs
  <1>2. QED
    BY <1>1, BooksAreRight, PTL

\* LeavesWithJobsDone: deleteUser removes a user only when each of his jobs has run to its
\* end, once.
THEOREM UsersLeaveWithJobsDone == Spec => []LeavesWithJobsDone
  <1>1. IInv => LeavesWithJobsDone
    BY BooksEndWithJobsDone
  <1>2. QED
    BY <1>1, BooksAreRight, PTL

\* With room for all demanded machines, what every user was granted is right at the start
\* and after every step.
LEMMA AmpleAtStart ==
    ASSUME Init
    PROVE  AInv
  <1>1. IInv
    BY BooksAtStart
  <1>2. arrived = {} /\ ~fault /\ nextPid = 1 /\ Queue!Init
    BY DEF Init
  <1>3. Outs = {}
    BY <1>2 DEF Outs, Queue!Init, ToSet
  <1>4. \A u \in Users : AmpleRight(u)
    <2>1. \A u \in Users : Maps(u) = {}
      BY DEF Init, Maps, ToSet
    <2>2. QED
      BY <1>3, <2>1 DEF AmpleRight
  <1>5. {p \in Demand : p[1] \in Granted} = {}
    BY <1>2 DEF Granted
  <1>6. QED
    BY <1>2, <1>4, <1>5, FS_EmptySet DEF AInv

\* Every step keeps AInv when the nodes have room.
LEMMA AmpleKept ==
    ASSUME Ample, IInv, AInv, [Next]_vars
    PROVE  AInv'
  <1>1. ASSUME NEW u \in Users, UserArrives(u) PROVE AInv'
    BY <1>1, UserArrivesStep
  <1>2. ASSUME NEW u \in Users, SelfMessage(u) PROVE AInv'
    BY <1>2, SelfMessageStep
  <1>3. ASSUME NEW j \in Jobs, StorageReady(j) PROVE AInv'
    BY <1>3, StorageReadyStep
  <1>4. ASSUME NEW j \in Jobs, JobFinishes(j) PROVE AInv'
    BY <1>4, JobFinishesStep
  <1>5. ASSUME NEW v \in VMs, FSFormatted(v) PROVE AInv'
    BY <1>5, FSFormattedStep
  <1>6. ASSUME NEW v \in VMs, ConnectionsClosed(v) PROVE AInv'
    BY <1>6, ConnectionsClosedStep
  <1>7. ASSUME NEW j \in Jobs, AttendStorage(j) PROVE AInv'
    BY <1>7, AttendStorageStep
  <1>8. ASSUME NEW u \in Users, AttendStart(u) PROVE AInv'
    BY <1>8, AttendStartStep
  <1>9. ASSUME NEW u \in Users, AttendAbandon(u) PROVE AInv'
    BY <1>9, AttendAbandonStep
  <1>10. ASSUME NEW v \in VMs, AttendFree(v) PROVE AInv'
    BY <1>10, AttendFreeStep
  <1>11. CASE FinalizeUserGenerator \/ ScheduleBegin \/ ScheduleEnd \/ UNCHANGED vars
    BY <1>11, QuietSteps
  <1>12. CASE Stopped
    BY <1>11, <1>12 DEF Stopped
  <1>13. QED
    BY <1>1, <1>2, <1>3, <1>4, <1>5, <1>6, <1>7, <1>8, <1>9, <1>10, <1>11, <1>12 DEF Next

\* While all demanded machines fit on the nodes, no request waits for its user to be gone.
THEOREM GrantsAreRight ==
    ASSUME Ample
    PROVE  Spec => [](IInv /\ AInv)
  <1>1. Init => IInv /\ AInv
    BY BooksAtStart, AmpleAtStart
  <1>2. (IInv /\ AInv) /\ [Next]_vars => (IInv /\ AInv)'
    BY BooksKept, AmpleKept
  <1>3. QED
    BY <1>1, <1>2, PTL DEF Spec

\* RequestsAccounted: while all demanded machines fit, no handler finds its user, machine or
\* entry gone (getUserByModuleID, getVmFromUser and the control vectors throw), and what each
\* user counts as pending is exactly what is queued or being worked on.
THEOREM UsersBooksRight ==
    ASSUME Ample
    PROVE  Spec => []RequestsAccounted
  <1>1. IInv /\ AInv => RequestsAccounted
    BY BooksAccount DEF AInv
  <1>2. QED
    BY <1>1, GrantsAreRight, PTL

\* LeavesCleanly: while all demanded machines fit, a user that has left has run all his jobs
\* once and no machine of his is on a node.
THEOREM UsersLeaveCleanly ==
    ASSUME Ample
    PROVE  Spec => []LeavesCleanly
  <1>1. IInv /\ AInv => LeavesCleanly
    BY BooksLeaveNothing
  <1>2. QED
    BY <1>1, GrantsAreRight, PTL
===============================================================================
