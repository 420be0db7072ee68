---------------------------- MODULE VmPlacementProofs ----------------------------
(* The memory and the power of the nodes, the addresses of the machines and *)
(* the order of a shutdown, for every set of nodes, machines and users.     *)
EXTENDS VmPlacement, DataProofs

MachineRecords == [state : {"off_state", "off", "idle", "running"}, free : Int,
                   psu : BOOLEAN, uncharged : BOOLEAN]
Addresses == (0 .. OctetMax) \X (0 .. OctetMax)

\* The machines that were created have records, and those that are on a node are the
\* machines of a user that were not shut down.
VmsOK ==
    /\ vm = [v \in VMs |-> [user |-> vm[v].user, type |-> vm[v].type, node |-> vm[v].node,
                            ip |-> vm[v].ip, state |-> vm[v].state]]
    /\ nextVm \in Nat \ {0}
    /\ \A v \in VMs :
         /\ vm[v].node # NoNode <=> vm[v].state \in {"on", "closing"}
         /\ vm[v].node # NoNode => vm[v].user \in Users /\ vm[v].type \in VmTypes
         /\ v >= nextVm => vm[v].state = "none"

\* Answers are due only for a machine that is being shut down.
AnswersDue ==
    /\ pendingDeletion \in [VMs -> Nat] /\ pendingConnections \in [VMs -> Nat]
    /\ \A v \in VMs : pendingDeletion[v] > 0 \/ pendingConnections[v] > 0 => vm[v].state = "closing"

\* The order in which incVirtualIP counts.
Before(a, b) == a[1] < b[1] \/ (a[1] = b[1] /\ a[2] < b[2])

\* The addresses a user was given only grow.
UserOK(user) ==
    /\ user.lastIP \in Addresses
    /\ \E S : user.cells \in Seq(S)
    /\ \A i \in DOMAIN user.cells :
         /\ user.cells[i].ip \in Addresses
         /\ user.cells[i].ip = user.lastIP \/ Before(user.cells[i].ip, user.lastIP)
         /\ \A j \in DOMAIN user.cells : i < j => Before(user.cells[i].ip, user.cells[j].ip)

\* The cell of every machine that is on a node names its address and its node.
IpsOK ==
    /\ ips = [u \in Users |-> ips[u]]
    /\ \A u \in Users : UserOK(ips[u])
    /\ \A v \in VMs : vm[v].node # NoNode =>
         \E i \in DOMAIN ips[vm[v].user].cells :
           ips[vm[v].user].cells[i] = [ip |-> vm[v].ip, node |-> vm[v].node, vm |-> v]

MachinesOK == machine \in [ComputeNodes -> MachineRecords]

\* The storage nodes kept for the machines of each user.
UserDataOK == userVmData \in [Users -> Seq([vm : VMs, positions : Seq(Nat)])]

IInv == VmsOK /\ AnswersDue /\ UserDataOK /\ IpsOK /\ MachinesOK /\ MemoryExact /\ PoweredWhileHosting
-------------------------------------------------------------------------------
(* The memory of the nodes.                                                *)

\* What the hypervisor of a node in state s was charged for itself.
Charged(s) == MemoryOverhead * (CASE s = "off_state" -> 0 [] s = "off" -> 2 [] OTHER -> 1)

\* What machine v has of the memory of node n.
Share(v, n) == IF vm[v].node = n THEN VmMemory[vm[v].type] ELSE 0

\* Its values in the states a node is seen in.
LEMMA ChargedValues ==
    /\ Charged("off_state") = 0 /\ Charged("running") = MemoryOverhead /\ Charged("off") \in Int
    /\ MemoryOverhead \in Nat
  <1>1. MemoryOverhead \in Nat
    BY PlacementAssumption
  <1>2. Charged("off_state") = MemoryOverhead * 0
    BY DEF Charged
  <1>3. Charged("running") = MemoryOverhead * 1
    BY DEF Charged
  <1>4. Charged("off") = MemoryOverhead * 2
    BY DEF Charged
  <1>5. MemoryOverhead * 0 = 0 /\ MemoryOverhead * 1 = MemoryOverhead /\ MemoryOverhead * 2 \in Int
    BY <1>1
  <1>6. QED
    BY <1>1, <1>2, <1>3, <1>4, <1>5

\* A node is in one of the sets, whose memory is its capacity.
LEMMA NodesTyped ==
    ASSUME NEW n \in ComputeNodes
    PROVE  n # NoNode /\ Capacity(n) \in Nat /\ n[1] \in 0 .. MapSize - 1
  <1>1. PICK s \in 0 .. MapSize - 1, i \in 0 .. Max({NodeSets[k].size : k \in DOMAIN NodeSets}) :
          n = <<s, i>>
    <2>1. n \in Nodes
      BY Zenon DEF ComputeNodes
    <2> DEFINE A == 0 .. MapSize - 1
               B == 0 .. Max({NodeSets[k].size : k \in DOMAIN NodeSets})
    <2>2. Nodes = {<<s, i>> : s \in A, i \in B}
      BY DEF Nodes
    <2> HIDE DEF A, B
    <2>3. \E s \in A, i \in B : n = <<s, i>>
      BY <2>1, <2>2
    <2>4. QED
      BY <2>3 DEF A, B
  <1> DEFINE S == [size : Nat \ {0}, memory : Nat, cores : Nat]
  <1>2. s \in Nat /\ NodeSets[s + 1] \in S
    <2> HIDE DEF S
    <2>1. NodeSets \in Seq(S)
      BY PlacementAssumption DEF S
    <2>2. Len(NodeSets) \in Nat /\ MapSize = Len(NodeSets)
      BY <2>1 DEF MapSize
    <2>3. s \in Nat /\ s + 1 \in 1 .. Len(NodeSets)
      BY <2>2
    <2>4. QED
      BY <2>1, <2>3
  <1>3. NodeSets[s + 1].memory \in Nat
    BY <1>2
  <1>4. Capacity(n) \in Nat
    BY <1>1, <1>3 DEF Capacity, SetMemory
  <1>5. n # NoNode
    BY <1>1, <1>2 DEF NoNode
  <1>6. QED
    BY <1>1, <1>4, <1>5

\* A step that changes the record of one machine changes the memory given out on a node
\* by what that machine has there.
LEMMA ShareChanges ==
    ASSUME VmsOK, VmsOK', NEW v \in VMs, \A w \in VMs \ {v} : vm'[w] = vm[w],
           NEW n \in ComputeNodes
    PROVE  /\ LinkedMemory(n) \in Int /\ Share(v, n) \in Nat /\ Share(v, n)' \in Nat
           /\ LinkedMemory(n)' = LinkedMemory(n) + Share(v, n)' - Share(v, n)
  <1> DEFINE w1 == [x \in VMs |-> IF vm[x].node = n THEN VmMemory[vm[x].type] ELSE 0]
             w2 == [x \in VMs |-> IF vm'[x].node = n THEN VmMemory[vm'[x].type] ELSE 0]
  <1>1. VmMemory \in [VmTypes -> Nat] /\ MaxVMs \in Nat /\ VMs = 1 .. MaxVMs /\ n # NoNode
    BY PlacementAssumption, NodesTyped DEF VMs
  <1>2. \A x \in VMs : /\ Share(x, n) \in Nat /\ Share(x, n)' \in Nat
                       /\ x # v => Share(x, n)' = Share(x, n)
    BY <1>1 DEF VmsOK, Share
  <1>3. w1 = [x \in VMs |-> Share(x, n)] /\ w2 = [x \in VMs |-> Share(x, n)']
    BY DEF Share
  <1>4. LinkedMemory(n) = Total(w1, MaxVMs) /\ LinkedMemory(n)' = Total(w2, MaxVMs)
    BY DEF LinkedMemory
  <1> HIDE DEF w1, w2
  <1>5. /\ w1 \in [1 .. MaxVMs -> Int] /\ w2 \in [1 .. MaxVMs -> Int]
        /\ w1[v] = Share(v, n) /\ w2[v] = Share(v, n)' /\ v \in 1 .. MaxVMs
        /\ \A k \in 1 .. MaxVMs : k # v => w2[k] = w1[k]
    BY <1>1, <1>2, <1>3
  <1>6. Total(w2, MaxVMs) = Total(w1, MaxVMs) + w2[v] - w1[v]
    BY <1>1, <1>5, TotalChange
  <1>7. Total(w1, MaxVMs) \in Int
    BY <1>1, <1>5, TotalType
  <1>8. QED
    BY <1>2, <1>4, <1>5, <1>6, <1>7

\* LinkedMemory, of the records of this state or of the next one.
Given(records, n) ==
    Total([v \in VMs |-> IF records[v].node = n THEN VmMemory[records[v].type] ELSE 0], MaxVMs)

\* Nothing is given out on a node without machines.
LEMMA NothingShared ==
    ASSUME NEW records, NEW n, \A v \in VMs : records[v].node # n
    PROVE  Given(records, n) = 0
  <1> DEFINE w == [v \in VMs |-> IF records[v].node = n THEN VmMemory[records[v].type] ELSE 0]
  <1>1. w = [v \in 1 .. MaxVMs |-> 0] /\ MaxVMs \in Nat
    BY PlacementAssumption DEF VMs
  <1>2. Given(records, n) = Total(w, MaxVMs)
    BY DEF Given
  <1> HIDE DEF w
  <1>3. QED
    BY <1>1, <1>2, TotalOfZeros
-------------------------------------------------------------------------------
(* What happens to the record of a node.                                   *)

\* The record of a node that was just turned on, and of one that was turned off.
On(r, free)  == [r EXCEPT !.state = "idle", !.free = free, !.psu = TRUE]
Off(r, free) == [r EXCEPT !.state = "off_state", !.free = free, !.psu = FALSE]

\* Both are records of nodes, with the fields one expects.
LEMMA OnRecord ==
    ASSUME NEW r \in MachineRecords, NEW free \in Int
    PROVE  /\ On(r, free) \in MachineRecords
           /\ On(r, free).state = "idle" /\ On(r, free).free = free
           /\ On(r, free).psu = TRUE /\ On(r, free).uncharged = r.uncharged
  <1> DEFINE a == [r EXCEPT !.state = "idle"]
             b == [a EXCEPT !.free = free]
             c == [b EXCEPT !.psu = TRUE]
  <1>1. a \in MachineRecords
    BY DEF MachineRecords
  <1>2. a.state = "idle" /\ a.uncharged = r.uncharged
    BY DEF MachineRecords
  <1>3. On(r, free) = c
    BY DEF On, MachineRecords
  <1> HIDE DEF a
  <1>4. b \in MachineRecords
    BY <1>1 DEF MachineRecords
  <1>5. b.state = a.state /\ b.free = free /\ b.uncharged = a.uncharged
    BY <1>1 DEF MachineRecords
  <1> HIDE DEF b
  <1>6. c \in MachineRecords
    BY <1>4 DEF MachineRecords
  <1>7. c.state = b.state /\ c.free = b.free /\ c.uncharged = b.uncharged
    BY <1>4 DEF MachineRecords
  <1>8. c.psu = TRUE
    BY <1>4 DEF MachineRecords
  <1> HIDE DEF c
  <1>9. QED
    BY <1>2, <1>3, <1>5, <1>6, <1>7, <1>8

\* The same of a node that was turned off.
LEMMA OffRecord ==
    ASSUME NEW r \in MachineRecords, NEW free \in Int
    PROVE  /\ Off(r, free) \in MachineRecords
           /\ Off(r, free).state = "off_state" /\ Off(r, free).free = free
           /\ Off(r, free).psu = FALSE /\ Off(r, free).uncharged = r.uncharged
  <1> DEFINE a == [r EXCEPT !.state = "off_state"]
             b == [a EXCEPT !.free = free]
             c == [b EXCEPT !.psu = FALSE]
  <1>1. a \in MachineRecords
    BY DEF MachineRecords
  <1>2. a.state = "off_state" /\ a.uncharged = r.uncharged
    BY DEF MachineRecords
  <1>3. Off(r, free) = c
    BY DEF Off, MachineRecords
  <1> HIDE DEF a
  <1>4. b \in MachineRecords
    BY <1>1 DEF MachineRecords
  <1>5. b.state = a.state /\ b.free = free /\ b.uncharged = a.uncharged
    BY <1>1 DEF MachineRecords
  <1> HIDE DEF b
  <1>6. c \in MachineRecords
    BY <1>4 DEF MachineRecords
  <1>7. c.state = b.state /\ c.free = b.free /\ c.uncharged = b.uncharged
    BY <1>4 DEF MachineRecords
  <1>8. c.psu = FALSE
    BY <1>4 DEF MachineRecords
  <1> HIDE DEF c
  <1>9. QED
    BY <1>2, <1>3, <1>5, <1>6, <1>7, <1>8

\* Placing a machine: a node that is off is turned on and charged for its hypervisor;
\* the machine is charged if it fits.
LEMMA PlaceRecord ==
    ASSUME NEW r \in MachineRecords, NEW memory \in Nat,
           r.state \in {"off_state", "off", "running"}, r.psu <=> r.state = "running"
    PROVE  LET on == IF r.state = "off_state" THEN TurnOn(r) ELSE r
               new == LinkVM(TestLinkVM(on, memory))
           IN  /\ new \in MachineRecords
               /\ new.state = IF r.state = "off" THEN "off" ELSE "running"
               /\ new.psu <=> new.state = "running"
               /\ ~new.uncharged =>
                    ~r.uncharged /\ new.free = r.free - memory
                                    - (IF r.state = "off_state" THEN MemoryOverhead ELSE 0)
  <1> DEFINE on == IF r.state = "off_state" THEN TurnOn(r) ELSE r
             charged == TestLinkVM(on, memory)
             new == LinkVM(charged)
  <1>1. MemoryOverhead \in Nat
    BY PlacementAssumption
  <1>2. /\ on \in MachineRecords
        /\ on.state = IF r.state = "off_state" THEN "idle" ELSE r.state
        /\ on.psu <=> on.state \in {"idle", "running"}
        /\ on.uncharged <=> r.uncharged
        /\ on.free = r.free - (IF r.state = "off_state" THEN MemoryOverhead ELSE 0)
    <2>1. CASE r.state = "off_state"
      <3>1. on = On(r, r.free - MemoryOverhead)
        BY <2>1 DEF TurnOn, On, MachineRecords
      <3> HIDE DEF on
      <3>2. r.free - MemoryOverhead \in Int
        BY <1>1 DEF MachineRecords
      <3>3. /\ on \in MachineRecords /\ on.state = "idle" /\ on.free = r.free - MemoryOverhead
            /\ on.psu = TRUE /\ on.uncharged = r.uncharged
        BY <3>1, <3>2, OnRecord
      <3>4. QED
        BY <2>1, <3>3
    <2>2. CASE r.state # "off_state"
      <3>1. r.free - 0 = r.free
        BY DEF MachineRecords
      <3>2. on = r
        BY <2>2
      <3> HIDE DEF on
      <3>3. QED
        BY <2>2, <3>1, <3>2
    <2>3. QED
      BY <2>1, <2>2
  <1> HIDE DEF on
  <1>3. /\ charged \in MachineRecords /\ charged.state = on.state
        /\ charged.psu <=> on.psu
        /\ ~charged.uncharged => ~on.uncharged /\ charged.free = on.free - memory
    <2>1. CASE on.free > memory
      <3>1. charged = [on EXCEPT !.free = @ - memory]
        BY <2>1 DEF TestLinkVM
      <3> HIDE DEF charged
      <3>2. charged \in MachineRecords
        BY <1>2, <3>1 DEF MachineRecords
      <3>3. charged.state = on.state /\ charged.psu = on.psu /\ charged.uncharged = on.uncharged
        BY <1>2, <3>1 DEF MachineRecords
      <3>4. charged.free = on.free - memory
        BY <1>2, <3>1 DEF MachineRecords
      <3>5. QED
        BY <3>2, <3>3, <3>4
    <2>2. CASE ~ (on.free > memory)
      <3>1. charged = [on EXCEPT !.uncharged = TRUE]
        BY <2>2 DEF TestLinkVM
      <3> HIDE DEF charged
      <3>2. charged \in MachineRecords
        BY <1>2, <3>1 DEF MachineRecords
      <3>3. charged.state = on.state /\ charged.psu = on.psu /\ charged.uncharged = TRUE
        BY <1>2, <3>1 DEF MachineRecords
      <3>4. QED
        BY <3>2, <3>3
    <2>3. QED
      BY <2>1, <2>2
  <1> HIDE DEF charged
  <1>4. /\ new \in MachineRecords
        /\ new.state = IF charged.state = "idle" THEN "running" ELSE charged.state
        /\ (new.psu <=> charged.psu) /\ (new.uncharged <=> charged.uncharged)
        /\ new.free = charged.free
    <2>1. CASE charged.state = "idle"
      <3>1. new = [charged EXCEPT !.state = "running"]
        BY <2>1 DEF LinkVM
      <3> HIDE DEF new
      <3>2. new \in MachineRecords
        BY <1>3, <3>1 DEF MachineRecords
      <3>3. new.psu = charged.psu /\ new.uncharged = charged.uncharged /\ new.free = charged.free
        BY <1>3, <3>1 DEF MachineRecords
      <3>4. new.state = "running"
        BY <1>3, <3>1 DEF MachineRecords
      <3>5. QED
        BY <2>1, <3>2, <3>3, <3>4
    <2>2. CASE charged.state # "idle"
      <3>1. new = charged
        BY <2>2 DEF LinkVM
      <3> HIDE DEF new
      <3>2. QED
        BY <1>3, <2>2, <3>1
    <2>3. QED
      BY <2>1, <2>2
  <1> HIDE DEF new
  <1>5. r.free \in Int
    BY DEF MachineRecords
  <1>6. QED
    BY <1>1, <1>2, <1>3, <1>4, <1>5 DEF on, charged, new

\* Removing a machine: its memory is given back, and the last one turns the node off.
LEMMA UnlinkRecord ==
    ASSUME NEW r \in MachineRecords, NEW memory \in Nat, NEW total \in Nat, NEW last \in BOOLEAN,
           r.state \in {"off", "running"}, r.psu <=> r.state = "running"
    PROVE  LET new == UnlinkAndTurnOff(r, memory, total, last)
           IN  /\ new \in MachineRecords
               /\ new.state = IF last THEN "off_state" ELSE r.state
               /\ new.psu <=> new.state = "running"
               /\ new.uncharged <=> r.uncharged
               /\ new.free = IF last THEN total ELSE r.free + memory
  <1> DEFINE freed == UnlinkVM(r, memory, last)
             new == IF last THEN TurnOff(freed, total) ELSE freed
  <1>1. /\ freed \in MachineRecords
        /\ freed.state = IF r.state = "running" /\ last THEN "idle" ELSE r.state
        /\ freed.psu = r.psu /\ freed.uncharged = r.uncharged
        /\ freed.free = r.free + memory
    <2> DEFINE given == [r EXCEPT !.free = @ + memory]
    <2>1. given \in MachineRecords
      BY DEF MachineRecords
    <2>2. given.state = r.state /\ given.psu = r.psu /\ given.uncharged = r.uncharged
      BY DEF MachineRecords
    <2>3. given.free = r.free + memory
      BY DEF MachineRecords
    <2>4. freed = IF r.state = "running" /\ last THEN [given EXCEPT !.state = "idle"] ELSE given
      BY DEF UnlinkVM
    <2> HIDE DEF given, freed
    <2>5. CASE r.state = "running" /\ last
      <3>1. freed = [given EXCEPT !.state = "idle"]
        BY <2>4, <2>5
      <3>2. freed \in MachineRecords
        BY <2>1, <3>1 DEF MachineRecords
      <3>3. freed.psu = given.psu /\ freed.uncharged = given.uncharged /\ freed.free = given.free
        BY <2>1, <3>1 DEF MachineRecords
      <3>4. freed.state = "idle"
        BY <2>1, <3>1 DEF MachineRecords
      <3>5. QED
        BY <2>2, <2>3, <2>5, <3>2, <3>3, <3>4
    <2>6. CASE ~ (r.state = "running" /\ last)
      <3>1. freed = given
        BY <2>4, <2>6
      <3>2. QED
        BY <2>1, <2>2, <2>3, <2>6, <3>1
    <2>7. QED
      BY <2>5, <2>6
  <1> HIDE DEF freed
  <1>2. /\ new \in MachineRecords
        /\ new.state = IF last THEN "off_state" ELSE r.state
        /\ new.psu <=> new.state = "running"
        /\ new.uncharged <=> r.uncharged
        /\ new.free = IF last THEN total ELSE r.free + memory
    <2>1. CASE last
      <3>1. new = Off(freed, total)
        BY <1>1, <2>1 DEF TurnOff, Off
      <3> HIDE DEF new
      <3>2. total \in Int
        OBVIOUS
      <3>3. /\ new \in MachineRecords /\ new.state = "off_state" /\ new.free = total
            /\ new.psu = FALSE /\ new.uncharged = freed.uncharged
        BY <1>1, <3>1, <3>2, OffRecord
      <3>4. QED
        BY <1>1, <2>1, <3>3
    <2>2. CASE ~last
      <3>1. new = freed
        BY <2>2
      <3> HIDE DEF new
      <3>2. QED
        BY <1>1, <2>2, <3>1
    <2>3. QED
      BY <2>1, <2>2
  <1>3. UnlinkAndTurnOff(r, memory, total, last) = new
    BY DEF UnlinkAndTurnOff, freed
  <1> HIDE DEF new
  <1>4. QED
    BY <1>2, <1>3
-------------------------------------------------------------------------------
(* The addresses.                                                          *)

\* An address that is not the empty one is new: it comes after the last one.
LEMMA IncGrows ==
    ASSUME NEW ip \in Addresses, IncVirtualIP(ip) # <<>>
    PROVE  IncVirtualIP(ip) \in Addresses /\ Before(ip, IncVirtualIP(ip))
  <1>1. OctetMax \in Nat
    BY PlacementAssumption
  <1>2. PICK a \in 0 .. OctetMax, b \in 0 .. OctetMax : ip = <<a, b>>
    BY DEF Addresses
  <1>3. CASE b < OctetMax
    <2>1. IncVirtualIP(ip) = <<a, b + 1>>
      BY <1>2, <1>3 DEF IncVirtualIP
    <2>2. QED
      BY <1>1, <1>2, <1>3, <2>1 DEF Addresses, Before
  <1>4. CASE ~(b < OctetMax) /\ a < OctetMax
    <2>1. IncVirtualIP(ip) = <<a + 1, 0>>
      BY <1>2, <1>4 DEF IncVirtualIP
    <2>2. QED
      BY <1>1, <1>2, <1>4, <2>1 DEF Addresses, Before
  <1>5. CASE ~(b < OctetMax) /\ ~(a < OctetMax)
    <2>1. IncVirtualIP(ip) = <<>>
      BY <1>2, <1>5 DEF IncVirtualIP
    <2>2. QED
      BY <2>1
  <1>6. QED
    BY <1>3, <1>4, <1>5

\* The order of the addresses is a strict one.
LEMMA BeforeOrder ==
    \A a, b, c \in Addresses :
      /\ Before(a, b) => a # b
      /\ Before(a, b) /\ Before(b, c) => Before(a, c)
  <1> SUFFICES ASSUME NEW a \in Addresses, NEW b \in Addresses, NEW c \in Addresses
               PROVE  /\ Before(a, b) => a # b
                      /\ Before(a, b) /\ Before(b, c) => Before(a, c)
    OBVIOUS
  <1>1. /\ a[1] \in Int /\ a[2] \in Int /\ b[1] \in Int /\ b[2] \in Int
        /\ c[1] \in Int /\ c[2] \in Int
    BY DEF Addresses
  <1>2. QED
    BY <1>1 DEF Before

\* A user keeps its cells when it is given an address, and the new cell is the last.
LEMMA AllocateKeepsCells ==
    ASSUME NEW user, UserOK(user), IncVirtualIP(user.lastIP) # <<>>, NEW node, NEW v
    PROVE  LET new == AllocateVirtualIP(user, node, v)
               last == Len(user.cells) + 1
           IN  /\ UserOK(new)
               /\ \A i \in DOMAIN user.cells : i \in DOMAIN new.cells /\ new.cells[i] = user.cells[i]
               /\ last \in DOMAIN new.cells
               /\ new.cells[last] = [ip |-> new.lastIP, node |-> node, vm |-> v]
  <1> DEFINE cells == user.cells
             ip == IncVirtualIP(user.lastIP)
             cell == [ip |-> ip, node |-> node, vm |-> v]
             more == Append(cells, cell)
             new == AllocateVirtualIP(user, node, v)
  <1>1. new = [lastIP |-> ip, cells |-> more]
    BY DEF AllocateVirtualIP, NewVIP
  <1>2. user.lastIP \in Addresses /\ ip \in Addresses /\ Before(user.lastIP, ip)
    BY IncGrows DEF UserOK
  <1>3. PICK S : cells \in Seq(S)
    BY DEF UserOK
  <1>4. cell.ip = ip
    OBVIOUS
  <1>5. \A i \in DOMAIN cells :
          /\ cells[i].ip \in Addresses
          /\ cells[i].ip = user.lastIP \/ Before(cells[i].ip, user.lastIP)
          /\ \A j \in DOMAIN cells : i < j => Before(cells[i].ip, cells[j].ip)
    BY DEF UserOK
  <1> HIDE DEF cells, ip, cell, new
  <1>6. more \in Seq(S \cup {cell})
    <2>1. cells \in Seq(S \cup {cell})
      BY <1>3
    <2>2. QED
      BY <2>1
  <1>7. /\ Len(cells) \in Nat /\ DOMAIN cells = 1 .. Len(cells)
        /\ DOMAIN more = 1 .. Len(cells) + 1 /\ more[Len(cells) + 1] = cell
        /\ \A i \in 1 .. Len(cells) : more[i] = cells[i]
    BY <1>3
  <1> HIDE DEF more
  <1>8. \A i \in DOMAIN cells : Before(cells[i].ip, ip)
    BY <1>2, <1>5, BeforeOrder
  <1>9. \A i \in DOMAIN more :
          /\ more[i].ip \in Addresses
          /\ more[i].ip = ip \/ Before(more[i].ip, ip)
          /\ \A j \in DOMAIN more : i < j => Before(more[i].ip, more[j].ip)
    <2>1. SUFFICES ASSUME NEW i \in DOMAIN more
                   PROVE  /\ more[i].ip \in Addresses
                          /\ more[i].ip = ip \/ Before(more[i].ip, ip)
                          /\ \A j \in DOMAIN more : i < j => Before(more[i].ip, more[j].ip)
      OBVIOUS
    <2>2. CASE i = Len(cells) + 1
      BY <1>2, <1>4, <1>7, <2>2
    <2>3. CASE i \in DOMAIN cells
      <3>1. more[i] = cells[i] /\ cells[i].ip \in Addresses /\ Before(cells[i].ip, ip)
        BY <1>5, <1>7, <1>8, <2>3
      <3>2. ASSUME NEW j \in DOMAIN more, i < j
            PROVE  Before(more[i].ip, more[j].ip)
        <4>1. CASE j = Len(cells) + 1
          BY <1>4, <1>7, <3>1, <4>1
        <4>2. CASE j \in DOMAIN cells
          BY <1>5, <1>7, <2>3, <3>1, <3>2, <4>2
        <4>3. QED
          BY <1>7, <4>1, <4>2
      <3>3. QED
        BY <3>1, <3>2
    <2>4. QED
      BY <1>7, <2>2, <2>3
  <1>10. new.lastIP = ip /\ new.cells = more
    BY <1>1
  <1>11. UserOK(new)
    BY <1>2, <1>6, <1>9, <1>10 DEF UserOK
  <1>12. QED
    BY <1>7, <1>10, <1>11 DEF cells, cell, new

\* A machine on a node is found at its address, which no other machine of the user has.
LEMMA Resolved ==
    ASSUME VmsOK, IpsOK
    PROVE  VirtualIPsResolve
  <1>1. SUFFICES ASSUME NEW v \in VMs, vm[v].node # NoNode
                 PROVE  /\ SearchNodeIP(ips[vm[v].user], vm[v].ip) = vm[v].node
                        /\ \A w \in VMs \ {v} :
                             vm[w].node # NoNode /\ vm[w].user = vm[v].user => vm[w].ip # vm[v].ip
    BY DEF VirtualIPsResolve
  <1> DEFINE u == vm[v].user
             cells == ips[u].cells
  <1>2. u \in Users /\ UserOK(ips[u])
    BY <1>1 DEF VmsOK, IpsOK
  <1>3. PICK i \in DOMAIN cells : cells[i] = [ip |-> vm[v].ip, node |-> vm[v].node, vm |-> v]
    BY <1>1 DEF IpsOK
  <1>4. PICK S : cells \in Seq(S)
    BY <1>2 DEF UserOK
  <1>5. Len(cells) \in Nat /\ DOMAIN cells = 1 .. Len(cells)
    BY <1>4
  <1>6. \A j \in DOMAIN cells : cells[j].ip = vm[v].ip => j = i
    <2>1. \A j, k \in DOMAIN cells :
            /\ cells[j].ip \in Addresses
            /\ j < k => Before(cells[j].ip, cells[k].ip)
      BY <1>2 DEF UserOK
    <2>2. cells[i].ip = vm[v].ip
      BY <1>3
    <2> HIDE DEF cells
    <2>3. SUFFICES ASSUME NEW j \in DOMAIN cells, cells[j].ip = vm[v].ip, j # i
                   PROVE  FALSE
      OBVIOUS
    <2>4. j < i \/ i < j
      BY <1>5, <2>3
    <2>5. /\ cells[j].ip = cells[i].ip /\ cells[j].ip \in Addresses
          /\ Before(cells[j].ip, cells[i].ip) \/ Before(cells[i].ip, cells[j].ip)
      BY <2>1, <2>2, <2>3, <2>4
    <2>6. QED
      BY <2>5, BeforeOrder
  <1>7. SearchNodeIP(ips[u], vm[v].ip) = vm[v].node
    <2> DEFINE found == {j \in 1 .. Len(cells) : cells[j].ip = vm[v].ip}
    <2>1. SelectInSeq(cells, LAMBDA c : c.ip = vm[v].ip) = IF found # {} THEN Min(found) ELSE 0
      BY DEF SelectInSeq
    <2>2. found = {i}
      BY <1>3, <1>5, <1>6
    <2> HIDE DEF found
    <2>3. i \in Int /\ i # 0
      BY <1>5
    <2>4. Min(found) = i
      BY <2>2, <2>3 DEF Min
    <2>5. SelectInSeq(cells, LAMBDA c : c.ip = vm[v].ip) = i
      BY <2>1, <2>2, <2>4
    <2>6. SearchNodeIP(ips[u], vm[v].ip) = cells[i].node
      BY <2>3, <2>5 DEF SearchNodeIP
    <2>7. QED
      BY <1>3, <2>6
  <1>8. ASSUME NEW w \in VMs \ {v}, vm[w].node # NoNode, vm[w].user = u, vm[w].ip = vm[v].ip
        PROVE  FALSE
    <2>1. PICK j \in DOMAIN cells : cells[j] = [ip |-> vm[w].ip, node |-> vm[w].node, vm |-> w]
      BY <1>8 DEF IpsOK
    <2>2. cells[j].ip = vm[v].ip /\ cells[j].vm = w /\ cells[i].vm = v
      BY <1>3, <1>8, <2>1
    <2>3. QED
      BY <1>6, <1>8, <2>2
  <1>9. QED
    BY <1>7, <1>8
-------------------------------------------------------------------------------
(* The steps.                                                              *)

\* MemoryExact and PoweredWhileHosting, of one node.
NodeOK(n) ==
    /\ ~machine[n].uncharged =>
         machine[n].free = Capacity(n) - LinkedMemory(n) - Charged(machine[n].state)
    /\ Linked(n) # {} => machine[n].state \in {"running", "off"}
    /\ Linked(n) = {} => machine[n].state \in {"off_state", "off"}
    /\ machine[n].psu <=> machine[n].state = "running"

NodesOK == \A n \in ComputeNodes : NodeOK(n)

\* Together they say it of every node.
LEMMA NodeByNode ==
    (MemoryExact /\ PoweredWhileHosting) <=> NodesOK
  <1>1. MemoryExact <=>
          \A n \in ComputeNodes : ~machine[n].uncharged =>
            machine[n].free = Capacity(n) - LinkedMemory(n) - Charged(machine[n].state)
    BY DEF MemoryExact, Charged
  <1>2. QED
    BY <1>1, Zenon DEF PoweredWhileHosting, NodeOK, NodesOK

\* A machine is placed on a node that may be any pair of numbers: a pair that is no node
\* leaves the nodes as they are.
LEMMA PlaceStep ==
    ASSUME IInv, NEW u \in Users, NEW t \in VmTypes, NEW n, n # NoNode,
           NEW v \in VMs, v = nextVm, IncVirtualIP(ips[u].lastIP) # <<>>, Place(u, t, n),
           UNCHANGED <<userVmData, pendingDeletion, pendingConnections>>
    PROVE  IInv'
  <1> DEFINE user == AllocateVirtualIP(ips[u], n, v)
             on   == IF machine[n].state = "off_state" THEN TurnOn(machine[n]) ELSE machine[n]
  <1>1. /\ machine' = [machine EXCEPT ![n] = LinkVM(TestLinkVM(on, VmMemory[t]))]
        /\ ips' = [ips EXCEPT ![u] = user]
        /\ vm' = [vm EXCEPT ![v] = NewVM(u, t, n, user.lastIP)]
        /\ nextVm' = v + 1
    BY DEF Place, user, on
  <1>2. v \in VMs /\ vm[v].node = NoNode /\ vm[v].state = "none" /\ nextVm \in Nat \ {0}
    BY DEF IInv, VmsOK
  <1> HIDE DEF user, on
  <1>3. /\ vm' = [x \in VMs |-> vm'[x]]
        /\ vm'[v] = NewVM(u, t, n, user.lastIP)
        /\ \A x \in VMs \ {v} : vm'[x] = vm[x]
    BY <1>1, <1>2 DEF IInv, VmsOK
  <1>4. /\ vm'[v].user = u /\ vm'[v].type = t /\ vm'[v].node = n
        /\ vm'[v].ip = user.lastIP /\ vm'[v].state = "on"
    BY <1>3 DEF NewVM
  <1>5. VmsOK'
    <2>1. vm' = [x \in VMs |-> [user |-> vm'[x].user, type |-> vm'[x].type, node |-> vm'[x].node,
                                ip |-> vm'[x].ip, state |-> vm'[x].state]]
      <3>1. ASSUME NEW x \in VMs
            PROVE  vm'[x] = [user |-> vm'[x].user, type |-> vm'[x].type, node |-> vm'[x].node,
                             ip |-> vm'[x].ip, state |-> vm'[x].state]
        BY <1>3 DEF IInv, VmsOK, NewVM
      <3>2. QED
        BY <1>3, <3>1
    <2>2. nextVm' \in Nat \ {0}
      BY <1>1, <1>2
    <2>3. ASSUME NEW x \in VMs
          PROVE  /\ vm'[x].node # NoNode <=> vm'[x].state \in {"on", "closing"}
                 /\ vm'[x].node # NoNode => vm'[x].user \in Users /\ vm'[x].type \in VmTypes
                 /\ x >= nextVm' => vm'[x].state = "none"
      <3>1. x >= nextVm' => x >= nextVm /\ x # v
        BY <1>1, <1>2 DEF VMs
      <3>2. CASE x = v
        BY <1>4, <3>1, <3>2
      <3>3. CASE x # v
        BY <1>3, <3>1, <3>3 DEF IInv, VmsOK
      <3>4. QED
        BY <3>2, <3>3
    <2>4. QED
      BY <2>1, <2>2, <2>3 DEF VmsOK
  <1>6. AnswersDue'
    <2>1. \A x \in VMs : vm[x].state = "closing" => vm'[x].state = "closing"
      BY <1>2, <1>3
    <2>2. QED
      BY <2>1 DEF IInv, AnswersDue
  <1>7. IpsOK'
    <2>1. UserOK(ips[u])
      BY DEF IInv, IpsOK
    <2>2. /\ UserOK(user)
          /\ \A i \in DOMAIN ips[u].cells :
               i \in DOMAIN user.cells /\ user.cells[i] = ips[u].cells[i]
          /\ \E i \in DOMAIN user.cells :
               user.cells[i] = [ip |-> user.lastIP, node |-> n, vm |-> v]
      BY <2>1, AllocateKeepsCells DEF user
    <2>3. /\ ips' = [x \in Users |-> ips'[x]] /\ ips'[u] = user
          /\ \A x \in Users \ {u} : ips'[x] = ips[x]
      BY <1>1 DEF IInv, IpsOK
    <2>4. \A x \in Users : UserOK(ips'[x])
      BY <2>2, <2>3 DEF IInv, IpsOK
    <2>5. ASSUME NEW x \in VMs, vm'[x].node # NoNode
          PROVE  \E i \in DOMAIN ips'[vm'[x].user].cells :
                   ips'[vm'[x].user].cells[i] = [ip |-> vm'[x].ip, node |-> vm'[x].node, vm |-> x]
      <3>1. CASE x = v
        BY <1>4, <2>2, <2>3, <3>1
      <3>2. CASE x # v
        <4>1. vm'[x] = vm[x] /\ vm[x].user \in Users
          BY <1>3, <2>5, <3>2 DEF IInv, VmsOK
        <4>2. PICK i \in DOMAIN ips[vm[x].user].cells :
                ips[vm[x].user].cells[i] = [ip |-> vm[x].ip, node |-> vm[x].node, vm |-> x]
          BY <2>5, <4>1 DEF IInv, IpsOK
        <4>3. i \in DOMAIN ips'[vm[x].user].cells
              /\ ips'[vm[x].user].cells[i] = ips[vm[x].user].cells[i]
          BY <2>2, <2>3, <4>1
        <4>4. QED
          BY <4>1, <4>2, <4>3
      <3>3. QED
        BY <3>1, <3>2
    <2>6. QED
      BY <2>3, <2>4, <2>5 DEF IpsOK
  <1>8. ASSUME NEW m \in ComputeNodes
        PROVE  machine'[m] \in MachineRecords /\ NodeOK(m)'
    <2> DEFINE r == machine[m]
    <2>1. m # NoNode /\ Capacity(m) \in Nat
      BY NodesTyped
    <2>2. r \in MachineRecords /\ NodeOK(m)
      BY NodeByNode DEF IInv, MachinesOK, NodesOK
    <2>3. /\ LinkedMemory(m) \in Int
          /\ LinkedMemory(m)' = LinkedMemory(m) + Share(v, m)' - Share(v, m)
      BY <1>2, <1>3, <1>5, ShareChanges DEF IInv
    <2>4. Share(v, m) = 0
      BY <1>2, <2>1 DEF Share
    <2>5. CASE m # n
      <3>1. machine'[m] = r
        BY <1>1, <2>5 DEF IInv, MachinesOK
      <3>2. Share(v, m)' = 0
        BY <1>4, <2>5 DEF Share
      <3>3. LinkedMemory(m)' = LinkedMemory(m)
        BY <2>3, <2>4, <3>2
      <3>4. Linked(m)' = Linked(m)
        BY <1>2, <1>3, <1>4, <2>1, <2>5 DEF Linked
      <3>5. Capacity(m)' = Capacity(m)
        BY DEF Capacity, SetMemory
      <3>6. QED
        BY <2>2, <3>1, <3>3, <3>4, <3>5 DEF NodeOK, Charged
    <2>6. CASE m = n
      <3> DEFINE new == LinkVM(TestLinkVM(on, VmMemory[t]))
      <3>1. machine'[m] = new
        BY <1>1, <2>6 DEF IInv, MachinesOK
      <3>2. VmMemory[t] \in Nat
        BY PlacementAssumption
      <3>3. Share(v, m)' = VmMemory[t]
        BY <1>4, <2>6 DEF Share
      <3>4. Linked(m)' # {}
        BY <1>2, <1>4, <2>6 DEF Linked
      <3>5. r.state \in {"off_state", "off", "running"} /\ (r.psu <=> r.state = "running")
        BY <2>2 DEF NodeOK
      <3>6. on = IF r.state = "off_state" THEN TurnOn(r) ELSE r
        BY <2>6 DEF on
      <3> HIDE DEF r
      <3>7. /\ new \in MachineRecords
            /\ new.state = IF r.state = "off" THEN "off" ELSE "running"
            /\ new.psu <=> new.state = "running"
            /\ ~new.uncharged =>
                 ~r.uncharged /\ new.free = r.free - VmMemory[t]
                                 - (IF r.state = "off_state" THEN MemoryOverhead ELSE 0)
        BY <2>2, <3>2, <3>5, <3>6, PlaceRecord
      <3> HIDE DEF new
      <3>8. ASSUME ~new.uncharged
            PROVE  new.free = Capacity(m) - LinkedMemory(m)' - Charged(new.state)
        <4>1. r.free = Capacity(m) - LinkedMemory(m) - Charged(r.state)
          BY <2>2, <3>7, <3>8 DEF NodeOK, r
        <4>2. new.free = r.free - VmMemory[t]
                           - (IF r.state = "off_state" THEN MemoryOverhead ELSE 0)
          BY <3>7, <3>8
        <4>3. LinkedMemory(m)' = LinkedMemory(m) + VmMemory[t]
          BY <2>3, <2>4, <3>2, <3>3
        <4>4. CASE r.state = "off_state"
          <5>1. new.state = "running"
            BY <3>7, <4>4
          <5>2. QED
            BY <2>1, <2>3, <3>2, <4>1, <4>2, <4>3, <4>4, <5>1, ChargedValues
        <4>5. CASE r.state = "off"
          <5>1. new.state = "off"
            BY <3>7, <4>5
          <5>2. QED
            BY <2>1, <2>3, <3>2, <4>1, <4>2, <4>3, <4>5, <5>1, ChargedValues
        <4>6. CASE r.state = "running"
          <5>1. new.state = "running"
            BY <3>7, <4>6
          <5>2. QED
            BY <2>1, <2>3, <3>2, <4>1, <4>2, <4>3, <4>6, <5>1, ChargedValues
        <4>7. QED
          BY <3>5, <4>4, <4>5, <4>6
      <3>9. Capacity(m)' = Capacity(m) /\ Charged(machine'[m].state) = Charged(new.state)
        BY <3>1 DEF Capacity, SetMemory
      <3>10. new.state \in {"running", "off"}
        BY <3>7
      <3>11. (~machine[m].uncharged =>
                machine[m].free = Capacity(m) - LinkedMemory(m) - Charged(machine[m].state))'
        BY <3>1, <3>8, <3>9 DEF Charged
      <3>12. QED
        BY <3>1, <3>4, <3>7, <3>10, <3>11 DEF NodeOK
    <2>7. QED
      BY <2>5, <2>6
  <1>9. MachinesOK' /\ MemoryExact' /\ PoweredWhileHosting'
    <2>1. DOMAIN machine' = ComputeNodes /\ machine' = [m \in ComputeNodes |-> machine'[m]]
      BY <1>1 DEF IInv, MachinesOK
    <2>2. MachinesOK'
      BY <1>8, <2>1 DEF MachinesOK
    <2>3. NodesOK'
      BY <1>8 DEF NodesOK
    <2>4. QED
      BY <2>2, <2>3, NodeByNode, PTL
  <1>10. UserDataOK'
    BY DEF IInv, UserDataOK
  <1>11. QED
    BY <1>5, <1>6, <1>7, <1>9, <1>10 DEF IInv

\* The record of a machine that is unlinked.
LEMMA UnlinkedRecord ==
    ASSUME NEW r, r = [user |-> r.user, type |-> r.type, node |-> r.node,
                       ip |-> r.ip, state |-> r.state]
    PROVE  [r EXCEPT !.node = NoNode, !.state = "gone"]
             = [user |-> r.user, type |-> r.type, node |-> NoNode, ip |-> r.ip, state |-> "gone"]
  <1> DEFINE s == [r EXCEPT !.node = NoNode]
  <1>1. s = [user |-> r.user, type |-> r.type, node |-> NoNode, ip |-> r.ip, state |-> r.state]
    OBVIOUS
  <1> HIDE DEF s
  <1>2. [s EXCEPT !.state = "gone"]
          = [user |-> r.user, type |-> r.type, node |-> NoNode, ip |-> r.ip, state |-> "gone"]
    BY <1>1
  <1>3. [r EXCEPT !.node = NoNode, !.state = "gone"] = [s EXCEPT !.state = "gone"]
    BY DEF s
  <1>4. QED
    BY <1>2, <1>3

\* A machine that is being shut down is taken off its node, with no answer due.
LEMMA UnlinkStep ==
    ASSUME IInv, NEW v \in VMs, vm[v].state = "closing", Unlink(v), UNCHANGED <<nextVm, userVmData>>,
           pendingDeletion' \in [VMs -> Nat], pendingConnections' \in [VMs -> Nat],
           pendingDeletion'[v] = 0, pendingConnections'[v] = 0,
           \A x \in VMs \ {v} : /\ pendingDeletion'[x] = pendingDeletion[x]
                                 /\ pendingConnections'[x] = pendingConnections[x]
    PROVE  IInv' /\ vm'[v].state = "gone" /\ \A x \in VMs \ {v} : vm'[x] = vm[x]
  <1>1. PICK n : n = vm[v].node /\ n # NoNode
    BY DEF IInv, VmsOK
  <1>2. PICK last \in BOOLEAN : last <=> Linked(n) = {v}
    OBVIOUS
  <1>3. PICK memory : memory = VmMemory[vm[v].type] /\ memory \in Nat
    BY <1>1, PlacementAssumption DEF IInv, VmsOK
  <1>4. /\ machine' = [machine EXCEPT ![n] = UnlinkAndTurnOff(machine[n], memory, Capacity(n), last)]
        /\ vm' = [vm EXCEPT ![v].node = NoNode, ![v].state = "gone"]
    <2>1. (Linked(n) = {v}) = last
      BY <1>2
    <2>2. QED
      BY <1>1, <1>3, <2>1 DEF Unlink
  <1>5. ips' = ips
    <2>1. ips' = [ips EXCEPT ![vm[v].user] = ips[vm[v].user]]
      BY DEF Unlink, DeleteVirtualIP
    <2>2. QED
      BY <2>1 DEF IInv, IpsOK
  <1>6. /\ vm' = [x \in VMs |-> vm'[x]]
        /\ vm'[v] = [vm[v] EXCEPT !.node = NoNode, !.state = "gone"]
        /\ \A x \in VMs \ {v} : vm'[x] = vm[x]
    BY <1>4 DEF IInv, VmsOK
  <1>7. vm'[v] = [user |-> vm[v].user, type |-> vm[v].type, node |-> NoNode,
                  ip |-> vm[v].ip, state |-> "gone"]
    <2>1. vm[v] = [user |-> vm[v].user, type |-> vm[v].type, node |-> vm[v].node,
                   ip |-> vm[v].ip, state |-> vm[v].state]
      BY DEF IInv, VmsOK
    <2>2. QED
      BY <1>6, <2>1, UnlinkedRecord
  <1>8. vm'[v].node = NoNode /\ vm'[v].state = "gone"
    BY <1>7
  <1>9. VmsOK'
    <2>1. vm' = [x \in VMs |-> [user |-> vm'[x].user, type |-> vm'[x].type, node |-> vm'[x].node,
                                ip |-> vm'[x].ip, state |-> vm'[x].state]]
      <3>1. ASSUME NEW x \in VMs
            PROVE  vm'[x] = [user |-> vm'[x].user, type |-> vm'[x].type, node |-> vm'[x].node,
                             ip |-> vm'[x].ip, state |-> vm'[x].state]
        <4>1. CASE x = v
          BY <1>7, <4>1
        <4>2. CASE x # v
          BY <1>6, <4>2 DEF IInv, VmsOK
        <4>3. QED
          BY <4>1, <4>2
      <3>2. QED
        BY <1>6, <3>1
    <2>2. ASSUME NEW x \in VMs
          PROVE  /\ vm'[x].node # NoNode <=> vm'[x].state \in {"on", "closing"}
                 /\ vm'[x].node # NoNode => vm'[x].user \in Users /\ vm'[x].type \in VmTypes
                 /\ x >= nextVm' => vm'[x].state = "none"
      <3>1. CASE x = v
        BY <1>8, <3>1 DEF IInv, VmsOK
      <3>2. CASE x # v
        BY <1>6, <3>2 DEF IInv, VmsOK
      <3>3. QED
        BY <3>1, <3>2
    <2>3. QED
      BY <2>1, <2>2 DEF IInv, VmsOK
  <1>10. AnswersDue'
    <2>1. ASSUME NEW x \in VMs, pendingDeletion'[x] > 0 \/ pendingConnections'[x] > 0
          PROVE  vm'[x].state = "closing"
      <3>1. x # v
        BY <2>1
      <3>2. QED
        BY <1>6, <2>1, <3>1 DEF IInv, AnswersDue
    <2>2. QED
      BY <2>1 DEF AnswersDue
  <1>11. IpsOK'
    <2>1. ASSUME NEW x \in VMs, vm'[x].node # NoNode
          PROVE  \E i \in DOMAIN ips[vm'[x].user].cells :
                   ips[vm'[x].user].cells[i] = [ip |-> vm'[x].ip, node |-> vm'[x].node, vm |-> x]
      <3>1. vm'[x] = vm[x]
        BY <1>6, <1>8, <2>1
      <3>2. QED
        BY <2>1, <3>1 DEF IInv, IpsOK
    <2>2. QED
      BY <1>5, <2>1 DEF IInv, IpsOK
  <1>12. ASSUME NEW m \in ComputeNodes
         PROVE  machine'[m] \in MachineRecords /\ NodeOK(m)'
    <2> DEFINE r == machine[m]
    <2>1. m # NoNode /\ Capacity(m) \in Nat
      BY NodesTyped
    <2>2. r \in MachineRecords /\ NodeOK(m)
      BY NodeByNode DEF IInv, MachinesOK, NodesOK
    <2>3. /\ LinkedMemory(m) \in Int
          /\ LinkedMemory(m)' = LinkedMemory(m) + Share(v, m)' - Share(v, m)
      BY <1>6, <1>9, ShareChanges DEF IInv
    <2>4. Share(v, m)' = 0
      BY <1>8, <2>1 DEF Share
    <2>5. Capacity(m)' = Capacity(m)
      BY DEF Capacity, SetMemory
    <2>6. CASE m # n
      <3>1. machine'[m] = r
        BY <1>4, <2>6 DEF IInv, MachinesOK
      <3>2. Share(v, m) = 0
        BY <1>1, <2>6 DEF Share
      <3>3. LinkedMemory(m)' = LinkedMemory(m)
        BY <2>3, <2>4, <3>2
      <3>4. Linked(m)' = Linked(m)
        <4>1. vm[v].node # m /\ vm'[v].node # m
          BY <1>1, <1>8, <2>1, <2>6
        <4>2. \A x \in VMs \ {v} : vm'[x].node = vm[x].node
          BY <1>6
        <4>3. QED
          BY <4>1, <4>2 DEF Linked
      <3>5. QED
        BY <2>2, <2>5, <3>1, <3>3, <3>4 DEF NodeOK, Charged
    <2>7. CASE m = n
      <3> DEFINE new == UnlinkAndTurnOff(r, memory, Capacity(m), last)
      <3>1. machine'[m] = new
        BY <1>4, <2>7 DEF IInv, MachinesOK
      <3>2. Share(v, m) = memory
        BY <1>1, <1>3, <2>7 DEF Share
      <3>3. Linked(m)' = Linked(m) \ {v} /\ v \in Linked(m)
        <4>1. vm[v].node = m /\ vm'[v].node # m
          BY <1>1, <1>8, <2>1, <2>7
        <4>2. \A x \in VMs \ {v} : vm'[x].node = vm[x].node
          BY <1>6
        <4>3. QED
          BY <4>1, <4>2 DEF Linked
      <3>4. r.state \in {"off", "running"} /\ (r.psu <=> r.state = "running")
        BY <2>2, <3>3 DEF NodeOK
      <3> HIDE DEF r
      <3>5. /\ new \in MachineRecords
            /\ new.state = IF last THEN "off_state" ELSE r.state
            /\ new.psu <=> new.state = "running"
            /\ new.uncharged <=> r.uncharged
            /\ new.free = IF last THEN Capacity(m) ELSE r.free + memory
        BY <1>3, <2>1, <2>2, <3>4, UnlinkRecord
      <3> HIDE DEF new
      <3>6. LinkedMemory(m)' = LinkedMemory(m) - memory
        BY <1>3, <2>3, <2>4, <3>2
      <3>7. Charged(machine'[m].state) = Charged(new.state)
        BY <3>1
      <3>8. CASE last
        <4>1. Linked(m)' = {}
          BY <1>2, <2>7, <3>3, <3>8
        <4>2. LinkedMemory(m)' = 0
          <5>1. \A x \in VMs : vm'[x].node # m
            BY <4>1 DEF Linked
          <5>2. LinkedMemory(m)' = Given(vm', m)
            BY DEF LinkedMemory, Given
          <5>3. QED
            BY <5>1, <5>2, NothingShared
        <4>3. new.state = "off_state" /\ new.free = Capacity(m) /\ ~new.psu
          BY <3>5, <3>8
        <4>4. new.free = Capacity(m) - LinkedMemory(m)' - Charged(new.state)
          BY <2>1, <4>2, <4>3, ChargedValues
        <4>5. QED
          BY <2>5, <3>1, <3>5, <3>7, <4>1, <4>3, <4>4 DEF NodeOK, Charged
      <3>9. CASE ~last
        <4>1. Linked(m)' # {}
          BY <1>2, <2>7, <3>3, <3>9
        <4>2. new.state = r.state /\ new.free = r.free + memory
          BY <3>5, <3>9
        <4>3. ASSUME ~new.uncharged
              PROVE  new.free = Capacity(m) - LinkedMemory(m)' - Charged(new.state)
          <5>1. r.free = Capacity(m) - LinkedMemory(m) - Charged(r.state)
            BY <2>2, <3>5, <4>3 DEF NodeOK, r
          <5>2. Charged(r.state) \in Int
            BY <3>4, ChargedValues
          <5>3. QED
            BY <1>3, <2>1, <2>3, <3>6, <4>2, <5>1, <5>2
        <4>4. QED
          BY <2>5, <3>1, <3>4, <3>5, <3>7, <4>1, <4>2, <4>3 DEF NodeOK, Charged
      <3>10. QED
        BY <3>8, <3>9
    <2>8. QED
      BY <2>6, <2>7
  <1>13. MachinesOK' /\ MemoryExact' /\ PoweredWhileHosting'
    <2>1. DOMAIN machine' = ComputeNodes /\ machine' = [m \in ComputeNodes |-> machine'[m]]
      BY <1>4 DEF IInv, MachinesOK
    <2>2. MachinesOK'
      BY <1>12, <2>1 DEF MachinesOK
    <2>3. NodesOK'
      BY <1>12 DEF NodesOK
    <2>4. QED
      BY <2>2, <2>3, NodeByNode, PTL
  <1>14. UserDataOK'
    BY DEF IInv, UserDataOK
  <1>15. QED
    BY <1>6, <1>8, <1>9, <1>10, <1>11, <1>13, <1>14 DEF IInv

\* The machines of the model do not change where only the answers they wait for, or what
\* is kept of their storage, does.
LEMMA SameMachines ==
    ASSUME IInv, UNCHANGED <<machine, vm, nextVm, ips>>
    PROVE  VmsOK' /\ IpsOK' /\ MachinesOK' /\ MemoryExact' /\ PoweredWhileHosting'
  <1>1. VmsOK'
    BY DEF IInv, VmsOK
  <1>2. IpsOK'
    BY DEF IInv, IpsOK
  <1>3. MachinesOK'
    BY DEF IInv, MachinesOK
  <1>4. MemoryExact'
    BY DEF IInv, MemoryExact, LinkedMemory, Capacity, SetMemory
  <1>5. PoweredWhileHosting'
    BY DEF IInv, PoweredWhileHosting, Linked
  <1>6. QED
    BY <1>1, <1>2, <1>3, <1>4, <1>5

\* A machine that is asked to end stays on its node, at its address.
LEMMA ShutdownStep ==
    ASSUME IInv, NEW v \in VMs, RequestShutdownVM(v)
    PROVE  IInv' /\ \A x \in VMs : vm'[x].node = vm[x].node
  <1>1. /\ vm[v].state = "on" /\ vm' = [vm EXCEPT ![v].state = "closing"]
        /\ UNCHANGED <<machine, nextVm, ips>>
        /\ userVmData' = [userVmData EXCEPT ![vm[v].user] = <<>>]
    BY DEF RequestShutdownVM
  <1>2. vm[v].user \in Users
    BY <1>1 DEF IInv, VmsOK
  <1>3. PICK nodes \in Seq(Nat) : nodes = StorageNodesToFormat(vm[v].user, v)
    <2>1. userVmData[vm[v].user] \in Seq([vm : VMs, positions : Seq(Nat)])
      BY <1>2 DEF IInv, UserDataOK
    <2> DEFINE kept == userVmData[vm[v].user]
    <2>2. StorageNodesToFormat(vm[v].user, v) =
            IF kept # <<>> /\ kept[1].vm = v THEN kept[1].positions ELSE <<>>
      BY DEF StorageNodesToFormat
    <2> DEFINE R == [vm : VMs, positions : Seq(Nat)]
    <2> HIDE DEF kept, R
    <2>3. kept \in Seq(R)
      BY <2>1 DEF kept, R
    <2>4. kept # <<>> => kept[1] \in R
      BY <2>3
    <2>5. kept # <<>> => kept[1].positions \in Seq(Nat)
      BY <2>4 DEF R
    <2>6. <<>> \in Seq(Nat)
      OBVIOUS
    <2>7. QED
      BY <2>2, <2>5, <2>6
  <1>4. PICK a \in Nat : /\ pendingDeletion' = [pendingDeletion EXCEPT ![v] = a]
                        /\ pendingConnections' = [pendingConnections EXCEPT ![v] = a]
    <2>1. Len(nodes) + 1 \in Nat
      OBVIOUS
    <2>2. QED
      BY <1>3, <2>1 DEF RequestShutdownVM, FormatFS, CloseVMConnections
  <1>5. /\ vm' = [x \in VMs |-> vm'[x]]
        /\ vm'[v] = [vm[v] EXCEPT !.state = "closing"]
        /\ \A x \in VMs \ {v} : vm'[x] = vm[x]
    BY <1>1 DEF IInv, VmsOK
  <1>6. vm'[v] = [user |-> vm[v].user, type |-> vm[v].type, node |-> vm[v].node,
                  ip |-> vm[v].ip, state |-> "closing"]
    <2>1. vm[v] = [user |-> vm[v].user, type |-> vm[v].type, node |-> vm[v].node,
                   ip |-> vm[v].ip, state |-> vm[v].state]
      BY DEF IInv, VmsOK
    <2>2. QED
      BY <1>5, <2>1
  <1>7. \A x \in VMs : /\ vm'[x].node = vm[x].node /\ vm'[x].user = vm[x].user
                       /\ vm'[x].type = vm[x].type /\ vm'[x].ip = vm[x].ip
    BY <1>5, <1>6
  <1>8. VmsOK'
    <2>1. ASSUME NEW x \in VMs
          PROVE  vm'[x] = [user |-> vm'[x].user, type |-> vm'[x].type, node |-> vm'[x].node,
                           ip |-> vm'[x].ip, state |-> vm'[x].state]
      <3>1. CASE x = v
        BY <1>6, <3>1
      <3>2. CASE x # v
        BY <1>5, <3>2 DEF IInv, VmsOK
      <3>3. QED
        BY <3>1, <3>2
    <2>2. vm' = [x \in VMs |-> [user |-> vm'[x].user, type |-> vm'[x].type, node |-> vm'[x].node,
                                ip |-> vm'[x].ip, state |-> vm'[x].state]]
      BY <1>5, <2>1
    <2>3. ASSUME NEW x \in VMs
          PROVE  /\ vm'[x].node # NoNode <=> vm'[x].state \in {"on", "closing"}
                 /\ vm'[x].node # NoNode => vm'[x].user \in Users /\ vm'[x].type \in VmTypes
                 /\ x >= nextVm' => vm'[x].state = "none"
      <3>1. CASE x = v
        BY <1>1, <1>6, <3>1 DEF IInv, VmsOK
      <3>2. CASE x # v
        BY <1>1, <1>5, <3>2 DEF IInv, VmsOK
      <3>3. QED
        BY <3>1, <3>2
    <2>4. nextVm' \in Nat \ {0}
      BY <1>1 DEF IInv, VmsOK
    <2>5. QED
      BY <2>2, <2>3, <2>4 DEF VmsOK
  <1>9. AnswersDue'
    <2>1. pendingDeletion' \in [VMs -> Nat] /\ pendingConnections' \in [VMs -> Nat]
      BY <1>4 DEF IInv, AnswersDue
    <2>2. ASSUME NEW x \in VMs, pendingDeletion'[x] > 0 \/ pendingConnections'[x] > 0
          PROVE  vm'[x].state = "closing"
      <3>1. CASE x = v
        BY <1>6, <3>1
      <3>2. CASE x # v
        BY <1>4, <1>5, <2>2, <3>2 DEF IInv, AnswersDue
      <3>3. QED
        BY <3>1, <3>2
    <2>3. QED
      BY <2>1, <2>2 DEF AnswersDue
  <1>10. UserDataOK'
    <2> DEFINE R == [vm : VMs, positions : Seq(Nat)]
    <2> HIDE DEF R
    <2>1. userVmData \in [Users -> Seq(R)]
      BY DEF IInv, UserDataOK, R
    <2>2. <<>> \in Seq(R)
      OBVIOUS
    <2>3. userVmData' \in [Users -> Seq(R)]
      BY <1>1, <1>2, <2>1, <2>2
    <2>4. QED
      BY <2>3 DEF UserDataOK, R
  <1>11. IpsOK'
    <2>1. ASSUME NEW x \in VMs, vm'[x].node # NoNode
          PROVE  \E i \in DOMAIN ips[vm'[x].user].cells :
                   ips[vm'[x].user].cells[i] = [ip |-> vm'[x].ip, node |-> vm'[x].node, vm |-> x]
      <3>1. vm[x].node # NoNode /\ vm'[x].user = vm[x].user
            /\ vm'[x].ip = vm[x].ip /\ vm'[x].node = vm[x].node
        BY <1>7, <2>1
      <3>2. \E i \in DOMAIN ips[vm[x].user].cells :
                   ips[vm[x].user].cells[i] = [ip |-> vm[x].ip, node |-> vm[x].node, vm |-> x]
        BY <3>1 DEF IInv, IpsOK
      <3>3. QED
        BY <3>1, <3>2
    <2>2. QED
      BY <1>1, <2>1 DEF IInv, IpsOK
  <1>12. MachinesOK' /\ MemoryExact' /\ PoweredWhileHosting'
    <2>1. \A n : Linked(n)' = Linked(n)
      BY <1>7 DEF Linked
    <2>2. \A n : LinkedMemory(n)' = LinkedMemory(n)
      BY <1>7 DEF LinkedMemory
    <2>3. MachinesOK'
      BY <1>1 DEF IInv, MachinesOK
    <2>4. MemoryExact'
      BY <1>1, <2>2 DEF IInv, MemoryExact, Capacity, SetMemory
    <2>5. PoweredWhileHosting'
      BY <1>1, <2>1 DEF IInv, PoweredWhileHosting
    <2>6. QED
      BY <2>3, <2>4, <2>5
  <1>13. QED
    BY <1>7, <1>8, <1>9, <1>10, <1>11, <1>12 DEF IInv

\* A request for remote storage records the nodes it is kept on.
LEMMA StorageStep ==
    ASSUME IInv, NEW v \in VMs, NEW fsType \in {"NFS", "PFS"}, RequestRemoteStorage(v, fsType)
    PROVE  IInv' /\ vm' = vm
  <1> DEFINE nodes == SelectStorageNodes(fsType)
             u == vm[v].user
             R == [vm : VMs, positions : Seq(Nat)]
  <1>1. /\ vm[v].state = "on"
        /\ UNCHANGED <<machine, vm, nextVm, ips, pendingDeletion, pendingConnections>>
        /\ \/ UNCHANGED userVmData
           \/ /\ nodes # <<>>
              /\ userVmData' = [userVmData EXCEPT ![u] = Append(@, [vm |-> v, positions |-> nodes])]
    BY DEF RequestRemoteStorage, UpdateVmManagementStructures
  <1>2. AnswersDue'
    BY <1>1 DEF IInv, AnswersDue
  <1>3. UserDataOK'
    <2>1. CASE UNCHANGED userVmData
      BY <2>1 DEF IInv, UserDataOK
    <2>2. CASE ~UNCHANGED userVmData
      <3>1. nodes \in Seq(Nat)
        <4> DEFINE wanted == IF fsType = "NFS" THEN 1 ELSE NumPFSServers
        <4>1. wanted \in Nat
          BY PlacementAssumption
        <4>2. nodes = IF wanted > NumStorageNodes THEN <<>> ELSE [k \in 1 .. wanted |-> k]
          BY DEF SelectStorageNodes
        <4> HIDE DEF wanted, nodes
        <4>3. [k \in 1 .. wanted |-> k] \in Seq(Nat) /\ <<>> \in Seq(Nat)
          BY <4>1
        <4>4. QED
          BY <4>2, <4>3
      <3> HIDE DEF nodes
      <3>2. [vm |-> v, positions |-> nodes] \in R
        BY <3>1
      <3> HIDE DEF R
      <3>3. userVmData \in [Users -> Seq(R)]
        BY DEF IInv, UserDataOK, R
      <3>4. u \in Users
        BY <1>1 DEF IInv, VmsOK
      <3>5. Append(userVmData[u], [vm |-> v, positions |-> nodes]) \in Seq(R)
        BY <3>2, <3>3, <3>4
      <3>6. userVmData' \in [Users -> Seq(R)]
        BY <1>1, <2>2, <3>3, <3>4, <3>5
      <3>7. QED
        BY <3>6 DEF UserDataOK, R
    <2>3. QED
      BY <2>1, <2>2
  <1>4. QED
    BY <1>1, <1>2, <1>3, SameMachines DEF IInv

\* One answer arrives that the machine waits for; it is the last of both kinds, and the
\* machine is unlinked, or only the count of one kind goes down.
Answered(v) ==
    /\ UNCHANGED <<nextVm, userVmData>>
    /\ vm[v].state = "closing"
    /\ pendingDeletion' \in [VMs -> Nat] /\ pendingConnections' \in [VMs -> Nat]
    /\ \A x \in VMs \ {v} : /\ pendingDeletion'[x] = pendingDeletion[x]
                             /\ pendingConnections'[x] = pendingConnections[x]
    /\ \/ UNCHANGED <<machine, vm, ips>>
       \/ Unlink(v) /\ pendingDeletion'[v] = 0 /\ pendingConnections'[v] = 0

\* Both kinds of answers do that.
LEMMA AnswersAre ==
    ASSUME IInv, NEW v \in VMs, NotifyFSFormatted(v) \/ NotifyVMConnectionsClosed(v)
    PROVE  Answered(v)
  <1>1. /\ pendingDeletion \in [VMs -> Nat] /\ pendingConnections \in [VMs -> Nat]
        /\ pendingDeletion[v] > 0 \/ pendingConnections[v] > 0 => vm[v].state = "closing"
    BY DEF IInv, AnswersDue
  <1>2. CASE NotifyFSFormatted(v)
    <2>1. /\ pendingDeletion[v] > 0
          /\ pendingDeletion' = [pendingDeletion EXCEPT ![v] = @ - 1]
          /\ UNCHANGED <<nextVm, userVmData, pendingConnections>>
          /\ \/ UNCHANGED <<machine, ips, vm>>
             \/ pendingDeletion[v] = 1 /\ pendingConnections[v] = 0 /\ Unlink(v)
      BY <1>2, Zenon DEF NotifyFSFormatted
    <2>2. /\ pendingDeletion' \in [VMs -> Nat]
          /\ pendingDeletion'[v] = pendingDeletion[v] - 1
          /\ \A x \in VMs \ {v} : pendingDeletion'[x] = pendingDeletion[x]
      BY <1>1, <2>1
    <2>3. QED
      BY <1>1, <2>1, <2>2 DEF Answered
  <1>3. CASE NotifyVMConnectionsClosed(v)
    <2>1. /\ pendingConnections[v] > 0
          /\ pendingConnections' = [pendingConnections EXCEPT ![v] = @ - 1]
          /\ UNCHANGED <<nextVm, userVmData, pendingDeletion>>
          /\ \/ UNCHANGED <<machine, ips, vm>>
             \/ pendingConnections[v] = 1 /\ pendingDeletion[v] = 0 /\ Unlink(v)
      BY <1>3, Zenon DEF NotifyVMConnectionsClosed
    <2>2. /\ pendingConnections' \in [VMs -> Nat]
          /\ pendingConnections'[v] = pendingConnections[v] - 1
          /\ \A x \in VMs \ {v} : pendingConnections'[x] = pendingConnections[x]
      BY <1>1, <2>1
    <2>3. QED
      BY <1>1, <2>1, <2>2 DEF Answered
  <1>4. QED
    BY <1>2, <1>3

\* What an answer does to the machines, and to those that are on a node.
LEMMA AnswerStep ==
    ASSUME IInv, NEW v \in VMs, Answered(v)
    PROVE  /\ IInv'
           /\ \A x \in VMs : vm[x].node # NoNode /\ vm'[x].node = NoNode =>
                /\ vm[x].state = "closing"
                /\ pendingDeletion'[x] = 0 /\ pendingConnections'[x] = 0
  <1>1. CASE UNCHANGED <<machine, vm, ips>>
    <2>1. AnswersDue'
      <3>1. ASSUME NEW x \in VMs, pendingDeletion'[x] > 0 \/ pendingConnections'[x] > 0
            PROVE  vm'[x].state = "closing"
        <4>1. CASE x = v
          BY <1>1, <4>1 DEF Answered
        <4>2. CASE x # v
          <5>1. pendingDeletion[x] > 0 \/ pendingConnections[x] > 0
            BY <3>1, <4>2 DEF Answered
          <5>2. QED
            BY <1>1, <5>1 DEF IInv, AnswersDue
        <4>3. QED
          BY <4>1, <4>2
      <3>2. QED
        BY <3>1 DEF AnswersDue, Answered
    <2>2. UserDataOK'
      BY DEF IInv, UserDataOK, Answered
    <2>3. VmsOK' /\ IpsOK' /\ MachinesOK' /\ MemoryExact' /\ PoweredWhileHosting'
      BY <1>1, SameMachines DEF Answered
    <2>4. QED
      BY <1>1, <2>1, <2>2, <2>3 DEF IInv
  <1>2. CASE Unlink(v) /\ pendingDeletion'[v] = 0 /\ pendingConnections'[v] = 0
    <2>1. IInv' /\ \A x \in VMs \ {v} : vm'[x] = vm[x]
      BY <1>2, UnlinkStep DEF Answered
    <2>2. QED
      BY <1>2, <2>1 DEF Answered
  <1>3. QED
    BY <1>1, <1>2 DEF Answered

\* A request to start a machine finds a node and places it, or changes no machine.
LEMMA StartStep ==
    ASSUME IInv, NEW u \in Users, NEW t \in VmTypes, RequestStartVM(u, t)
    PROVE  IInv' /\ \A x \in VMs : vm[x].node # NoNode => vm'[x].node # NoNode
  <1>1. PICK choice :
          /\ nextVm <= MaxVMs /\ IncVirtualIP(ips[u].lastIP) # <<>>
          /\ IF choice.node = NoNode THEN UNCHANGED <<machine, ips, vm, nextVm>>
                                     ELSE Place(u, t, choice.node)
          /\ UNCHANGED <<userVmData, pendingDeletion, pendingConnections>>
    BY Zenon DEF RequestStartVM
  <1>2. CASE choice.node = NoNode
    <2>1. UNCHANGED <<machine, ips, vm, nextVm>>
      BY <1>1, <1>2
    <2>2. AnswersDue' /\ UserDataOK'
      BY <1>1, <2>1 DEF IInv, AnswersDue, UserDataOK
    <2>3. QED
      BY <2>1, <2>2, SameMachines DEF IInv
  <1>3. CASE choice.node # NoNode
    <2>1. PICK n : n = choice.node /\ n # NoNode
      BY <1>3
    <2>2. PICK v \in VMs : v = nextVm
      BY <1>1, PlacementAssumption DEF IInv, VmsOK, VMs
    <2>3. Place(u, t, n)
      BY <1>1, <2>1
    <2>4. IInv'
      BY <1>1, <2>1, <2>2, <2>3, PlaceStep
    <2>5. vm' = [vm EXCEPT ![v] = NewVM(u, t, n, AllocateVirtualIP(ips[u], n, v).lastIP)]
      BY <2>2, <2>3 DEF Place
    <2>6. \A x \in VMs : vm[x].node # NoNode => vm'[x].node # NoNode
      BY <2>1, <2>5 DEF IInv, VmsOK, NewVM
    <2>7. QED
      BY <2>4, <2>6
  <1>4. QED
    BY <1>2, <1>3
-------------------------------------------------------------------------------
(* The initial state: whatever its parameter says, a node is turned on by  *)
(* initNode first, and one that is to be off is turned off again.          *)

\* The record initManager leaves.
LEMMA InitRecord ==
    ASSUME NEW n \in ComputeNodes, NEW initial \in {"off_state", "idle"}
    PROVE  LET m == InitManager(n, initial)
           IN  /\ m \in MachineRecords
               /\ m.state = IF initial = "off_state" THEN "off_state" ELSE "off"
               /\ m.free = Capacity(n) - Charged(m.state)
               /\ m.psu = FALSE /\ m.uncharged = FALSE
  <1> DEFINE once  == [state |-> "off", free |-> Capacity(n) - MemoryOverhead,
                       psu |-> FALSE, uncharged |-> FALSE]
             twice == [state |-> "off", free |-> Capacity(n) - MemoryOverhead - MemoryOverhead,
                       psu |-> FALSE, uncharged |-> FALSE]
             never == [state |-> "off_state", free |-> Capacity(n),
                       psu |-> FALSE, uncharged |-> FALSE]
  <1>1. Capacity(n) \in Nat /\ MemoryOverhead \in Nat
    BY NodesTyped, PlacementAssumption
  <1>2. InitNode(n) = once
    BY DEF InitNode, TurnOn
  <1>3. TurnOn(once) = twice /\ TurnOff(once, Capacity(n)) = never
    BY DEF TurnOn, TurnOff
  <1>4. /\ Charged("off_state") = 0 /\ Charged("off") = MemoryOverhead + MemoryOverhead
    <2>1. Charged("off_state") = MemoryOverhead * 0 /\ Charged("off") = MemoryOverhead * 2
      BY DEF Charged
    <2>2. MemoryOverhead * 0 = 0 /\ MemoryOverhead * 2 = MemoryOverhead + MemoryOverhead
      BY <1>1
    <2>3. QED
      BY <2>1, <2>2
  <1>5. CASE initial = "off_state"
    <2>1. InitManager(n, initial) = never
      BY <1>2, <1>3, <1>5 DEF InitManager
    <2>2. never \in MachineRecords
      BY <1>1 DEF MachineRecords
    <2>3. Capacity(n) = Capacity(n) - 0
      BY <1>1
    <2>4. /\ never.state = "off_state" /\ never.free = Capacity(n)
          /\ never.psu = FALSE /\ never.uncharged = FALSE
      OBVIOUS
    <2> HIDE DEF never
    <2>5. QED
      BY <1>4, <1>5, <2>1, <2>2, <2>3, <2>4
  <1>6. CASE initial # "off_state"
    <2>1. InitManager(n, initial) = twice
      BY <1>2, <1>3, <1>6 DEF InitManager
    <2>2. twice \in MachineRecords
      BY <1>1 DEF MachineRecords
    <2>3. Capacity(n) - MemoryOverhead - MemoryOverhead = Capacity(n) - (MemoryOverhead + MemoryOverhead)
      BY <1>1
    <2>4. /\ twice.state = "off" /\ twice.free = Capacity(n) - MemoryOverhead - MemoryOverhead
          /\ twice.psu = FALSE /\ twice.uncharged = FALSE
      OBVIOUS
    <2> HIDE DEF twice
    <2>5. QED
      BY <1>4, <1>6, <2>1, <2>2, <2>3, <2>4
  <1>7. QED
    BY <1>5, <1>6

\* The invariant holds at the start.
LEMMA InitOK == Init => IInv
  <1> SUFFICES ASSUME Init PROVE IInv
    OBVIOUS
  <1>1. /\ vm = [v \in VMs |-> NoVM] /\ nextVm = 1
        /\ ips = [u \in Users |-> CreateNewUser]
        /\ userVmData = [u \in Users |-> <<>>]
        /\ pendingDeletion = [v \in VMs |-> 0] /\ pendingConnections = [v \in VMs |-> 0]
    BY Zenon DEF Init
  <1>2. PICK initial \in [0 .. MapSize - 1 -> {"off_state", "idle"}] :
          machine = [n \in ComputeNodes |-> InitManager(n, initial[n[1]])]
    BY Zenon DEF Init
  <1>3. \A v \in VMs : vm[v].node = NoNode /\ vm[v].state = "none"
    BY <1>1 DEF NoVM
  <1>4. VmsOK
    BY <1>1, <1>3 DEF VmsOK, NoVM
  <1>5. AnswersDue
    BY <1>1 DEF AnswersDue
  <1>6. UserDataOK
    <2> DEFINE R == [vm : VMs, positions : Seq(Nat)]
    <2> HIDE DEF R
    <2>1. <<>> \in Seq(R)
      OBVIOUS
    <2>2. userVmData \in [Users -> Seq(R)]
      BY <1>1, <2>1
    <2>3. QED
      BY <2>2 DEF UserDataOK, R
  <1>7. IpsOK
    <2>1. UserOK(CreateNewUser)
      <3>1. /\ CreateNewUser.lastIP = <<0, 0>> /\ CreateNewUser.cells = <<>>
        BY DEF CreateNewUser, IpBasis
      <3>2. <<0, 0>> \in Addresses /\ <<>> \in Seq({}) /\ DOMAIN <<>> = {}
        BY PlacementAssumption DEF Addresses
      <3>3. QED
        BY <3>1, <3>2 DEF UserOK
    <2>2. QED
      BY <1>1, <1>3, <2>1 DEF IpsOK
  <1>8. ASSUME NEW n \in ComputeNodes
        PROVE  machine[n] \in MachineRecords /\ NodeOK(n)
    <2>1. n # NoNode /\ Capacity(n) \in Nat
      BY NodesTyped
    <2>2. n[1] \in 0 .. MapSize - 1
      BY NodesTyped
    <2>3. PICK i \in {"off_state", "idle"} : machine[n] = InitManager(n, i)
      BY <1>2, <2>2
    <2>4. /\ machine[n] \in MachineRecords
          /\ machine[n].state \in {"off_state", "off"}
          /\ machine[n].free = Capacity(n) - Charged(machine[n].state)
          /\ machine[n].psu = FALSE
      BY <2>3, InitRecord
    <2>5. Linked(n) = {}
      BY <1>3, <2>1 DEF Linked
    <2>6. LinkedMemory(n) = 0
      <3>1. \A v \in VMs : vm[v].node # n
        BY <1>3, <2>1
      <3>2. LinkedMemory(n) = Given(vm, n)
        BY DEF LinkedMemory, Given
      <3>3. QED
        BY <3>1, <3>2, NothingShared
    <2>7. Capacity(n) - LinkedMemory(n) = Capacity(n)
      BY <2>1, <2>6
    <2>8. QED
      BY <2>4, <2>5, <2>7 DEF NodeOK
  <1>9. MachinesOK /\ MemoryExact /\ PoweredWhileHosting
    <2>1. machine = [n \in ComputeNodes |-> machine[n]]
      BY <1>2
    <2>2. MachinesOK
      BY <1>8, <2>1 DEF MachinesOK
    <2>3. NodesOK
      BY <1>8 DEF NodesOK
    <2>4. QED
      BY <2>2, <2>3, NodeByNode
  <1>10. QED
    BY <1>4, <1>5, <1>6, <1>7, <1>9 DEF IInv
-------------------------------------------------------------------------------
\* UnlinkedWhenAllAnswered, of one step.
UnlinkedWhenAnswered ==
    \A v \in VMs : vm[v].node # NoNode /\ vm'[v].node = NoNode =>
        vm[v].state = "closing" /\ pendingDeletion'[v] = 0 /\ pendingConnections'[v] = 0

\* Every step keeps the invariant, and takes off its node only a machine whose answers
\* are all in.
LEMMA StepOK == IInv /\ [Next]_vars => IInv' /\ UnlinkedWhenAnswered
  <1> SUFFICES ASSUME IInv, [Next]_vars PROVE IInv' /\ UnlinkedWhenAnswered
    OBVIOUS
  <1>1. ASSUME NEW u \in Users, NEW t \in VmTypes, RequestStartVM(u, t)
        PROVE  IInv' /\ UnlinkedWhenAnswered
    BY <1>1, StartStep DEF UnlinkedWhenAnswered
  <1>2. ASSUME NEW v \in VMs, NEW fsType \in {"NFS", "PFS"}, RequestRemoteStorage(v, fsType)
        PROVE  IInv' /\ UnlinkedWhenAnswered
    BY <1>2, StorageStep DEF UnlinkedWhenAnswered
  <1>3. ASSUME NEW v \in VMs, RequestShutdownVM(v)
        PROVE  IInv' /\ UnlinkedWhenAnswered
    BY <1>3, ShutdownStep DEF UnlinkedWhenAnswered
  <1>4. ASSUME NEW v \in VMs, NotifyFSFormatted(v) \/ NotifyVMConnectionsClosed(v)
        PROVE  IInv' /\ UnlinkedWhenAnswered
    <2>1. Answered(v)
      BY <1>4, AnswersAre
    <2>2. QED
      BY <2>1, AnswerStep DEF UnlinkedWhenAnswered
  <1>5. CASE UNCHANGED vars
    <2>1. UNCHANGED <<machine, vm, nextVm, ips, userVmData, pendingDeletion, pendingConnections>>
      BY <1>5 DEF vars
    <2>2. AnswersDue' /\ UserDataOK'
      BY <2>1 DEF IInv, AnswersDue, UserDataOK
    <2>3. QED
      BY <2>1, <2>2, SameMachines DEF IInv, UnlinkedWhenAnswered
  <1>6. QED
    BY <1>1, <1>2, <1>3, <1>4, <1>5, Zenon DEF Next

\* The invariant the theorems below follow from.
THEOREM PlacementInvariant == Spec => []IInv
  <1>1. QED
    BY InitOK, StepOK, PTL DEF Spec

\* NodeVL's account of the memory and the power of a node is right after every event,
\* for any nodes, machines and scheduler: what is free is the capacity less the machines
\* linked and the overhead, and a node has power exactly while the code says it runs.
THEOREM NodesStayExact == Spec => []NodesExact
  <1>1. IInv => NodesExact
    BY DEF IInv, NodesExact
  <1>2. QED
    BY <1>1, PlacementInvariant, PTL

\* The network manager resolves the address of every machine that is linked to its node,
\* and gives no address to two machines of a user, although it never removes a cell.
THEOREM AddressesResolve == Spec => []VirtualIPsResolve
  <1>1. IInv => VirtualIPsResolve
    BY Resolved DEF IInv
  <1>2. QED
    BY <1>1, PlacementInvariant, PTL

\* The two kinds of answers to a shutdown come in any order: whichever is last takes the
\* machine off its node, in that step.
THEOREM UnlinkedOnce == Spec => UnlinkedWhenAllAnswered
  <1>1. IInv /\ [Next]_vars => [UnlinkedWhenAnswered]_vars
    BY StepOK
  <1>2. Spec => [][UnlinkedWhenAnswered]_vars
    BY <1>1, PlacementInvariant, PTL DEF Spec
  <1>3. QED
    BY <1>2 DEF UnlinkedWhenAllAnswered, UnlinkedWhenAnswered
================================================================================
