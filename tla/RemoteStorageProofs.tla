-------------------------- MODULE RemoteStorageProofs --------------------------
(* That a message in the network of the data centre reaches the job it is  *)
(* for, that the three tables of a node agree, and that an operation on    *)
(* remote storage is answered once, after all of its parts: for every      *)
(* number of nodes, machines, users and jobs.                              *)
EXTENDS RemoteStorage, DataProofs, FiniteSetTheorems

\* A function on D, a sequence, whatever their values are.
IsFun(f, D) == f = [x \in D |-> f[x]]
IsSeq(s) == s \in Seq(Range(s))

-------------------------------------------------------------------------------
(* The tables of the nodes.                                                *)

\* An entry of a machine's cell.
IsEntry(e) == e = [real |-> e.real, virtual |-> e.virtual, id |-> e.id]

Shapes ==
    /\ IsFun(ports, Nodes) /\ IsFun(virtualPorts, Nodes) /\ IsFun(listening, Nodes)
    /\ \A n \in Nodes : /\ IsSeq(virtualPorts[n]) /\ IsSeq(listening[n])
                        /\ IsFun(ports[n], Machines)
    /\ \A n \in Nodes, m \in Machines :
          IsSeq(ports[n][m]) /\ \A e \in Range(ports[n][m]) : IsEntry(e)

\* No port of a node has two listeners.
ListenedOnce(n) ==
    \A i, j \in DOMAIN listening[n] : listening[n][i].port = listening[n][j].port => i = j

\* A job of machine m listens at a port of node n; at the machine's own node it is a
\* server, and v its virtual port.
Listener(n, port, m, v) ==
    \E l \in Range(listening[n]) :
        /\ l.port = port /\ l.app \in Servers \cup Jobs /\ MachineOf[l.app] = m
        /\ n = HostOf[m] => l.app \in Servers /\ PortOf[l.app] = v

\* A row for a machine has the entry of the machine's cell and a listener behind it.
RowRight(n, t) ==
    t.vm \in Machines =>
        /\ t.user = UserOf[t.vm]
        /\ \E e \in Range(ports[n][t.vm]) : e.real = t.real /\ e.virtual = t.virtual
        /\ Listener(n, t.real, t.vm, t.virtual)

Tables ==
    /\ Shapes
    /\ \A n \in Nodes : ListenedOnce(n) /\ \A t \in Range(virtualPorts[n]) : RowRight(n, t)

-------------------------------------------------------------------------------
(* The connections of the clients.                                         *)

IsConnection(k) == k = [status |-> k.status, local |-> k.local, node |-> k.node, remote |-> k.remote]

\* The machine a client asked for.
Asked(c, m) == UserOf[m] = UserOf[Origin(c)] /\ VipOf[m] = AddressOf[c]

\* The connection of a client ends at the server it asked for.
Bound(c) ==
    /\ connection[c].node \in Nodes
    /\ \E m \in Machines : /\ HostOf[m] = connection[c].node /\ Asked(c, m)
                           /\ Listener(connection[c].node, connection[c].remote, m, PortOf[c])

Phases == {"idle", "listening", "asking", "connecting", "connected", "sent", "delivered",
           "done", "port not open"}

ClientsRight ==
    /\ attached \subseteq Machines
    /\ phase \in [Servers \cup Clients \cup Jobs -> Phases]
    /\ IsFun(connection, Requests) /\ \A r \in Requests : IsConnection(connection[r])
    /\ \A c \in Clients :
          /\ connection[c].status = "opening" \/ phase[c] \in {"connected", "sent"} => Bound(c)
          /\ c \in apps /\ phase[c] = "idle" =>
                \A m \in Machines : UserOf[m] = UserOf[MachineOf[c]] => m \in attached

\* What is asked of the storage cells and waits for them are jobs of their machines.
AskingRight ==
    /\ asking \in [Machines -> Seq(StorageConnections)]
    /\ connecting \in [Machines -> Seq(Jobs)]
    /\ IsFun(replicas, Machines) /\ \A m \in Machines : IsSeq(replicas[m])
    /\ \A m \in Machines : \A i \in DOMAIN asking[m] : Origin(asking[m][i]) = m

NetInv == Tables /\ ClientsRight /\ AskingRight /\ DeliveredToAddressee
-------------------------------------------------------------------------------
(* Sequences.                                                              *)

\* Appending an element.
LEMMA AppendRange ==
    ASSUME NEW s, IsSeq(s), NEW e
    PROVE  /\ IsSeq(Append(s, e)) /\ Range(Append(s, e)) = Range(s) \cup {e}
           /\ DOMAIN s = 1 .. Len(s) /\ Len(s) \in Nat
           /\ DOMAIN Append(s, e) = 1 .. Len(s) + 1 /\ Append(s, e)[Len(s) + 1] = e
           /\ \A i \in DOMAIN s : Append(s, e)[i] = s[i]
  <1>1. PICK n \in Nat : n = Len(s) /\ DOMAIN s = 1 .. n
    BY DEF IsSeq
  <1> DEFINE T == Range(s) \cup {e}
  <1>2. s \in Seq(T)
    <2>1. \A i \in 1 .. n : s[i] \in T
      BY <1>1 DEF Range
    <2>2. s \in Seq(Range(s))
      BY DEF IsSeq
    <2>3. s = [i \in 1 .. n |-> s[i]]
      BY <1>1, <2>2
    <2>4. QED
      BY <2>1, <2>3
  <1>3. PICK t \in Seq(T) : t = Append(s, e)
    BY <1>2, AppendProperties
  <1>4. /\ DOMAIN t = 1 .. n + 1 /\ t[n + 1] = e
        /\ \A i \in 1 .. n : t[i] = s[i]
    BY <1>1, <1>2, <1>3, AppendProperties
  <1>5. Range(t) = T
    BY <1>1, <1>4 DEF Range
  <1>6. QED
    BY <1>1, <1>3, <1>4, <1>5 DEF IsSeq

\* What a filter keeps.
LEMMA FilterRange ==
    ASSUME NEW s, IsSeq(s), NEW S
    PROVE  IsSeq(Filter(s, S)) /\ Range(Filter(s, S)) = Range(s) \cap S
  <1>0. PICK n \in Nat : n = Len(s) /\ DOMAIN s = 1 .. n
    BY DEF IsSeq
  <1> DEFINE T == Range(s)
  <1>1. PICK f : Filtered(f, s, S, T, n) /\ Filter(s, S) = f[n]
    BY <1>0, FilterIsFiltered DEF IsSeq
  <1> DEFINE Before(k) == {s[i] : i \in 1 .. k}
             Good(k) == IsSeq(f[k]) /\ Range(f[k]) = Before(k) \cap S
             Bad == {k \in 0 .. n : ~ Good(k)}
  <1>2. Bad = {}
    <2> SUFFICES ASSUME Bad # {} PROVE FALSE
      OBVIOUS
    <2>1. Bad \in SUBSET Nat
      OBVIOUS
    <2>2. PICK m \in Bad : \A y \in Bad : m <= y
      BY <2>1, LeastNat
    <2>3. m # 0
      <3>1. f[0] = <<>> /\ Before(0) = {}
        BY <1>1 DEF Filtered
      <3>2. IsSeq(<<>>) /\ Range(<<>>) = {}
        BY DEF IsSeq, Range
      <3>3. Good(0)
        BY <3>1, <3>2
      <3>4. QED
        BY <2>2, <3>3
    <2>4. m \in 1 .. n /\ m - 1 \in 0 .. n /\ ~ (m <= m - 1) /\ m \in 0 .. n
      BY <2>3
    <2>5. Good(m - 1)
      BY <2>2, <2>4
    <2>6. Before(m) = Before(m - 1) \cup {s[m]}
      <3>1. 1 .. m = (1 .. m - 1) \cup {m}
        BY <2>4
      <3>2. QED
        BY <3>1
    <2>7. f[m] = IF s[m] \in S THEN Append(f[m - 1], s[m]) ELSE f[m - 1]
      BY <1>1, <2>4 DEF Filtered
    <2> HIDE DEF Before
    <2>8. CASE s[m] \in S
      <3>1. Good(m)
        BY <2>5, <2>6, <2>7, <2>8, AppendRange
      <3>2. QED
        BY <2>2, <3>1
    <2>9. CASE s[m] \notin S
      BY <2>2, <2>5, <2>6, <2>7, <2>9
    <2>10. QED
      BY <2>8, <2>9
  <1>3. Good(n)
    <2> HIDE DEF Good
    <2>1. n \in 0 .. n
      OBVIOUS
    <2>2. QED
      BY <1>2, <2>1
  <1>4. Range(s) = Before(n)
    BY <1>0 DEF Range
  <1>5. QED
    BY <1>1, <1>3, <1>4

\* The first position that a search finds.
LEMMA MinIn ==
    ASSUME NEW I \in SUBSET Nat, I # {}
    PROVE  Min(I) \in I /\ \A x \in I : Min(I) <= x
  BY LeastNat DEF Min

-------------------------------------------------------------------------------
(* What the operations of the network manager do to the tables.            *)

\* The facts about the constants that the proofs use.
LEMMA Constants ==
    /\ HostOf \in [Machines -> Nodes]
    /\ MachineOf \in [Servers \cup Clients \cup Jobs -> Machines]
    /\ \A m \in Machines : UserOf[m] \notin Machines
    /\ \A m, o \in Machines : UserOf[m] = UserOf[o] /\ VipOf[m] = VipOf[o] => m = o
    /\ Servers \cap Clients = {} /\ Clients \cap Jobs = {} /\ Jobs \cap Servers = {}
    /\ Clients \cap StorageConnections = {}
    /\ \A r \in Requests : Owner(r) \in Clients \cup Jobs /\ Origin(r) \in Machines /\ NodeOf(r) \in Nodes
    /\ \A r \in StorageConnections : r[1] \in Jobs /\ r[2] \in Nodes /\ Origin(r) = MachineOf[r[1]]
    /\ \A j \in Jobs : /\ TargetsOf[j] \in Seq(Nodes)
                       /\ \A i \in DOMAIN TargetsOf[j] : <<j, TargetsOf[j][i]>> \in StorageConnections
                       /\ HostOf[MachineOf[j]] \notin Range(TargetsOf[j])
  <1>1. \A r \in StorageConnections : r[1] \in Jobs /\ r[2] \in Nodes
    BY StorageAssumption DEF StorageAssumption, Range
  <1>2. \A r \in Requests : Owner(r) \in Clients \cup Jobs
    BY <1>1 DEF Owner, Requests
  <1>3. \A r \in Requests : Origin(r) \in Machines /\ NodeOf(r) \in Nodes
    BY <1>2, NetworkAssumption DEF Origin, NodeOf, NetworkAssumption
  <1>4. \A r \in StorageConnections : Origin(r) = MachineOf[r[1]]
    BY NetworkAssumption DEF Origin, Owner, NetworkAssumption
  <1>5. \A j \in Jobs : \A i \in DOMAIN TargetsOf[j] : <<j, TargetsOf[j][i]>> \in StorageConnections
    BY StorageAssumption DEF StorageAssumption, Range
  <1>6. \A j \in Jobs : TargetsOf[j] \in Seq(Nodes) /\ HostOf[MachineOf[j]] \notin Range(TargetsOf[j])
    BY StorageAssumption DEF StorageAssumption
  <1>7. QED
    BY <1>1, <1>2, <1>3, <1>4, <1>5, <1>6, NetworkAssumption DEF NetworkAssumption

\* Listeners are never removed.
Grows == \A n \in Nodes : Range(listening[n]) \subseteq Range(listening'[n])

\* A listener stays one.
LEMMA ListenerStays ==
    ASSUME Grows, NEW n \in Nodes, NEW port, NEW m, NEW v, Listener(n, port, m, v)
    PROVE  Listener(n, port, m, v)'
  BY DEF Grows, Listener

\* Listens keeps the tables right: the new row, entry and listener have the same port,
\* and nobody listened there.
LEMMA TablesListen ==
    ASSUME Tables, NEW at \in SUBSET Nodes, NEW m \in Machines, NEW v, NEW a \in Servers \cup Jobs,
           MachineOf[a] = m, HostOf[m] \in at => a \in Servers /\ PortOf[a] = v,
           Listens(at, m, v, a)
    PROVE  Tables' /\ Grows /\ UNCHANGED <<attached, connection, delivered>>
  <1>1. CASE UNCHANGED network
    BY <1>1 DEF network, pat, Tables, Shapes, ListenedOnce, RowRight, Listener, Grows
  <1>2. CASE ~ UNCHANGED network
    <2> DEFINE p(n) == NewPort(n)
               l(n) == [port |-> p(n), app |-> a]
               t(n) == Row(v, p(n), m, UserOf[m])
               e(n) == [real |-> p(n), virtual |-> v, id |-> NULL]
    <2>1. \A n \in at : p(n) \notin ListeningPorts(n)
      BY <1>2 DEF Listens
    <2>2. /\ ports' = [n \in Nodes |-> IF n \in at
                          THEN [ports[n] EXCEPT ![m] = Append(ports[n][m], e(n))] ELSE ports[n]]
          /\ virtualPorts' = [n \in Nodes |-> IF n \in at THEN Append(virtualPorts[n], t(n))
                                              ELSE virtualPorts[n]]
          /\ listening' = [n \in Nodes |-> IF n \in at THEN Append(listening[n], l(n))
                                           ELSE listening[n]]
          /\ UNCHANGED <<attached, connection, delivered>>
      BY <1>2 DEF Listens
    <2> HIDE DEF p
    <2>3. ASSUME NEW n \in Nodes, n \notin at
          PROVE  /\ ports'[n] = ports[n] /\ virtualPorts'[n] = virtualPorts[n]
                 /\ listening'[n] = listening[n]
      BY <2>2, <2>3
    <2>4. ASSUME NEW n \in at
          PROVE  /\ IsSeq(listening'[n]) /\ Range(listening'[n]) = Range(listening[n]) \cup {l(n)}
                 /\ ListenedOnce(n)'
      <3>1. IsSeq(listening[n]) /\ ListenedOnce(n) /\ listening'[n] = Append(listening[n], l(n))
        BY <2>2, <2>4 DEF Tables, Shapes
      <3> DEFINE s == listening[n]
      <3>2. /\ IsSeq(listening'[n]) /\ Range(listening'[n]) = Range(s) \cup {l(n)}
            /\ DOMAIN s = 1 .. Len(s) /\ Len(s) \in Nat
            /\ DOMAIN listening'[n] = 1 .. Len(s) + 1 /\ listening'[n][Len(s) + 1] = l(n)
            /\ \A i \in DOMAIN s : listening'[n][i] = s[i]
        BY <3>1, AppendRange
      <3>3. \A i \in DOMAIN s : s[i].port # p(n)
        BY <2>1 DEF ListeningPorts
      <3>4. l(n).port = p(n)
        OBVIOUS
      <3> HIDE DEF l
      <3>5. ListenedOnce(n)'
        <4> SUFFICES ASSUME NEW i \in 1 .. Len(s) + 1, NEW k \in 1 .. Len(s) + 1,
                            listening'[n][i].port = listening'[n][k].port
                     PROVE  i = k
          BY <3>2 DEF ListenedOnce
        <4>1. i \in 1 .. Len(s) \/ i = Len(s) + 1
          BY <3>2
        <4>2. k \in 1 .. Len(s) \/ k = Len(s) + 1
          BY <3>2
        <4>3. QED
          BY <4>1, <4>2, <3>1, <3>2, <3>3, <3>4 DEF ListenedOnce
      <3>6. QED
        BY <3>2, <3>5
    <2>5. Grows
      BY <2>3, <2>4 DEF Grows
    <2>6. ASSUME NEW n \in at
          PROVE  /\ IsSeq(virtualPorts'[n])
                 /\ Range(virtualPorts'[n]) = Range(virtualPorts[n]) \cup {t(n)}
      <3>1. IsSeq(virtualPorts[n]) /\ virtualPorts'[n] = Append(virtualPorts[n], t(n))
        BY <2>2, <2>6 DEF Tables, Shapes
      <3>2. QED
        BY <3>1, AppendRange
    <2>7. ASSUME NEW n \in Nodes
          PROVE  /\ IsFun(ports'[n], Machines)
                 /\ \A o \in Machines : /\ IsSeq(ports'[n][o])
                                        /\ Range(ports[n][o]) \subseteq Range(ports'[n][o])
                                        /\ \A x \in Range(ports'[n][o]) : IsEntry(x)
                 /\ n \in at => e(n) \in Range(ports'[n][m])
      <3>1. IsFun(ports[n], Machines) /\ \A o \in Machines : IsSeq(ports[n][o])
        BY DEF Tables, Shapes
      <3>2. CASE n \in at
        <4>1. ports'[n] = [ports[n] EXCEPT ![m] = Append(ports[n][m], e(n))]
          BY <2>2, <3>2
        <4>2. /\ ports'[n][m] = Append(ports[n][m], e(n))
              /\ \A o \in Machines : o # m => ports'[n][o] = ports[n][o]
              /\ IsFun(ports'[n], Machines)
          BY <3>1, <4>1 DEF IsFun
        <4>3. IsSeq(ports'[n][m]) /\ Range(ports'[n][m]) = Range(ports[n][m]) \cup {e(n)}
          BY <3>1, <4>2, AppendRange
        <4>4. IsEntry(e(n)) /\ \A o \in Machines : \A x \in Range(ports[n][o]) : IsEntry(x)
          BY DEF IsEntry, Tables, Shapes
        <4>5. QED
          BY <3>1, <4>2, <4>3, <4>4
      <3>3. CASE n \notin at
        BY <2>3, <3>1, <3>3 DEF Tables, Shapes
      <3>4. QED
        BY <3>2, <3>3
    <2>8. Shapes'
      <3>1. IsFun(ports', Nodes) /\ IsFun(virtualPorts', Nodes) /\ IsFun(listening', Nodes)
        BY <2>2 DEF IsFun
      <3>2. \A n \in Nodes : IsSeq(virtualPorts'[n]) /\ IsSeq(listening'[n])
        BY <2>3, <2>4, <2>6 DEF Tables, Shapes
      <3>3. QED
        BY <2>7, <3>1, <3>2 DEF Shapes
    <2>9. ASSUME NEW n \in Nodes, NEW x \in Range(virtualPorts[n])
          PROVE  RowRight(n, x)'
      <3>1. RowRight(n, x)
        BY DEF Tables
      <3>2. CASE x.vm \in Machines
        <4>1. Listener(n, x.real, x.vm, x.virtual)'
          BY <2>5, <3>1, <3>2, ListenerStays DEF RowRight
        <4>2. \E y \in Range(ports'[n][x.vm]) : y.real = x.real /\ y.virtual = x.virtual
          BY <2>7, <3>1, <3>2 DEF RowRight
        <4>3. QED
          BY <3>1, <3>2, <4>1, <4>2 DEF RowRight
      <3>3. QED
        BY <3>2 DEF RowRight
    <2>10. ASSUME NEW n \in at, NEW x, x = t(n)
           PROVE  RowRight(n, x)'
      <3>1. /\ x.vm = m /\ x.user = UserOf[m] /\ x.real = p(n) /\ x.virtual = v
            /\ e(n).real = p(n) /\ e(n).virtual = v /\ l(n).port = p(n) /\ l(n).app = a
        BY <2>10 DEF Row
      <3>2. e(n) \in Range(ports'[n][m]) /\ l(n) \in Range(listening'[n])
        BY <2>4, <2>7, <2>10
      <3>3. Listener(n, x.real, m, v)'
        BY <3>1, <3>2 DEF Listener
      <3> HIDE DEF t, e, l
      <3>4. QED
        BY <3>1, <3>2, <3>3 DEF RowRight
    <2>11. QED
      <3>1. \A n \in Nodes : ListenedOnce(n)'
        BY <2>3, <2>4 DEF ListenedOnce, Tables
      <3>2. ASSUME NEW n \in Nodes, NEW x \in Range(virtualPorts'[n]) PROVE RowRight(n, x)'
        BY <2>3, <2>6, <2>9, <2>10, <3>2
      <3>3. QED
        BY <2>2, <2>5, <2>8, <3>1, <3>2 DEF Tables
  <1>3. QED
    BY <1>1, <1>2

\* A connection that is established adds an entry, and a row that is for no machine.
LEMMA TablesStablished ==
    ASSUME Tables, NEW r \in Requests, NEW local, NEW id,
           ConnectionStablished(r, local, id), UNCHANGED listening
    PROVE  Tables' /\ Grows
  <1>1. PICK n \in Nodes, m \in Machines : n = NodeOf(r) /\ m = Origin(r)
    BY Constants
  <1> DEFINE new == [real |-> local, virtual |-> local, id |-> NULL]
             entries == Append(ports[n][m], new)
             first == SelectInSeq(entries, LAMBDA e : e.real = local)
             changed == [entries EXCEPT ![first].id = id]
             t == Row(local, local, UserOf[m], m)
  <1>2. /\ ports' = [ports EXCEPT ![n][m] = changed]
        /\ virtualPorts' = [virtualPorts EXCEPT ![n] = Append(@, t)]
    BY <1>1 DEF ConnectionStablished
  <1> HIDE DEF first
  <1>3. /\ IsFun(ports, Nodes) /\ IsFun(virtualPorts, Nodes) /\ IsFun(listening, Nodes)
        /\ IsFun(ports[n], Machines) /\ IsSeq(ports[n][m]) /\ IsSeq(virtualPorts[n])
        /\ \A e \in Range(ports[n][m]) : IsEntry(e)
    BY DEF Tables, Shapes
  <1>4. /\ IsFun(ports', Nodes) /\ IsFun(virtualPorts', Nodes) /\ IsFun(ports'[n], Machines)
        /\ ports'[n][m] = changed /\ virtualPorts'[n] = Append(virtualPorts[n], t)
        /\ \A k \in Nodes : k # n => ports'[k] = ports[k] /\ virtualPorts'[k] = virtualPorts[k]
        /\ \A o \in Machines : o # m => ports'[n][o] = ports[n][o]
    <2> HIDE DEF changed, t
    <2>1. /\ ports' = [k \in Nodes |-> IF k = n THEN [ports[n] EXCEPT ![m] = changed] ELSE ports[k]]
          /\ virtualPorts' = [k \in Nodes |-> IF k = n THEN Append(virtualPorts[n], t) ELSE virtualPorts[k]]
      BY <1>2, <1>3 DEF IsFun
    <2>2. ports'[n] = [o \in Machines |-> IF o = m THEN changed ELSE ports[n][o]]
      BY <1>3, <2>1 DEF IsFun
    <2>3. QED
      BY <2>1, <2>2 DEF IsFun
  <1>5. /\ IsSeq(entries) /\ Range(entries) = Range(ports[n][m]) \cup {new}
        /\ DOMAIN entries = 1 .. Len(ports[n][m]) + 1 /\ Len(ports[n][m]) \in Nat
    BY <1>3, AppendRange
  <1>6. \A i \in DOMAIN entries : IsEntry(entries[i])
    <2>1. IsEntry(new)
      BY DEF IsEntry
    <2>2. QED
      BY <1>3, <1>5, <2>1 DEF Range
  <1> HIDE DEF new
  <1>7. /\ DOMAIN changed = DOMAIN entries
        /\ \A i \in DOMAIN entries :
              changed[i] = IF i = first THEN [entries[i] EXCEPT !.id = id] ELSE entries[i]
    OBVIOUS
  <1>8. \A i \in DOMAIN entries : /\ changed[i].real = entries[i].real
                                  /\ changed[i].virtual = entries[i].virtual
                                  /\ IsEntry(changed[i])
    <2> TAKE i \in DOMAIN entries
    <2>1. entries[i] = [real |-> entries[i].real, virtual |-> entries[i].virtual, id |-> entries[i].id]
      BY <1>6 DEF IsEntry
    <2>2. CASE i = first
      <3>1. changed[i] = [entries[i] EXCEPT !.id = id]
        BY <1>7, <2>2
      <3>2. changed[i] = [real |-> entries[i].real, virtual |-> entries[i].virtual, id |-> id]
        BY <2>1, <3>1
      <3> HIDE DEF changed, entries
      <3>3. QED
        BY <3>2 DEF IsEntry
    <2>3. CASE i # first
      BY <1>6, <1>7, <2>3
    <2>4. QED
      BY <2>2, <2>3
  <1> HIDE DEF entries
  <1>9. IsSeq(changed)
    <2>1. changed = [i \in 1 .. Len(ports[n][m]) + 1 |-> changed[i]]
      BY <1>5, <1>7
    <2> HIDE DEF changed
    <2>2. \A i \in 1 .. Len(ports[n][m]) + 1 : changed[i] \in Range(changed)
      BY <1>5, <1>7 DEF Range
    <2>3. QED
      BY <1>5, <2>1, <2>2 DEF IsSeq
  <1> HIDE DEF changed
  <1>10. \A x \in Range(ports[n][m]) : \E y \in Range(changed) : y.real = x.real /\ y.virtual = x.virtual
    BY <1>5, <1>7, <1>8 DEF Range
  <1>11. IsSeq(virtualPorts'[n]) /\ Range(virtualPorts'[n]) = Range(virtualPorts[n]) \cup {t}
    BY <1>3, <1>4, AppendRange
  <1>12. t.vm \notin Machines
    BY Constants DEF Row
  <1> HIDE DEF t
  <1>13. Grows
    BY DEF Grows
  <1>14. Shapes'
    <2>1. \A k \in Nodes : IsSeq(virtualPorts'[k]) /\ IsSeq(listening'[k]) /\ IsFun(ports'[k], Machines)
      BY <1>4, <1>11 DEF Tables, Shapes
    <2>2. \A k \in Nodes, o \in Machines : IsSeq(ports'[k][o])
                                           /\ \A e \in Range(ports'[k][o]) : IsEntry(e)
      <3>1. \A e \in Range(changed) : IsEntry(e)
        BY <1>7, <1>8 DEF Range
      <3>2. QED
        BY <1>4, <1>9, <3>1 DEF Tables, Shapes
    <2>3. QED
      BY <1>3, <1>4, <2>1, <2>2 DEF Shapes
  <1>15. ASSUME NEW k \in Nodes, NEW x \in Range(virtualPorts'[k]) PROVE RowRight(k, x)'
    <2>1. CASE x \in Range(virtualPorts[k])
      <3>1. RowRight(k, x)
        BY <2>1 DEF Tables
      <3>2. \A o \in Machines : \A y \in Range(ports[k][o]) :
               \E z \in Range(ports'[k][o]) : z.real = y.real /\ z.virtual = y.virtual
        BY <1>4, <1>10
      <3>3. CASE x.vm \in Machines
        <4>1. Listener(k, x.real, x.vm, x.virtual)'
          BY <1>13, <3>1, <3>3, ListenerStays DEF RowRight
        <4>2. \E z \in Range(ports'[k][x.vm]) : z.real = x.real /\ z.virtual = x.virtual
          BY <3>1, <3>2, <3>3 DEF RowRight
        <4>3. QED
          BY <3>1, <3>3, <4>1, <4>2 DEF RowRight
      <3>4. QED
        BY <3>3 DEF RowRight
    <2>2. CASE x \notin Range(virtualPorts[k])
      <3>1. x = t
        BY <1>4, <1>11, <1>15, <2>2
      <3>2. QED
        BY <1>12, <3>1 DEF RowRight
    <2>3. QED
      BY <2>1, <2>2
  <1>16. \A k \in Nodes : ListenedOnce(k)'
    BY DEF ListenedOnce, Tables
  <1>17. QED
    BY <1>13, <1>14, <1>15, <1>16 DEF Tables

\* A machine's rows go with its entries when its connections are closed.
LEMMA TablesClose ==
    ASSUME Tables, NEW at \in SUBSET Nodes, NEW m \in Machines, CloseConnections(at, m)
    PROVE  /\ Tables' /\ Grows /\ UNCHANGED delivered
           /\ attached' \in {attached, attached \ {m}}
           /\ \A r \in Requests : connection'[r] \in {connection[r], [connection[r] EXCEPT !.status = "closed"]}
           /\ IsFun(connection, Requests) => IsFun(connection', Requests)
  <1>1. CASE UNCHANGED network
    BY <1>1 DEF network, pat, Tables, Shapes, ListenedOnce, RowRight, Listener, Grows
  <1>2. CASE ~ UNCHANGED network
    <2> DEFINE rest(n) == {t \in Range(virtualPorts[n]) : ~(t.vm = m /\ t.user = UserOf[m])}
               closed == {e.id : e \in UNION {Range(Connected(n, m)) : n \in at}}
    <2>1. /\ attached' = attached \ {m}
          /\ virtualPorts' = [n \in Nodes |-> IF n \in at THEN Filter(virtualPorts[n], rest(n))
                                              ELSE virtualPorts[n]]
          /\ ports' = [n \in Nodes |-> IF n \in at THEN [ports[n] EXCEPT ![m] = <<>>] ELSE ports[n]]
          /\ connection' = [r \in Requests |->
                IF r \in closed THEN [connection[r] EXCEPT !.status = "closed"] ELSE connection[r]]
          /\ UNCHANGED <<listening, delivered>>
      BY <1>2 DEF CloseConnections
    <2> HIDE DEF closed
    <2>2. Grows
      BY <2>1 DEF Grows
    <2>3. ASSUME NEW n \in Nodes
          PROVE  /\ IsSeq(virtualPorts'[n]) /\ Range(virtualPorts'[n]) \subseteq Range(virtualPorts[n])
                 /\ n \in at => \A t \in Range(virtualPorts'[n]) : ~(t.vm = m /\ t.user = UserOf[m])
      <3>1. IsSeq(virtualPorts[n])
        BY DEF Tables, Shapes
      <3>2. CASE n \in at
        <4>1. virtualPorts'[n] = Filter(virtualPorts[n], rest(n))
          BY <2>1, <3>2
        <4>2. IsSeq(virtualPorts'[n]) /\ Range(virtualPorts'[n]) = Range(virtualPorts[n]) \cap rest(n)
          BY <3>1, <4>1, FilterRange
        <4>3. QED
          BY <4>2
      <3>3. CASE n \notin at
        BY <2>1, <3>1, <3>3
      <3>4. QED
        BY <3>2, <3>3
    <2>4. ASSUME NEW n \in Nodes
          PROVE  /\ IsFun(ports'[n], Machines)
                 /\ \A o \in Machines : ports'[n][o] = IF n \in at /\ o = m THEN <<>> ELSE ports[n][o]
      <3>1. IsFun(ports[n], Machines)
        BY DEF Tables, Shapes
      <3>2. QED
        BY <2>1, <3>1 DEF IsFun
    <2>5. Shapes'
      <3>1. IsFun(ports', Nodes) /\ IsFun(virtualPorts', Nodes) /\ IsFun(listening', Nodes)
        BY <2>1 DEF IsFun, Tables, Shapes
      <3>2. IsSeq(<<>>) /\ Range(<<>>) = {}
        BY DEF IsSeq, Range
      <3>3. \A n \in Nodes, o \in Machines : IsSeq(ports'[n][o]) /\ \A e \in Range(ports'[n][o]) : IsEntry(e)
        BY <2>4, <3>2 DEF Tables, Shapes
      <3>4. \A n \in Nodes : IsSeq(listening'[n])
        BY <2>1 DEF Tables, Shapes
      <3>5. QED
        BY <2>3, <2>4, <3>1, <3>3, <3>4 DEF Shapes
    <2>6. ASSUME NEW n \in Nodes, NEW x \in Range(virtualPorts'[n]) PROVE RowRight(n, x)'
      <3>1. RowRight(n, x)
        BY <2>3, <2>6 DEF Tables
      <3>2. CASE x.vm \in Machines
        <4>1. ~(n \in at /\ x.vm = m)
          BY <2>3, <2>6, <3>1, <3>2 DEF RowRight
        <4>2. ports'[n][x.vm] = ports[n][x.vm]
          BY <2>4, <3>2, <4>1
        <4>3. Listener(n, x.real, x.vm, x.virtual)'
          BY <2>2, <3>1, <3>2, ListenerStays DEF RowRight
        <4>4. QED
          BY <3>1, <3>2, <4>2, <4>3 DEF RowRight
      <3>3. QED
        BY <3>2 DEF RowRight
    <2>7. \A n \in Nodes : ListenedOnce(n)'
      BY <2>1 DEF ListenedOnce, Tables
    <2>8. \A r \in Requests : connection'[r] \in {connection[r], [connection[r] EXCEPT !.status = "closed"]}
      BY <2>1
    <2>9. IsFun(connection', Requests)
      BY <2>1 DEF IsFun
    <2>10. QED
      BY <2>1, <2>2, <2>5, <2>6, <2>7, <2>8, <2>9 DEF Tables
  <1>3. QED
    BY <1>1, <1>2

-------------------------------------------------------------------------------
(* Clients and their connections.                                          *)

\* The port table gives the port of a row.
LEMMA RealPortFound ==
    ASSUME Tables, NEW n \in Nodes, NEW m, NEW v, RealPort(n, v, m) # NULL
    PROVE  \E t \in Range(virtualPorts[n]) : t.virtual = v /\ t.vm = m /\ t.real = RealPort(n, v, m)
  <1> DEFINE s == virtualPorts[n]
             I == {i \in 1 .. Len(s) : s[i].virtual = v /\ s[i].vm = m /\ s[i].user = UserOf[m]}
             first == SelectInSeq(s, LAMBDA t : t.virtual = v /\ t.vm = m /\ t.user = UserOf[m])
  <1>1. IsSeq(s)
    BY DEF Tables, Shapes
  <1>2. DOMAIN s = 1 .. Len(s) /\ Len(s) \in Nat
    BY <1>1 DEF IsSeq
  <1>3. first = IF I # {} THEN Min(I) ELSE 0
    BY DEF SelectInSeq
  <1>4. RealPort(n, v, m) = IF first = 0 THEN NULL ELSE s[first].real
    BY DEF RealPort
  <1> HIDE DEF first
  <1>5. I # {} => Min(I) \in I
    <2>1. I \in SUBSET Nat
      BY <1>2
    <2> HIDE DEF I
    <2>2. QED
      BY <2>1, MinIn
  <1>6. first \in I
    BY <1>3, <1>4, <1>5
  <1>7. s[first] \in Range(s)
    BY <1>2, <1>6 DEF Range
  <1>8. QED
    BY <1>4, <1>6, <1>7

\* A client is sent to the server it asked for.
LEMMA DestinationFound ==
    ASSUME Tables, ClientsRight, NEW c \in Clients, c \in apps, phase[c] = "idle",
           Destination(c) # NULL
    PROVE  \E m \in Machines : /\ Asked(c, m) /\ Destination(c)[1] = HostOf[m]
                               /\ Listener(HostOf[m], Destination(c)[2], m, PortOf[c])
  <1> DEFINE A == Addressed(UserOf[Origin(c)], AddressOf[c])
             m == CHOOSE x \in A : TRUE
             real == RealPort(HostOf[m], PortOf[c], m)
  <1>1. Origin(c) = MachineOf[c]
    BY DEF Origin, Owner
  <1>2. PICK o \in Machines : UserOf[o] = UserOf[MachineOf[c]] /\ VipOf[o] = AddressOf[c]
    BY NetworkAssumption DEF NetworkAssumption
  <1>3. o \in A
    BY <1>1, <1>2 DEF ClientsRight, Addressed
  <1>4. m \in A
    BY <1>3
  <1>5. m \in Machines /\ Asked(c, m)
    BY <1>4 DEF Addressed, Asked, ClientsRight
  <1>6. Destination(c) = IF real = NULL THEN NULL ELSE <<HostOf[m], real>>
    BY DEF Destination
  <1> HIDE DEF m
  <1>7. real # NULL /\ Destination(c)[1] = HostOf[m] /\ Destination(c)[2] = real
    BY <1>6
  <1>8. HostOf[m] \in Nodes
    BY <1>5, Constants
  <1>9. PICK t \in Range(virtualPorts[HostOf[m]]) : t.virtual = PortOf[c] /\ t.vm = m /\ t.real = real
    BY <1>7, <1>8, RealPortFound
  <1>10. RowRight(HostOf[m], t)
    BY <1>8 DEF Tables
  <1>11. Listener(HostOf[m], real, m, PortOf[c])
    BY <1>5, <1>9, <1>10 DEF RowRight
  <1>12. QED
    BY <1>5, <1>7, <1>11

\* What a connection is bound to does not change.
LEMMA BoundStays ==
    ASSUME Grows, NEW c \in Clients, Bound(c),
           connection'[c].node = connection[c].node, connection'[c].remote = connection[c].remote
    PROVE  Bound(c)'
  <1>2. PICK m \in Machines : /\ HostOf[m] = connection[c].node /\ Asked(c, m)
                              /\ Listener(connection[c].node, connection[c].remote, m, PortOf[c])
    BY DEF Bound
  <1>3. Listener(connection[c].node, connection[c].remote, m, PortOf[c])'
    <2>1. PICK n, p : n \in Nodes /\ n = connection[c].node /\ p = connection[c].remote
      BY DEF Bound
    <2>2. Listener(n, p, m, PortOf[c])'
      BY <1>2, <2>1, ListenerStays
    <2>3. QED
      BY <2>1, <2>2 DEF Listener
  <1>4. QED
    BY <1>2, <1>3 DEF Bound, Asked

\* The connections of a step that makes none.
SameConnections ==
    /\ IsFun(connection', Requests)
    /\ \A r \in Requests :
          /\ IsConnection(connection'[r])
          /\ connection'[r].node = connection[r].node /\ connection'[r].remote = connection[r].remote
          /\ connection'[r].status = "opening" => connection[r].status = "opening"

\* Changing the status of a connection makes none.
LEMMA StatusChanged ==
    ASSUME ClientsRight, IsFun(connection', Requests),
           \A r \in Requests :
              \/ connection'[r] = connection[r]
              \/ \E status \in {"open", "closed"} : connection'[r] = [connection[r] EXCEPT !.status = status]
    PROVE  SameConnections
  <1> SUFFICES ASSUME NEW r \in Requests
               PROVE  /\ IsConnection(connection'[r])
                      /\ connection'[r].node = connection[r].node
                      /\ connection'[r].remote = connection[r].remote
                      /\ connection'[r].status = "opening" => connection[r].status = "opening"
    BY DEF SameConnections
  <1>1. connection[r] = [status |-> connection[r].status, local |-> connection[r].local,
                         node |-> connection[r].node, remote |-> connection[r].remote]
    BY DEF ClientsRight, IsConnection
  <1>2. CASE connection'[r] = connection[r]
    BY <1>2 DEF ClientsRight, IsConnection
  <1>3. ASSUME NEW status \in {"open", "closed"},
               connection'[r] = [connection[r] EXCEPT !.status = status]
        PROVE  /\ IsConnection(connection'[r])
               /\ connection'[r].node = connection[r].node
               /\ connection'[r].remote = connection[r].remote
               /\ connection'[r].status = "opening" => connection[r].status = "opening"
    <2>1. connection'[r] = [status |-> status, local |-> connection[r].local,
                            node |-> connection[r].node, remote |-> connection[r].remote]
      BY <1>1, <1>3
    <2>2. QED
      BY <1>3, <2>1 DEF IsConnection
  <1>4. QED
    BY <1>2, <1>3

\* A step that makes no connection.
LEMMA ClientsKept ==
    ASSUME ClientsRight, Grows, SameConnections, UNCHANGED <<apps, attached>>,
           phase' \in [Servers \cup Clients \cup Jobs -> Phases],
           \A c \in Clients : /\ phase'[c] \in {"connected", "sent"} =>
                                    phase[c] \in {"connected", "sent"} \/ connection[c].status = "opening"
                              /\ phase'[c] = "idle" => phase[c] = "idle"
    PROVE  ClientsRight'
  <1>1. ASSUME NEW c \in Clients
        PROVE  /\ connection'[c].status = "opening" \/ phase'[c] \in {"connected", "sent"} => Bound(c)'
               /\ c \in apps' /\ phase'[c] = "idle" =>
                     \A m \in Machines : UserOf[m] = UserOf[MachineOf[c]] => m \in attached'
    <2>1. c \in Requests
      BY DEF Requests
    <2>2. connection'[c].status = "opening" => connection[c].status = "opening"
      BY <2>1 DEF SameConnections
    <2>3. Bound(c) => Bound(c)'
      BY <2>1, BoundStays DEF SameConnections
    <2>4. QED
      BY <2>2, <2>3 DEF ClientsRight
  <1>2. QED
    BY <1>1 DEF ClientsRight, SameConnections

\* Nothing changes but phases.
LEMMA SameByUnchanged ==
    ASSUME ClientsRight, UNCHANGED connection
    PROVE  SameConnections
  BY DEF SameConnections, ClientsRight

LEMMA TablesUnchanged ==
    ASSUME Tables, UNCHANGED <<ports, virtualPorts, listening>>
    PROVE  Tables' /\ Grows
  BY DEF Tables, Shapes, ListenedOnce, RowRight, Listener, Grows

LEMMA AskingUnchanged ==
    ASSUME AskingRight, UNCHANGED <<asking, connecting, replicas>>
    PROVE  AskingRight'
  BY DEF AskingRight

\* The port of a connection leads to the job that listens there.
LEMMA ListenerFound ==
    ASSUME Tables, NEW n \in Nodes, NEW l \in Range(listening[n])
    PROVE  AppIndexFromPort(n, l.port) = l.app
  <1> DEFINE s == listening[n]
             I == {i \in 1 .. Len(s) : s[i].port = l.port}
             first == SelectInSeq(s, LAMBDA k : k.port = l.port)
  <1>1. DOMAIN s = 1 .. Len(s) /\ Len(s) \in Nat
    BY DEF IsSeq, Tables, Shapes
  <1>2. first = IF I # {} THEN Min(I) ELSE 0
    BY DEF SelectInSeq
  <1>3. AppIndexFromPort(n, l.port) = s[first].app
    BY DEF AppIndexFromPort
  <1> HIDE DEF first
  <1>4. PICK i \in DOMAIN s : s[i] = l
    BY DEF Range
  <1>5. i \in I /\ I \in SUBSET Nat
    BY <1>1, <1>4
  <1>6. Min(I) \in I
    BY <1>5, MinIn
  <1>7. first \in DOMAIN s /\ s[first].port = l.port
    BY <1>1, <1>2, <1>5, <1>6
  <1>8. first = i
    BY <1>4, <1>7 DEF Tables, ListenedOnce
  <1>9. QED
    BY <1>3, <1>4, <1>8

-------------------------------------------------------------------------------
(* The steps of the network.                                               *)

\* A job's phase is one of the phases.
LEMMA PhaseSet ==
    ASSUME ClientsRight, NEW a, NEW p \in Phases, phase' = [phase EXCEPT ![a] = p]
    PROVE  /\ phase' \in [Servers \cup Clients \cup Jobs -> Phases]
           /\ \A b \in Servers \cup Clients \cup Jobs : phase'[b] = IF b = a THEN p ELSE phase[b]
  BY DEF ClientsRight

LEMMA NetListen ==
    ASSUME NetInv, NEW a \in Servers, Listen(a), UNCHANGED <<storage, io>>
    PROVE  NetInv'
  <1>1. MachineOf[a] \in Machines /\ {HostOf[MachineOf[a]]} \in SUBSET Nodes
    BY Constants
  <1>2. Listens({HostOf[MachineOf[a]]}, MachineOf[a], PortOf[a], a)
    BY DEF Listen
  <1>3. Tables' /\ Grows /\ UNCHANGED <<attached, connection, delivered>>
    BY <1>1, <1>2, TablesListen DEF NetInv
  <1>4. phase' = [phase EXCEPT ![a] = "listening"] /\ UNCHANGED apps
    BY DEF Listen
  <1>5. ClientsRight'
    <2>1. phase' \in [Servers \cup Clients \cup Jobs -> Phases] /\ \A c \in Clients : phase'[c] = phase[c]
      <3>1. /\ phase' \in [Servers \cup Clients \cup Jobs -> Phases]
            /\ \A b \in Servers \cup Clients \cup Jobs : phase'[b] = IF b = a THEN "listening" ELSE phase[b]
        BY <1>4, PhaseSet DEF NetInv, Phases
      <3>2. a \notin Clients
        BY Constants
      <3>3. QED
        BY <3>1, <3>2
    <2>2. QED
      BY <1>3, <1>4, <2>1, ClientsKept, SameByUnchanged DEF NetInv
  <1>6. AskingRight'
    BY AskingUnchanged DEF NetInv, storage
  <1>7. DeliveredToAddressee'
    BY <1>3 DEF DeliveredToAddressee, NetInv
  <1>8. QED
    BY <1>3, <1>5, <1>6, <1>7 DEF NetInv

\* A step that changes phases only.
LEMMA NetPhase ==
    ASSUME NetInv, NEW a, NEW p \in Phases, phase' = [phase EXCEPT ![a] = p],
           UNCHANGED <<apps, network>>, UNCHANGED <<asking, connecting, replicas>>,
           a \in Clients => /\ p # "idle"
                            /\ p \in {"connected", "sent"} => phase[a] \in {"connected", "sent"}
    PROVE  NetInv'
  <1>1. Tables' /\ Grows
    BY TablesUnchanged DEF NetInv, network, pat
  <1>2. ClientsRight'
    <2>1. /\ phase' \in [Servers \cup Clients \cup Jobs -> Phases]
          /\ \A c \in Clients : phase'[c] = IF c = a THEN p ELSE phase[c]
      BY PhaseSet DEF NetInv
    <2>2. QED
      BY <1>1, <2>1, ClientsKept, SameByUnchanged DEF NetInv, network
  <1>3. AskingRight'
    BY AskingUnchanged DEF NetInv
  <1>4. QED
    BY <1>1, <1>2, <1>3 DEF NetInv, DeliveredToAddressee, network

\* A connection that is made.
LEMMA ConnectionMade ==
    ASSUME ClientsRight, Grows, NEW r \in Requests, NEW to, CreateConnection(r, to),
           UNCHANGED <<apps, attached>>,
           r \in Clients => \E m \in Machines : /\ Asked(r, m) /\ to[1] = HostOf[m]
                                                /\ Listener(HostOf[m], to[2], m, PortOf[r]),
           phase' \in [Servers \cup Clients \cup Jobs -> Phases],
           \A c \in Clients : /\ phase'[c] \in {"connected", "sent"} =>
                                    phase[c] \in {"connected", "sent"} \/ connection[c].status = "opening"
                              /\ phase'[c] = "idle" => phase[c] = "idle"
    PROVE  ClientsRight'
  <1>0. PICK p \in Ephemeral(NodeOf(r)),
             status \in {"opening"} \cup (IF Dangling(NodeOf(r)) THEN {"aliased"} ELSE {}) :
            connection' = [connection EXCEPT ![r] =
               [status |-> status, local |-> p, node |-> to[1], remote |-> to[2]]]
    BY DEF CreateConnection
  <1>1. status \in {"opening", "aliased"}
    BY <1>0
  <1> DEFINE new == [status |-> status, local |-> p, node |-> to[1], remote |-> to[2]]
  <1>2. /\ IsConnection(new) /\ new.status # "none" /\ new.node = to[1] /\ new.remote = to[2]
    BY <1>1 DEF IsConnection
  <1>3. connection' = [connection EXCEPT ![r] = new]
    BY <1>0
  <1> HIDE DEF new
  <1>4. /\ IsFun(connection', Requests) /\ connection'[r] = new
        /\ \A x \in Requests : x # r => connection'[x] = connection[x]
    BY <1>3 DEF ClientsRight, IsFun
  <1>5. \A x \in Requests : IsConnection(connection'[x])
    BY <1>2, <1>4 DEF ClientsRight
  <1>6. ASSUME NEW c \in Clients, c = r \/ Bound(c) PROVE Bound(c)'
    <2>1. CASE c = r
      <3>1. PICK m \in Machines : /\ Asked(r, m) /\ to[1] = HostOf[m]
                                  /\ Listener(HostOf[m], to[2], m, PortOf[r])
        BY <2>1
      <3>2. HostOf[m] \in Nodes
        BY Constants
      <3>3. PICK q : q = to[2]
        OBVIOUS
      <3>4. Listener(HostOf[m], q, m, PortOf[r])'
        BY <3>1, <3>2, <3>3, ListenerStays
      <3>5. connection'[c].node = HostOf[m] /\ connection'[c].remote = q
        BY <1>2, <1>4, <2>1, <3>1, <3>3
      <3>6. Listener(connection[c].node, connection[c].remote, m, PortOf[c])'
        BY <2>1, <3>4, <3>5 DEF Listener
      <3>7. Asked(c, m)'
        BY <2>1, <3>1 DEF Asked
      <3>8. QED
        BY <3>2, <3>5, <3>6, <3>7 DEF Bound
    <2>2. CASE c # r
      <3>1. c \in Requests
        BY DEF Requests
      <3>2. QED
        BY <1>4, <1>6, <2>2, <3>1, BoundStays
    <2>3. QED
      BY <2>1, <2>2
  <1>7. ASSUME NEW c \in Clients
        PROVE  /\ connection'[c].status = "opening" \/ phase'[c] \in {"connected", "sent"} => Bound(c)'
               /\ c \in apps' /\ phase'[c] = "idle" =>
                     \A m \in Machines : UserOf[m] = UserOf[MachineOf[c]] => m \in attached'
    <2>1. c \in Requests
      BY DEF Requests
    <2>2. c # r => connection'[c] = connection[c]
      BY <1>4, <2>1
    <2>3. QED
      BY <1>6, <2>2 DEF ClientsRight
  <1>8. QED
    BY <1>4, <1>5, <1>6, <1>7 DEF ClientsRight

LEMMA NetAskConnection ==
    ASSUME NetInv, NEW c \in Clients, AskConnection(c), UNCHANGED <<storage, io>>
    PROVE  NetInv'
  <1>1. /\ c \in apps /\ phase[c] = "idle" /\ phase' = [phase EXCEPT ![c] = "asking"] /\ UNCHANGED apps
    BY DEF AskConnection
  <1>2. CASE UNCHANGED network
    BY <1>1, <1>2, NetPhase DEF Phases, storage
  <1>3. CASE /\ Destination(c) # NULL /\ CreateConnection(c, Destination(c))
             /\ UNCHANGED <<attached, pat, virtualPorts, listening, delivered>>
    <2>1. Tables' /\ Grows
      BY <1>3, TablesUnchanged DEF NetInv, pat
    <2>2. \E m \in Machines : /\ Asked(c, m) /\ Destination(c)[1] = HostOf[m]
                              /\ Listener(HostOf[m], Destination(c)[2], m, PortOf[c])
      BY <1>1, <1>3, DestinationFound DEF NetInv
    <2>3. /\ phase' \in [Servers \cup Clients \cup Jobs -> Phases]
          /\ \A d \in Clients : phase'[d] = IF d = c THEN "asking" ELSE phase[d]
      BY <1>1, PhaseSet DEF NetInv, Phases
    <2>4. c \in Requests
      BY DEF Requests
    <2>5. PICK to : to = Destination(c)
      OBVIOUS
    <2>6. ClientsRight'
      BY <1>1, <1>3, <2>1, <2>2, <2>3, <2>4, <2>5, ConnectionMade DEF NetInv
    <2>7. AskingRight'
      BY AskingUnchanged DEF NetInv, storage
    <2>8. QED
      BY <1>3, <2>1, <2>6, <2>7 DEF NetInv, DeliveredToAddressee
  <1>4. QED
    BY <1>2, <1>3 DEF AskConnection

\* A connection is established.
LEMMA NetEstablished ==
    ASSUME NetInv, NEW r \in Requests, Established(r)
    PROVE  Tables' /\ Grows /\ SameConnections /\ connection[r].status = "opening"
  <1>1. PICK local : local = connection[r].local
    OBVIOUS
  <1>2. /\ connection[r].status = "opening" /\ connection' = [connection EXCEPT ![r].status = "open"]
        /\ ConnectionStablished(r, local, r) /\ UNCHANGED <<listening>>
    BY <1>1 DEF Established
  <1>3. Tables' /\ Grows
    BY <1>2, TablesStablished DEF NetInv
  <1>4. /\ IsFun(connection', Requests) /\ connection'[r] = [connection[r] EXCEPT !.status = "open"]
        /\ \A x \in Requests : x # r => connection'[x] = connection[x]
    BY <1>2 DEF NetInv, ClientsRight, IsFun
  <1>5. SameConnections
    BY <1>2, <1>4, StatusChanged DEF NetInv
  <1>6. QED
    BY <1>2, <1>3, <1>5

LEMMA NetClientEstablished ==
    ASSUME NetInv, NEW c \in Clients, ClientEstablished(c), UNCHANGED <<storage, io>>
    PROVE  NetInv'
  <1>1. c \in Requests
    BY DEF Requests
  <1>2. Established(c) /\ phase' = [phase EXCEPT ![c] = "connected"] /\ UNCHANGED apps
    BY DEF ClientEstablished
  <1>3. Tables' /\ Grows /\ SameConnections /\ connection[c].status = "opening"
    BY <1>1, <1>2, NetEstablished
  <1>4. /\ phase' \in [Servers \cup Clients \cup Jobs -> Phases]
        /\ \A d \in Clients : phase'[d] = IF d = c THEN "connected" ELSE phase[d]
    BY <1>2, PhaseSet DEF NetInv, Phases
  <1>5. UNCHANGED <<attached, delivered>>
    BY <1>2 DEF Established
  <1>6. ClientsRight'
    BY <1>2, <1>3, <1>4, <1>5, ClientsKept DEF NetInv
  <1>7. AskingRight'
    BY AskingUnchanged DEF NetInv, storage
  <1>8. QED
    BY <1>3, <1>5, <1>6, <1>7 DEF NetInv, DeliveredToAddressee

LEMMA NetDeliver ==
    ASSUME NetInv, NEW c \in Clients, Deliver(c), UNCHANGED <<storage, io>>
    PROVE  NetInv'
  <1> DEFINE n == connection[c].node
             job == AppIndexFromPort(n, connection[c].remote)
             gates == {m \in Addressed(UserOf[MachineOf[c]], AddressOf[c]) : HostOf[m] = n}
  <1>1. /\ phase[c] = "sent"
        /\ UNCHANGED <<apps, attached, pat, virtualPorts, listening, connection, waiting>>
    BY DEF Deliver
  <1>2. CASE UNCHANGED <<delivered, phase>>
    <2>1. Tables' /\ Grows
      BY <1>1, TablesUnchanged DEF NetInv, pat
    <2>2. ClientsRight'
      BY <1>1, <1>2, <2>1, ClientsKept, SameByUnchanged DEF NetInv, ClientsRight
    <2>3. QED
      BY <1>2, <2>1, <2>2, AskingUnchanged DEF NetInv, DeliveredToAddressee, storage
  <1>3. CASE /\ delivered' = delivered \cup {<<c, job, m>> : m \in gates}
             /\ phase' = [phase EXCEPT ![c] = "delivered"]
    <2>1. Tables' /\ Grows
      BY <1>1, TablesUnchanged DEF NetInv, pat
    <2>2. /\ phase' \in [Servers \cup Clients \cup Jobs -> Phases]
          /\ \A d \in Clients : phase'[d] = IF d = c THEN "delivered" ELSE phase[d]
      BY <1>3, PhaseSet DEF NetInv, Phases
    <2>3. ClientsRight'
      BY <1>1, <2>1, <2>2, ClientsKept, SameByUnchanged DEF NetInv
    <2>4. AskingRight'
      BY AskingUnchanged DEF NetInv, storage
    <2>5. Bound(c)
      BY <1>1 DEF NetInv, ClientsRight
    <2>6. PICK m \in Machines : /\ HostOf[m] = n /\ Asked(c, m)
                                /\ Listener(n, connection[c].remote, m, PortOf[c])
      BY <2>5 DEF Bound
    <2>7. n \in Nodes
      BY <2>5 DEF Bound
    <2>8. PICK l \in Range(listening[n]) :
              /\ l.port = connection[c].remote /\ MachineOf[l.app] = m /\ PortOf[l.app] = PortOf[c]
      BY <2>6 DEF Listener
    <2>9. job = l.app
      BY <2>7, <2>8, ListenerFound DEF NetInv
    <2>10. Origin(c) = MachineOf[c]
      BY DEF Origin, Owner
    <2>11. \A o \in gates : o = m
      BY <2>6, <2>10, Constants DEF Addressed, Asked, NetInv, ClientsRight
    <2>12. ASSUME NEW d \in delivered'
           PROVE  /\ MachineOf[d[2]] = d[3] /\ UserOf[d[3]] = UserOf[MachineOf[d[1]]]
                  /\ VipOf[d[3]] = AddressOf[d[1]] /\ PortOf[d[2]] = PortOf[d[1]]
      <3>1. CASE d \in delivered
        BY <3>1 DEF NetInv, DeliveredToAddressee
      <3>2. CASE d \notin delivered
        <4>1. PICK o \in gates : d = <<c, job, o>>
          BY <1>3, <2>12, <3>2
        <4>2. d[1] = c /\ d[2] = l.app /\ d[3] = m
          BY <2>9, <2>11, <4>1
        <4>3. QED
          BY <2>6, <2>8, <2>10, <4>2 DEF Asked
      <3>3. QED
        BY <3>1, <3>2
    <2>13. DeliveredToAddressee'
      BY <2>12 DEF DeliveredToAddressee
    <2>14. QED
      BY <2>1, <2>3, <2>4, <2>13 DEF NetInv
  <1>4. QED
    BY <1>2, <1>3 DEF Deliver

LEMMA NetFault ==
    ASSUME NetInv, UNCHANGED <<apps, network, phase>>, UNCHANGED <<asking, connecting, replicas>>
    PROVE  NetInv'
  <1>1. Tables' /\ Grows
    BY TablesUnchanged DEF NetInv, network, pat
  <1>2. ClientsRight'
    BY <1>1, ClientsKept, SameByUnchanged DEF NetInv, network, ClientsRight
  <1>3. QED
    BY <1>1, <1>2, AskingUnchanged DEF NetInv, network, DeliveredToAddressee

LEMMA NetCheckPending ==
    ASSUME NetInv, NEW n \in Nodes, CheckPendingMessages(n), UNCHANGED <<storage, io>>
    PROVE  NetInv'
  <1>1. UNCHANGED <<apps, network>>
    BY DEF CheckPendingMessages
  <1>2. PICK expired : phase' = [a \in DOMAIN phase |-> IF a \in expired THEN "port not open" ELSE phase[a]]
    BY DEF CheckPendingMessages
  <1>3. phase' \in [Servers \cup Clients \cup Jobs -> Phases]
    BY <1>2 DEF NetInv, ClientsRight, Phases
  <1>4. \A c \in Clients : phase'[c] \in {phase[c], "port not open"}
    BY <1>2 DEF NetInv, ClientsRight
  <1>5. Tables' /\ Grows
    BY <1>1, TablesUnchanged DEF NetInv, network, pat
  <1>6. ClientsRight'
    BY <1>1, <1>3, <1>4, <1>5, ClientsKept, SameByUnchanged DEF NetInv, network
  <1>7. QED
    BY <1>1, <1>5, <1>6, AskingUnchanged DEF NetInv, network, DeliveredToAddressee, storage

\* The steps of clients and servers.
LEMMA NetNetwork ==
    ASSUME NetInv, NetworkNext, UNCHANGED <<storage, io>>
    PROVE  NetInv'
  <1>1. ASSUME NEW a \in Servers, Listen(a) PROVE NetInv'
    BY <1>1, NetListen
  <1>2. ASSUME NEW a \in Servers, ServerEnds(a) PROVE NetInv'
    BY <1>2, NetPhase, Constants DEF ServerEnds, Phases, storage
  <1>3. ASSUME NEW c \in Clients, AskConnection(c) PROVE NetInv'
    BY <1>3, NetAskConnection
  <1>4. ASSUME NEW c \in Clients, ClientEstablished(c) PROVE NetInv'
    BY <1>4, NetClientEstablished
  <1>5. ASSUME NEW c \in Clients, Send(c) PROVE NetInv'
    BY <1>5, NetPhase DEF Send, Phases, storage
  <1>6. ASSUME NEW c \in Clients, Deliver(c) PROVE NetInv'
    BY <1>6, NetDeliver
  <1>7. ASSUME NEW c \in Clients, Answer(c) PROVE NetInv'
    BY <1>7, NetPhase DEF Answer, Phases, storage
  <1>8. ASSUME NEW r \in Requests, AliasEstablished(r) PROVE NetInv'
    BY <1>8, NetFault DEF AliasEstablished, storage
  <1>9. ASSUME NEW n \in Nodes, CheckPendingMessages(n) PROVE NetInv'
    BY <1>9, NetCheckPending
  <1>10. QED
    BY <1>1, <1>2, <1>3, <1>4, <1>5, <1>6, <1>7, <1>8, <1>9 DEF NetworkNext

-------------------------------------------------------------------------------
(* The steps of remote storage, for the network.                           *)

\* A connection to node n has been asked of the cell of machine m.
IsAsked(m, n) == \E i \in DOMAIN asking[m] : asking[m][i][2] = n

\* A job's connections are asked after those of others.
LEMMA AsksAdded ==
    ASSUME AskingRight, NEW j \in Jobs, NEW m, m = MachineOf[j],
           asking' = [asking EXCEPT ![m] = @ \o [i \in DOMAIN TargetsOf[j] |-> <<j, TargetsOf[j][i]>>]]
    PROVE  /\ asking' \in [Machines -> Seq(StorageConnections)]
           /\ \A o \in Machines : \A i \in DOMAIN asking'[o] : Origin(asking'[o][i]) = o
           /\ \A o \in Machines : \A i \in DOMAIN asking[o] :
                 i \in DOMAIN asking'[o] /\ asking'[o][i] = asking[o][i]
           /\ \A o \in Machines : \A i \in DOMAIN asking'[o] :
                 (i \in DOMAIN asking[o] /\ asking'[o][i] = asking[o][i]) \/ asking'[o][i][1] = j
           /\ \A n \in Range(TargetsOf[j]) : IsAsked(m, n)'
  <1> DEFINE targets == TargetsOf[j]
             asks == [i \in DOMAIN targets |-> <<j, targets[i]>>]
  <1>1. m \in Machines /\ asking \in [Machines -> Seq(StorageConnections)]
    BY Constants DEF AskingRight
  <1>2. PICK k \in Nat : k = Len(asking[m]) /\ DOMAIN asking[m] = 1 .. k
    BY <1>1
  <1>3. targets \in Seq(Nodes) /\ \A i \in DOMAIN targets : /\ <<j, targets[i]>> \in StorageConnections
                                                            /\ Origin(<<j, targets[i]>>) = m
    BY Constants
  <1>4. PICK l \in Nat : DOMAIN targets = 1 .. l
    BY <1>3
  <1>5. /\ asks = [i \in 1 .. l |-> asks[i]]
        /\ \A i \in 1 .. l : asks[i] = <<j, targets[i]>> /\ asks[i][1] = j /\ asks[i][2] = targets[i]
    BY <1>4
  <1> HIDE DEF asks, targets
  <1>6. \A i \in 1 .. l : asks[i] \in StorageConnections /\ Origin(asks[i]) = m
    <2>1. ASSUME NEW i \in 1 .. l PROVE asks[i] \in StorageConnections /\ Origin(asks[i]) = m
      <3>1. i \in DOMAIN targets
        BY <1>4
      <3>2. asks[i] = <<j, targets[i]>>
        BY <1>5
      <3>3. QED
        BY <1>3, <3>1, <3>2
    <2>2. QED
      BY <2>1
  <1>7. asks \in Seq(StorageConnections) /\ Len(asks) = l
    <2>1. [i \in 1 .. l |-> asks[i]] \in Seq(StorageConnections) /\ Len([i \in 1 .. l |-> asks[i]]) = l
      BY <1>6
    <2>2. QED
      BY <1>5, <2>1
  <1>8. asking' = [asking EXCEPT ![m] = asking[m] \o asks]
    BY DEF asks, targets
  <1>9. asking[m] \in Seq(StorageConnections)
    BY <1>1
  <1>10. PICK s \in Seq(StorageConnections) :
            /\ s = asking[m] \o asks /\ DOMAIN s = 1 .. k + l
            /\ \A i \in 1 .. k + l : s[i] = IF i <= k THEN asking[m][i] ELSE asks[i - k]
    <2>1. PICK s \in Seq(StorageConnections) : s = asking[m] \o asks
      BY <1>7, <1>9, ConcatProperties
    <2>2. PICK a \in Seq(StorageConnections) : a = asking[m] /\ Len(a) = k
      BY <1>2, <1>9
    <2>3. Len(a \o asks) = k + l
      BY <1>7, <2>2, ConcatProperties
    <2>4. \A i \in 1 .. k + l : (a \o asks)[i] = IF i <= k THEN a[i] ELSE asks[i - k]
      <3>1. PICK b \in Seq(StorageConnections) : b = asks /\ Len(b) = l
        BY <1>7
      <3>2. TAKE i \in 1 .. k + l
      <3>3. (a \o b)[i] = IF i <= Len(a) THEN a[i] ELSE b[i - Len(a)]
        <4>1. i \in 1 .. Len(a) + Len(b)
          BY <2>2, <3>1
        <4>2. \A x \in 1 .. Len(a) + Len(b) : (a \o b)[x] = IF x <= Len(a) THEN a[x] ELSE b[x - Len(a)]
          BY ConcatProperties
        <4>3. QED
          BY <4>1, <4>2
      <3>4. QED
        <4>1. (a \o b)[i] = IF i <= k THEN a[i] ELSE b[i - k]
          BY <2>2, <3>3
        <4>2. QED
          BY <3>1, <4>1
    <2>5. DOMAIN s = 1 .. k + l
      BY <2>1, <2>2, <2>3
    <2>6. QED
      BY <2>1, <2>2, <2>4, <2>5
  <1>11. /\ asking' \in [Machines -> Seq(StorageConnections)] /\ asking'[m] = s
         /\ \A o \in Machines : o # m => asking'[o] = asking[o]
    <2>1. s \in Seq(StorageConnections) /\ s = asking[m] \o asks
      BY <1>10
    <2>2. asking' = [asking EXCEPT ![m] = s]
      <3>1. [asking EXCEPT ![m] = asking[m] \o asks] = [asking EXCEPT ![m] = s]
        BY ONLY <2>1
      <3>2. QED
        BY ONLY <1>8, <3>1
    <2>3. QED
      BY ONLY <1>1, <2>1, <2>2
  <1>12. \A i \in 1 .. k : i \in 1 .. k + l /\ s[i] = asking[m][i]
    BY <1>10
  <1>13. ASSUME NEW i \in 1 .. k + l
         PROVE  Origin(s[i]) = m /\ ((i \in 1 .. k /\ s[i] = asking[m][i]) \/ s[i][1] = j)
    <2>1. CASE i <= k
      BY <1>1, <1>2, <1>10, <2>1 DEF AskingRight
    <2>2. CASE ~(i <= k)
      <3>1. i - k \in 1 .. l
        BY <2>2
      <3>2. s[i] = asks[i - k]
        BY <1>10, <2>2
      <3>3. QED
        BY <1>5, <1>6, <3>1, <3>2
    <2>3. QED
      BY <2>1, <2>2
  <1>14. ASSUME NEW i \in 1 .. l PROVE \E x \in 1 .. k + l : s[x][2] = targets[i]
    <2>1. k + i \in 1 .. k + l /\ ~(k + i <= k) /\ (k + i) - k = i
      OBVIOUS
    <2>2. s[k + i] = asks[i]
      BY <1>10, <2>1
    <2>3. QED
      BY <1>5, <2>1, <2>2
  <1>15. /\ \A o \in Machines : \A i \in DOMAIN asking'[o] : Origin(asking'[o][i]) = o
         /\ \A o \in Machines : \A i \in DOMAIN asking[o] :
               i \in DOMAIN asking'[o] /\ asking'[o][i] = asking[o][i]
         /\ \A o \in Machines : \A i \in DOMAIN asking'[o] :
               (i \in DOMAIN asking[o] /\ asking'[o][i] = asking[o][i]) \/ asking'[o][i][1] = j
    <2>1. \A i \in DOMAIN asking'[m] :
             Origin(asking'[m][i]) = m
             /\ ((i \in DOMAIN asking[m] /\ asking'[m][i] = asking[m][i]) \/ asking'[m][i][1] = j)
      <3>1. asking'[m] = s /\ DOMAIN asking'[m] = 1 .. k + l
        BY <1>10, <1>11
      <3>2. DOMAIN asking[m] = 1 .. k
        BY <1>2
      <3>3. QED
        BY <1>13, <3>1, <3>2
    <2>2. \A i \in DOMAIN asking[m] : i \in DOMAIN asking'[m] /\ asking'[m][i] = asking[m][i]
      BY <1>2, <1>10, <1>11, <1>12
    <2>3. \A o \in Machines : o # m =>
             asking'[o] = asking[o] /\ \A i \in DOMAIN asking[o] : Origin(asking[o][i]) = o
      BY <1>11 DEF AskingRight
    <2>4. ASSUME NEW o \in Machines
          PROVE  /\ \A i \in DOMAIN asking'[o] : Origin(asking'[o][i]) = o
                 /\ \A i \in DOMAIN asking[o] : i \in DOMAIN asking'[o] /\ asking'[o][i] = asking[o][i]
                 /\ \A i \in DOMAIN asking'[o] :
                       (i \in DOMAIN asking[o] /\ asking'[o][i] = asking[o][i]) \/ asking'[o][i][1] = j
      <3>1. CASE o = m
        BY <2>1, <2>2, <3>1
      <3>2. CASE o # m
        BY <2>3, <3>2
      <3>3. QED
        BY <3>1, <3>2
    <2>5. QED
      BY <2>4
  <1>16. ASSUME NEW n \in Range(targets) PROVE IsAsked(m, n)'
    <2>1. PICK i \in 1 .. l : targets[i] = n
      BY <1>4 DEF Range
    <2>2. PICK x \in 1 .. k + l : s[x][2] = n
      BY <1>14, <2>1
    <2>3. x \in DOMAIN asking'[m] /\ asking'[m][x][2] = n
      BY <1>10, <1>11, <2>2
    <2>4. QED
      BY <2>3 DEF IsAsked
  <1>17. QED
    BY <1>11, <1>15, <1>16 DEF targets

LEMMA NetConnectToStorage ==
    ASSUME NetInv, NEW j \in Jobs, ConnectToStorage(j)
    PROVE  NetInv'
  <1> DEFINE m == MachineOf[j]
             targets == TargetsOf[j]
             new == {n \in Range(targets) : m \notin lrep[n]}
             asks == [i \in DOMAIN targets |-> <<j, targets[i]>>]
  <1>1. /\ phase' = [phase EXCEPT ![j] = "connecting"] /\ UNCHANGED <<apps, replicas>>
        /\ Listens(new, m, StoragePort, j)
        /\ asking' = [asking EXCEPT ![m] = @ \o asks]
        /\ connecting' = [connecting EXCEPT ![m] = Append(@, j)]
    BY DEF ConnectToStorage
  <1>2. m \in Machines /\ new \in SUBSET Nodes /\ HostOf[m] \notin new
    BY Constants DEF Range
  <1>3. Tables' /\ Grows /\ UNCHANGED <<attached, connection, delivered>>
    <2> HIDE DEF new
    <2>1. j \in Servers \cup Jobs
      OBVIOUS
    <2>2. QED
      BY <1>1, <1>2, <2>1, TablesListen DEF NetInv
  <1>4. ClientsRight'
    <2>1. /\ phase' \in [Servers \cup Clients \cup Jobs -> Phases]
          /\ \A a \in Servers \cup Clients \cup Jobs : phase'[a] = IF a = j THEN "connecting" ELSE phase[a]
      BY <1>1, PhaseSet DEF NetInv, Phases
    <2>2. j \notin Clients
      BY Constants
    <2>3. \A c \in Clients : phase'[c] = phase[c]
      BY <2>1, <2>2
    <2>4. QED
      BY <1>1, <1>3, <2>1, <2>3, ClientsKept, SameByUnchanged DEF NetInv
  <1>5. AskingRight'
    <2>1. connecting \in [Machines -> Seq(Jobs)]
      BY DEF NetInv, AskingRight
    <2>2. /\ asking' \in [Machines -> Seq(StorageConnections)]
          /\ \A o \in Machines : \A i \in DOMAIN asking'[o] : Origin(asking'[o][i]) = o
      BY <1>1, AsksAdded DEF NetInv
    <2>3. connecting' \in [Machines -> Seq(Jobs)]
      <3>1. Append(connecting[m], j) \in Seq(Jobs)
        BY <1>2, <2>1
      <3>2. QED
        BY <1>1, <2>1, <3>1
    <2>4. QED
      BY <1>1, <2>2, <2>3 DEF AskingRight, NetInv, Origin, Owner
  <1>6. QED
    BY <1>3, <1>4, <1>5 DEF NetInv, DeliveredToAddressee

\* Jobs that wait for a connection are told that it is there.
LEMMA NetNotify ==
    ASSUME AskingRight, ClientsRight, NEW m \in Machines, NEW times \in Nat, Notify(m, times)
    PROVE  /\ phase' \in [Servers \cup Clients \cup Jobs -> Phases]
           /\ \A c \in Clients : phase'[c] = phase[c]
           /\ connecting' \in [Machines -> Seq(Jobs)]
  <1>1. connecting \in [Machines -> Seq(Jobs)] /\ phase \in [Servers \cup Clients \cup Jobs -> Phases]
    BY DEF AskingRight, ClientsRight
  <1>2. PICK told : /\ phase' = [a \in DOMAIN phase |-> IF a \in told THEN "connected" ELSE phase[a]]
                    /\ told \subseteq Jobs
    <2> DEFINE told == {a \in DOMAIN phase : \E i \in DOMAIN connecting[m] : i <= times /\ connecting[m][i] = a}
    <2>1. phase' = [a \in DOMAIN phase |-> IF a \in told THEN "connected" ELSE phase[a]]
      BY DEF Notify
    <2>2. told \subseteq Jobs
      BY <1>1
    <2>3. QED
      BY <2>1, <2>2
  <1>3. \A c \in Clients : c \notin told
    BY <1>2, Constants
  <1>4. phase' \in [Servers \cup Clients \cup Jobs -> Phases] /\ \A c \in Clients : phase'[c] = phase[c]
    BY <1>1, <1>2, <1>3 DEF Phases
  <1>5. SubSeq(connecting[m], times + 1, Len(connecting[m])) \in Seq(Jobs)
    BY <1>1
  <1>6. connecting' = [connecting EXCEPT ![m] = SubSeq(connecting[m], times + 1, Len(connecting[m]))]
    BY DEF Notify
  <1>7. QED
    BY <1>1, <1>4, <1>5, <1>6

\* The first of the connections asked is handled.
LEMMA AskingTail ==
    ASSUME AskingRight, NEW m \in Machines, asking[m] # <<>>, asking' = [asking EXCEPT ![m] = Tail(@)]
    PROVE  /\ Head(asking[m]) \in StorageConnections /\ Origin(Head(asking[m])) = m
           /\ asking' \in [Machines -> Seq(StorageConnections)]
           /\ \A o \in Machines : \A i \in DOMAIN asking'[o] : Origin(asking'[o][i]) = o
           /\ \A o \in Machines : \A i \in DOMAIN asking'[o] :
                 \E k \in DOMAIN asking[o] : asking'[o][i] = asking[o][k]
           /\ \A o \in Machines : o # m => asking'[o] = asking[o]
           /\ \A k \in DOMAIN asking[m] :
                 asking[m][k] = Head(asking[m]) \/ \E i \in DOMAIN asking'[m] : asking'[m][i] = asking[m][k]
           /\ 1 \in DOMAIN asking[m] /\ Head(asking[m]) = asking[m][1]
  <1>1. /\ asking \in [Machines -> Seq(StorageConnections)]
        /\ \A o \in Machines : \A i \in DOMAIN asking[o] : Origin(asking[o][i]) = o
    BY DEF AskingRight
  <1>2. PICK n \in Nat : n = Len(asking[m]) /\ DOMAIN asking[m] = 1 .. n /\ n > 0
    BY <1>1
  <1>3. Head(asking[m]) = asking[m][1] /\ 1 \in 1 .. n
    BY <1>1, <1>2
  <1>4. PICK s \in Seq(StorageConnections) : s = Tail(asking[m])
    BY <1>1, HeadTailProperties
  <1>5. DOMAIN s = 1 .. n - 1 /\ \A i \in 1 .. n - 1 : s[i] = asking[m][i + 1] /\ i + 1 \in 1 .. n
    BY <1>1, <1>2, <1>4
  <1>6. \A i \in DOMAIN s : Origin(s[i]) = m
    BY <1>1, <1>2, <1>5
  <1>7. asking' = [asking EXCEPT ![m] = s]
    BY <1>4
  <1>8. asking' \in [Machines -> Seq(StorageConnections)]
    BY <1>1, <1>7
  <1>9. \A o \in Machines : \A i \in DOMAIN asking'[o] : Origin(asking'[o][i]) = o
    BY <1>1, <1>6, <1>7
  <1>10. \A o \in Machines : \A i \in DOMAIN asking'[o] :
            \E k \in DOMAIN asking[o] : asking'[o][i] = asking[o][k]
    BY <1>1, <1>2, <1>5, <1>7
  <1>11. ASSUME NEW k \in 2 .. n PROVE \E i \in DOMAIN s : s[i] = asking[m][k]
    <2>1. k - 1 \in 1 .. n - 1 /\ (k - 1) + 1 = k
      OBVIOUS
    <2>2. QED
      BY <1>5, <2>1
  <1>12. asking'[m] = s /\ \A o \in Machines : o # m => asking'[o] = asking[o]
    BY <1>1, <1>7
  <1>13. ASSUME NEW k \in DOMAIN asking[m]
         PROVE  asking[m][k] = Head(asking[m]) \/ \E i \in DOMAIN asking'[m] : asking'[m][i] = asking[m][k]
    <2>1. k = 1 \/ k \in 2 .. n
      BY <1>2
    <2>2. QED
      BY <1>3, <1>11, <1>12, <2>1
  <1>14. Head(asking[m]) \in StorageConnections /\ Origin(Head(asking[m])) = m
    BY <1>1, <1>2, <1>3
  <1>15. QED
    BY <1>2, <1>3, <1>8, <1>9, <1>10, <1>12, <1>13, <1>14

LEMMA NetSetRemoteData ==
    ASSUME NetInv, NEW m \in Machines, SetRemoteData(m)
    PROVE  NetInv'
  <1>0. PICK r : r = Head(asking[m])
    OBVIOUS
  <1>1. /\ asking[m] # <<>> /\ asking' = [asking EXCEPT ![m] = Tail(@)] /\ UNCHANGED apps
        /\ FirstConnection(r, r[2]) \/ NfsReplica(r, r[2]) \/ PfsReplica(r, r[2])
    BY <1>0 DEF SetRemoteData
  <1>2. /\ r \in StorageConnections /\ Origin(r) = m
        /\ asking' \in [Machines -> Seq(StorageConnections)]
        /\ \A o \in Machines : \A i \in DOMAIN asking'[o] : Origin(asking'[o][i]) = o
    BY <1>0, <1>1, AskingTail DEF NetInv
  <1>3. r \in Requests /\ r \notin Clients
    BY <1>2, Constants DEF Requests
  <1>4. \A o \in Machines : \A i \in DOMAIN asking'[o] : (Origin(asking[o][i]) = o)'
    BY <1>2 DEF Origin, Owner
  <1>5. CASE FirstConnection(r, r[2])
    <2>1. /\ CreateConnection(r, <<r[2], RealPort(r[2], StoragePort, Origin(r))>>)
          /\ UNCHANGED <<attached, pat, virtualPorts, listening, delivered, phase, connecting, replicas>>
      BY <1>5 DEF FirstConnection
    <2>2. Tables' /\ Grows
      BY <2>1, TablesUnchanged DEF NetInv, pat
    <2>3. PICK to : to = <<r[2], RealPort(r[2], StoragePort, Origin(r))>>
      OBVIOUS
    <2>4. CreateConnection(r, to)
      BY <2>1, <2>3
    <2>5. ClientsRight'
      BY <1>1, <1>3, <2>1, <2>2, <2>4, ConnectionMade DEF NetInv, ClientsRight
    <2>6. AskingRight'
      BY <1>2, <1>4, <2>1 DEF NetInv, AskingRight
    <2>7. QED
      BY <2>1, <2>2, <2>5, <2>6 DEF NetInv, DeliveredToAddressee
  <1>6. CASE NfsReplica(r, r[2])
    <2>1. Notify(m, 1) /\ UNCHANGED <<network, replicas>>
      BY <1>2, <1>6 DEF NfsReplica
    <2>2. /\ phase' \in [Servers \cup Clients \cup Jobs -> Phases]
          /\ \A c \in Clients : phase'[c] = phase[c]
          /\ connecting' \in [Machines -> Seq(Jobs)]
      BY <2>1, NetNotify DEF NetInv
    <2>3. Tables' /\ Grows
      BY <2>1, TablesUnchanged DEF NetInv, network, pat
    <2>4. ClientsRight'
      BY <1>1, <2>1, <2>2, <2>3, ClientsKept, SameByUnchanged DEF NetInv, network
    <2>5. AskingRight'
      BY <1>2, <1>4, <2>1, <2>2 DEF NetInv, AskingRight
    <2>6. QED
      BY <2>1, <2>3, <2>4, <2>5 DEF NetInv, DeliveredToAddressee, network
  <1>7. CASE PfsReplica(r, r[2])
    <2> DEFINE mine == SelectInSeq(replicas[m], LAMBDA e : e.job = r[1])
               added == Append(replicas[m], [job |-> r[1], left |-> Len(TargetsOf[r[1]]) - 1])
               fewer == [replicas[m] EXCEPT ![mine].left = @ - 1]
    <2>1. \/ replicas' = [replicas EXCEPT ![m] = added] /\ UNCHANGED <<network, phase, connecting>>
          \/ replicas' = [replicas EXCEPT ![m] = fewer] /\ UNCHANGED <<network, phase, connecting>>
          \/ /\ replicas' = [replicas EXCEPT ![m] = fewer] /\ ConnectionStablished(r, 0, NULL) /\ Notify(m, 1)
             /\ UNCHANGED <<attached, portPtr, portHoles, listening, connection, delivered>>
      <3> HIDE DEF mine
      <3>1. /\ mine = 0 => /\ replicas' = [replicas EXCEPT ![m] = added]
                           /\ UNCHANGED <<network, phase, connecting>>
            /\ mine # 0 => /\ replicas' = [replicas EXCEPT ![m][mine].left = @ - 1]
                           /\ \/ UNCHANGED <<network, phase, connecting>>
                              \/ /\ ConnectionStablished(r, 0, NULL) /\ Notify(m, 1)
                                 /\ UNCHANGED <<attached, portPtr, portHoles, listening, connection, delivered>>
        BY <1>2, <1>7 DEF PfsReplica, mine
      <3>2. QED
        BY <3>1
    <2>2. IsSeq(added) /\ IsSeq(fewer)
      <3>1. IsSeq(replicas[m])
        BY DEF NetInv, AskingRight
      <3>2. IsSeq(added)
        BY <3>1, AppendRange
      <3> HIDE DEF mine
      <3>3. fewer \in Seq(Range(fewer))
        <4>1. PICK n \in Nat : DOMAIN replicas[m] = 1 .. n
          BY <3>1 DEF IsSeq
        <4>2. DOMAIN fewer = 1 .. n
          BY <4>1
        <4>3. fewer = [i \in 1 .. n |-> fewer[i]]
          BY <4>2
        <4> HIDE DEF fewer
        <4>4. \A i \in 1 .. n : fewer[i] \in Range(fewer)
          BY <4>2 DEF Range
        <4>5. QED
          BY <4>3, <4>4
      <3>4. QED
        BY <3>2, <3>3 DEF IsSeq
    <2>3. IsFun(replicas', Machines) /\ \A o \in Machines : IsSeq(replicas'[o])
      <3>1. IsFun(replicas, Machines) /\ \A o \in Machines : IsSeq(replicas[o])
        BY DEF NetInv, AskingRight
      <3> HIDE DEF added, fewer
      <3>2. ASSUME NEW s, IsSeq(s), replicas' = [replicas EXCEPT ![m] = s]
            PROVE  IsFun(replicas', Machines) /\ \A o \in Machines : IsSeq(replicas'[o])
        <4>1. \A o \in Machines : replicas'[o] = IF o = m THEN s ELSE replicas[o]
          BY <3>1, <3>2 DEF IsFun
        <4>2. IsFun(replicas', Machines)
          BY <3>1, <3>2 DEF IsFun
        <4>3. QED
          BY <3>1, <3>2, <4>1, <4>2
      <3>3. QED
        BY <2>1, <2>2, <3>2
    <2> HIDE DEF added, fewer, mine
    <2>4. CASE UNCHANGED <<network, phase, connecting>>
      <3>1. Tables' /\ Grows
        BY <2>4, TablesUnchanged DEF NetInv, network, pat
      <3>2. ClientsRight'
        BY <1>1, <2>4, <3>1, ClientsKept, SameByUnchanged DEF NetInv, network, ClientsRight
      <3>3. AskingRight'
        BY <1>2, <1>4, <2>3, <2>4 DEF NetInv, AskingRight
      <3>4. QED
        BY <2>4, <3>1, <3>2, <3>3 DEF NetInv, DeliveredToAddressee, network
    <2>5. CASE /\ ConnectionStablished(r, 0, NULL) /\ Notify(m, 1)
               /\ UNCHANGED <<attached, portPtr, portHoles, listening, connection, delivered>>
      <3>1. Tables' /\ Grows
        BY <1>3, <2>5, TablesStablished DEF NetInv
      <3>2. /\ phase' \in [Servers \cup Clients \cup Jobs -> Phases]
            /\ \A c \in Clients : phase'[c] = phase[c]
            /\ connecting' \in [Machines -> Seq(Jobs)]
        BY <2>5, NetNotify DEF NetInv
      <3>3. ClientsRight'
        BY <1>1, <2>5, <3>1, <3>2, ClientsKept, SameByUnchanged DEF NetInv
      <3>4. AskingRight'
        BY <1>2, <1>4, <2>3, <3>2 DEF NetInv, AskingRight
      <3>5. QED
        BY <2>5, <3>1, <3>3, <3>4 DEF NetInv, DeliveredToAddressee
    <2>6. QED
      BY <2>1, <2>4, <2>5
  <1>8. QED
    BY <1>1, <1>5, <1>6, <1>7

LEMMA NetStorageEstablished ==
    ASSUME NetInv, NEW r \in StorageConnections, StorageEstablished(r)
    PROVE  NetInv'
  <1>1. PICK m \in Machines : m = Origin(r)
    BY Constants DEF Requests
  <1>2. r \in Requests
    BY DEF Requests
  <1>3. Established(r) /\ UNCHANGED <<apps, asking>> /\ UNCHANGED <<attached, delivered>>
    BY DEF StorageEstablished, Established
  <1>4. \/ UNCHANGED <<phase, connecting, replicas>>
        \/ Notify(m, 1 + Len(replicas[m])) /\ replicas' = [replicas EXCEPT ![m] = <<>>]
    BY <1>1 DEF StorageEstablished
  <1>5. Tables' /\ Grows /\ SameConnections
    BY <1>2, <1>3, NetEstablished
  <1>6. 1 + Len(replicas[m]) \in Nat
    BY DEF NetInv, AskingRight, IsSeq
  <1>7. /\ phase' \in [Servers \cup Clients \cup Jobs -> Phases]
        /\ \A c \in Clients : phase'[c] = phase[c]
        /\ connecting' \in [Machines -> Seq(Jobs)]
    <2>1. CASE UNCHANGED <<phase, connecting, replicas>>
      BY <2>1 DEF NetInv, AskingRight, ClientsRight
    <2>2. CASE Notify(m, 1 + Len(replicas[m]))
      BY <1>6, <2>2, NetNotify DEF NetInv
    <2>3. QED
      BY <1>4, <2>1, <2>2
  <1>8. ClientsRight'
    BY <1>3, <1>5, <1>7, ClientsKept DEF NetInv
  <1>9. IsFun(replicas', Machines) /\ \A o \in Machines : IsSeq(replicas'[o])
    <2>1. IsFun(replicas, Machines) /\ \A o \in Machines : IsSeq(replicas[o])
      BY DEF NetInv, AskingRight
    <2>2. CASE replicas' = [replicas EXCEPT ![m] = <<>>]
      <3>1. IsFun(replicas', Machines) /\ \A o \in Machines : replicas'[o] \in {<<>>, replicas[o]}
        BY <2>1, <2>2 DEF IsFun
      <3>2. IsSeq(<<>>)
        BY DEF IsSeq
      <3>3. QED
        BY <2>1, <3>1, <3>2
    <2>3. QED
      BY <1>4, <2>1, <2>2
  <1>10. AskingRight'
    BY <1>3, <1>7, <1>9 DEF NetInv, AskingRight, Origin, Owner
  <1>11. QED
    BY <1>3, <1>5, <1>8, <1>10 DEF NetInv, DeliveredToAddressee

LEMMA NetCloseMachine ==
    ASSUME NetInv, NEW m \in Machines, CloseMachine(m)
    PROVE  NetInv'
  <1> DEFINE at == {HostOf[m]} \cup {n \in Nodes : m \in lrep[n]}
  <1>1. /\ UserDone(UserOf[m]) /\ CloseConnections(at, m) /\ UNCHANGED <<apps, waiting, phase, storage, io>>
    BY DEF CloseMachine
  <1>2. at \in SUBSET Nodes
    BY Constants
  <1> HIDE DEF at
  <1>3. /\ Tables' /\ Grows /\ UNCHANGED delivered
        /\ attached' \in {attached, attached \ {m}}
        /\ \A r \in Requests : connection'[r] \in {connection[r], [connection[r] EXCEPT !.status = "closed"]}
        /\ IsFun(connection', Requests)
    BY <1>1, <1>2, TablesClose DEF NetInv, ClientsRight
  <1>4. SameConnections
    BY <1>3, StatusChanged DEF NetInv
  <1>5. ASSUME NEW c \in Clients
        PROVE  /\ connection'[c].status = "opening" \/ phase'[c] \in {"connected", "sent"} => Bound(c)'
               /\ c \in apps' /\ phase'[c] = "idle" =>
                     \A o \in Machines : UserOf[o] = UserOf[MachineOf[c]] => o \in attached'
    <2>1. c \in Requests
      BY DEF Requests
    <2>2. connection'[c].status = "opening" => connection[c].status = "opening"
      BY <1>4, <2>1 DEF SameConnections
    <2>3. Bound(c) => Bound(c)'
      BY <1>3, <1>4, <2>1, BoundStays DEF SameConnections
    <2>4. c \in apps /\ phase[c] = "idle" => UserOf[MachineOf[c]] # UserOf[m]
      BY <1>1 DEF UserDone
    <2>5. QED
      BY <1>1, <1>3, <2>2, <2>3, <2>4 DEF NetInv, ClientsRight
  <1>6. ClientsRight'
    <2>1. attached' \subseteq Machines /\ phase' \in [Servers \cup Clients \cup Jobs -> Phases]
      BY <1>1, <1>3 DEF NetInv, ClientsRight
    <2>2. QED
      BY <1>4, <1>5, <2>1 DEF ClientsRight, SameConnections
  <1>7. AskingRight'
    BY <1>1, AskingUnchanged DEF NetInv, storage
  <1>8. QED
    BY <1>3, <1>6, <1>7 DEF NetInv, DeliveredToAddressee

LEMMA NetOperation ==
    ASSUME NetInv, NEW j \in Jobs, Operation(j)
    PROVE  NetInv'
  <1>1. j \notin Clients
    BY Constants
  <1>2. /\ phase' = [phase EXCEPT ![j] = "sent"]
        /\ UNCHANGED <<apps, network>> /\ UNCHANGED <<asking, connecting, replicas>>
    BY DEF Operation
  <1>3. QED
    BY <1>1, <1>2, NetPhase DEF Phases

LEMMA NetResponse ==
    ASSUME NetInv, NEW sub \in sent, Response(sub)
    PROVE  NetInv'
  <1>1. UNCHANGED <<apps, network>> /\ UNCHANGED <<asking, connecting, replicas>>
    BY DEF Response, storage
  <1>2. \/ phase' = [phase EXCEPT ![sub.parent] = "done"]
        \/ UNCHANGED phase
    BY DEF Response
  <1>3. CASE phase' = [phase EXCEPT ![sub.parent] = "done"]
    BY <1>1, <1>3, NetPhase DEF Phases
  <1>4. CASE UNCHANGED phase
    BY <1>1, <1>4, NetFault
  <1>5. QED
    BY <1>2, <1>3, <1>4

-------------------------------------------------------------------------------
(* The theorems.                                                           *)

LEMMA NetInit ==
    Init => NetInv
  <1> SUFFICES ASSUME Init PROVE NetInv
    OBVIOUS
  <1>1. IsSeq(<<>>) /\ Range(<<>>) = {}
    BY DEF IsSeq, Range
  <1>2. Tables
    <2>1. /\ ports = [n \in Nodes |-> [m \in Machines |-> <<>>]]
          /\ virtualPorts = [n \in Nodes |-> <<>>] /\ listening = [n \in Nodes |-> <<>>]
      BY DEF Init, NetworkInit
    <2>2. Shapes
      BY <1>1, <2>1 DEF Shapes, IsFun
    <2>3. \A n \in Nodes : ListenedOnce(n) /\ \A t \in Range(virtualPorts[n]) : RowRight(n, t)
      BY <1>1, <2>1 DEF ListenedOnce
    <2>4. QED
      BY <2>2, <2>3 DEF Tables
  <1>3. ClientsRight
    <2>1. /\ attached = Machines /\ connection = [r \in Requests |-> NoConnection]
          /\ phase = [a \in Servers \cup Clients \cup Jobs |-> "idle"]
      BY DEF Init, NetworkInit
    <2>2. IsConnection(NoConnection) /\ NoConnection.status = "none"
      BY DEF NoConnection, IsConnection
    <2>3. IsFun(connection, Requests) /\ \A r \in Requests : connection[r] = NoConnection
      BY <2>1 DEF IsFun
    <2>4. \A c \in Clients : c \in Requests
      BY DEF Requests
    <2>5. phase \in [Servers \cup Clients \cup Jobs -> Phases] /\ \A c \in Clients : phase[c] = "idle"
      BY <2>1 DEF Phases
    <2>6. QED
      BY <2>1, <2>2, <2>3, <2>4, <2>5 DEF ClientsRight
  <1>4. AskingRight
    <2>1. /\ asking = [m \in Machines |-> <<>>] /\ replicas = [m \in Machines |-> <<>>]
          /\ connecting = [m \in Machines |-> <<>>]
      BY DEF Init
    <2>2. IsFun(replicas, Machines) /\ \A m \in Machines : IsSeq(replicas[m])
      BY <1>1, <2>1 DEF IsFun
    <2>3. QED
      BY <2>1, <2>2 DEF AskingRight
  <1>5. DeliveredToAddressee
    BY DEF Init, NetworkInit, DeliveredToAddressee
  <1>6. QED
    BY <1>2, <1>3, <1>4, <1>5 DEF NetInv

LEMMA NetNext ==
    NetInv /\ [Next]_vars => NetInv'
  <1> SUFFICES ASSUME NetInv, [Next]_vars PROVE NetInv'
    OBVIOUS
  <1>1. CASE NetworkNext /\ UNCHANGED <<storage, io>>
    BY <1>1, NetNetwork
  <1>2. ASSUME NEW j \in Jobs, ConnectToStorage(j) PROVE NetInv'
    BY <1>2, NetConnectToStorage
  <1>3. ASSUME NEW j \in Jobs, Operation(j) PROVE NetInv'
    BY <1>3, NetOperation
  <1>4. ASSUME NEW m \in Machines, SetRemoteData(m) PROVE NetInv'
    BY <1>4, NetSetRemoteData
  <1>5. ASSUME NEW m \in Machines, EndOfLatency(m) PROVE NetInv'
    BY <1>5, NetFault DEF EndOfLatency, storage
  <1>6. ASSUME NEW m \in Machines, CloseMachine(m) PROVE NetInv'
    BY <1>6, NetCloseMachine
  <1>7. ASSUME NEW r \in StorageConnections, StorageEstablished(r) PROVE NetInv'
    BY <1>7, NetStorageEstablished
  <1>8. ASSUME NEW sub \in sent, Response(sub) PROVE NetInv'
    BY <1>8, NetResponse
  <1>9. CASE UNCHANGED vars
    BY <1>9, NetFault DEF vars, storage
  <1>10. QED
    BY <1>1, <1>2, <1>3, <1>4, <1>5, <1>6, <1>7, <1>8, <1>9 DEF Next

\* In every state of the network the tables of each node have for each row an entry and a
\* listener of the same port, and a connection that a client opens or sends through leads
\* to the server it asked for (H_NETManager_Base, PortTable, PortAddressTranslation).
THEOREM NetworkInvariant == Spec => []NetInv
  <1>1. QED
    BY NetInit, NetNext, PTL DEF Spec

\* A message reaches the job that listens at the virtual address and port of its client's
\* user, although users share virtual addresses and the ports of PAT are used again.
THEOREM MessagesReachAddressee == Spec => []DeliveredToAddressee
  <1>1. NetInv => DeliveredToAddressee
    BY DEF NetInv
  <1>2. QED
    BY <1>1, NetworkInvariant, PTL

\* No port of a node has two listeners, and what the port table gives for a machine is in
\* the machine's cell and has a job of that machine behind it.
THEOREM TablesStayRight == Spec => []TablesAgree
  <1>1. NetInv => TablesAgree
    BY DEF NetInv, Tables, ListenedOnce, RowRight, Listener, TablesAgree
  <1>2. QED
    BY <1>1, NetworkInvariant, PTL

-------------------------------------------------------------------------------
(* Operations on remote storage.                                           *)

\* The requests that wait for a port are those of clients.
PendingRight ==
    /\ IsFun(pendingConnections, Nodes)
    /\ \A n \in Nodes :
          /\ IsSeq(pendingConnections[n])
          /\ \A e \in Range(pendingConnections[n]) :
                e = [request |-> e.request, times |-> e.times] /\ e.request \in Clients

\* A job's operation has been asked once it is sent.
AskedRight ==
    /\ asked \subseteq Jobs
    /\ \A j \in Jobs : j \in asked <=> phase[j] \in {"sent", "done"}

\* What waits at a machine for a connection are jobs of the machine, once each.
WaitingRight ==
    \A m \in Machines : \A i \in DOMAIN connecting[m] :
        /\ MachineOf[connecting[m][i]] = m /\ phase[connecting[m][i]] = "connecting"
        /\ \A k \in DOMAIN connecting[m] : connecting[m][i] = connecting[m][k] => i = k

\* What is asked of a cell, and the connections on their way, are of jobs that have begun.
BegunRight ==
    /\ \A m \in Machines : \A i \in DOMAIN asking[m] : phase[asking[m][i][1]] # "idle"
    /\ \A r \in StorageConnections : connection[r].status = "opening" => phase[r[1]] # "idle"

IsCell(c) == c = [fs |-> c.fs, connections |-> c.connections, active |-> c.active,
                  servers |-> c.servers, lost |-> c.lost]

\* The cell of machine m, whose jobs have job j's file system, is connected to target
\* nodes, once to each, and to all of them once nothing is asked.
CellRight(m, j) ==
    LET s == cell[m].connections IN
    /\ IsSeq(s) /\ \A c \in Range(s) : c = [node |-> c.node, id |-> c.id] /\ c.node \in Range(TargetsOf[j])
    /\ \A i, k \in DOMAIN s : s[i].node = s[k].node => i = k
    /\ phase[j] # "idle" =>
          \A n \in Range(TargetsOf[j]) :
              (\E c \in Range(s) : c.node = n) \/ \E i \in DOMAIN asking[m] : asking[m][i][2] = n
    /\ cell[m].active => cell[m].servers = Len(TargetsOf[j])

CellsRight ==
    /\ IsFun(cell, Machines) /\ \A m \in Machines : IsCell(cell[m])
    /\ \A j \in Jobs : FsOf[j] = "PFS" => CellRight(MachineOf[j], j)

\* The request for a part of an operation.
PartRequest(j, i) ==
    [parent |-> j, part |-> i, server |-> IF FsOf[j] = "PFS" THEN ServerOf(j, i, Len(TargetsOf[j])) ELSE 1]

\* A request that is not yet answered is for a part that has not been served; NFS serves
\* the parts in their order.
SubRight(s) ==
    /\ s.parent \in asked /\ s.part \in 0 .. PartsOf(s.parent) - 1
    /\ s = PartRequest(s.parent, s.part)
    /\ s.part \notin transferred[s.parent]
    /\ FsOf[s.parent] = "NFS" => transferred[s.parent] = 0 .. s.part - 1

Sendable(s, m) ==
    SubRight(s) /\ FsOf[s.parent] = "PFS" /\ MachineOf[s.parent] = m /\ s \notin sent

\* What the PFS of machine m has still to send, each request once.
QueueHolds(m) ==
    /\ IsSeq(queue[m]) /\ \A i, k \in DOMAIN queue[m] : queue[m][i] = queue[m][k] => i = k
    /\ \A s \in Range(queue[m]) : Sendable(s, m)
    /\ latency[m] # NULL => Sendable(latency[m], m) /\ latency[m] \notin Range(queue[m])

PartsRight ==
    /\ IsFun(queue, Machines) /\ IsFun(latency, Machines)
    /\ \A m \in Machines : QueueHolds(m)
    /\ \A s \in sent : SubRight(s)

\* The responses of an operation have been counted, and its answer is sent after the last.
CountRight ==
    /\ IsFun(arrivedSubRequests, Jobs) /\ IsFun(transferred, Jobs)
    /\ \A j \in Jobs : /\ transferred[j] \subseteq 0 .. PartsOf(j) - 1
                       /\ arrivedSubRequests[j] = Cardinality(transferred[j])
                       /\ transferred[j] # {} => j \in asked
                       /\ j \in answered => transferred[j] = 0 .. PartsOf(j) - 1

StorageInv ==
    /\ PendingRight /\ AskedRight /\ WaitingRight /\ BegunRight /\ CellsRight
    /\ PartsRight /\ CountRight

\* A client that waits.
LEMMA PendingAsk ==
    ASSUME PendingRight, NEW c \in Clients, AskConnection(c)
    PROVE  PendingRight'
  <1> DEFINE new == [request |-> c, times |-> 0]
  <1>1. PICK n \in Nodes : n = HostOf[MachineOf[c]]
    BY Constants
  <1>2. CASE UNCHANGED pendingConnections
    BY <1>2 DEF PendingRight
  <1>3. CASE pendingConnections' = [pendingConnections EXCEPT ![n] = Append(@, new)]
    <2>1. new = [request |-> new.request, times |-> new.times] /\ new.request \in Clients
      OBVIOUS
    <2>2. IsFun(pendingConnections, Nodes) /\ IsSeq(pendingConnections[n])
      BY DEF PendingRight
    <2> HIDE DEF new
    <2>3. /\ IsFun(pendingConnections', Nodes) /\ pendingConnections'[n] = Append(pendingConnections[n], new)
          /\ \A k \in Nodes : k # n => pendingConnections'[k] = pendingConnections[k]
      BY <1>3, <2>2 DEF IsFun
    <2>4. /\ IsSeq(pendingConnections'[n])
          /\ Range(pendingConnections'[n]) = Range(pendingConnections[n]) \cup {new}
      BY <2>2, <2>3, AppendRange
    <2>5. QED
      BY <2>1, <2>3, <2>4 DEF PendingRight
  <1>4. QED
    BY <1>1, <1>2, <1>3 DEF AskConnection, waiting

\* What stays in the queue was there, and what expires is of a client.
LEMMA PendingCheck ==
    ASSUME PendingRight, NEW n \in Nodes, CheckPendingMessages(n)
    PROVE  PendingRight' /\ \E S \in SUBSET Clients :
              phase' = [a \in DOMAIN phase |-> IF a \in S THEN "port not open" ELSE phase[a]]
  <1> DEFINE q == pendingConnections[n]
             Order(S) == Filter([i \in DOMAIN q |-> i], S)
             Left(v, o) == [k \in DOMAIN o |->
                 IF v[o[k]] THEN [q[o[k]] EXCEPT !.times = @ + 1] ELSE q[o[k]]]
             Refused(S) == [a \in DOMAIN phase |->
                 IF a \in {q[i].request : i \in S} THEN "port not open" ELSE phase[a]]
  <1>1. PICK visited, stay, leaving :
            /\ stay \subseteq DOMAIN q /\ leaving \subseteq DOMAIN q
            /\ pendingConnections' = [pendingConnections EXCEPT ![n] = Left(visited, Order(stay))]
            /\ phase' = Refused(leaving)
    <2> DEFINE visited[i \in DOMAIN q] == i = 1 \/ ~(visited[i - 1] /\ LeavesQueue(q[i - 1]))
               leaves(i) == visited[i] /\ LeavesQueue(q[i])
               stay == {i \in DOMAIN q : ~leaves(i)}
               leaving == {i \in DOMAIN q : leaves(i) /\ Expired(q[i])}
    <2>1. /\ pendingConnections' = [pendingConnections EXCEPT ![n] = Left(visited, Order(stay))]
          /\ phase' = Refused(leaving)
      BY DEF CheckPendingMessages
    <2>2. stay \subseteq DOMAIN q /\ leaving \subseteq DOMAIN q
      OBVIOUS
    <2> HIDE DEF q, Order, Left, Refused, visited, stay, leaving
    <2>3. QED
      BY <2>1, <2>2
  <1>o. PICK order : order = Order(stay)
    OBVIOUS
  <1> DEFINE next == Left(visited, order)
  <1>2. IsFun(pendingConnections, Nodes) /\ IsSeq(q)
    BY DEF PendingRight
  <1>3. \A i \in DOMAIN q : q[i] = [request |-> q[i].request, times |-> q[i].times] /\ q[i].request \in Clients
    BY DEF PendingRight, Range
  <1>4. PICK l \in Nat : DOMAIN q = 1 .. l
    BY <1>2 DEF IsSeq
  <1>5. IsSeq(order) /\ Range(order) \subseteq DOMAIN q
    <2> DEFINE ids == [i \in DOMAIN q |-> i]
    <2>1. IsSeq(ids) /\ Range(ids) \subseteq DOMAIN q
      BY <1>4 DEF IsSeq, Range
    <2> HIDE DEF ids
    <2>2. IsSeq(Filter(ids, stay)) /\ Range(Filter(ids, stay)) \subseteq DOMAIN q
      BY <2>1, FilterRange
    <2>3. QED
      BY <1>o, <2>2 DEF ids
  <1>6. pendingConnections' = [pendingConnections EXCEPT ![n] = next]
    BY <1>1, <1>o
  <1>7. {q[i].request : i \in leaving} \in SUBSET Clients
    BY <1>1, <1>3
  <1> HIDE DEF q
  <1>8. PICK k \in Nat : DOMAIN order = 1 .. k
    BY <1>5 DEF IsSeq
  <1>9. \A i \in 1 .. k : order[i] \in DOMAIN q
    BY <1>5, <1>8 DEF Range
  <1>10. \A i \in 1 .. k : next[i] = [request |-> next[i].request, times |-> next[i].times]
                           /\ next[i].request \in Clients
    <2> TAKE i \in 1 .. k
    <2>1. PICK x : x = q[order[i]]
      OBVIOUS
    <2>2. x = [request |-> x.request, times |-> x.times] /\ x.request \in Clients
      BY <1>3, <1>9, <2>1
    <2>3. next[i] \in {x, [x EXCEPT !.times = @ + 1]}
      BY <1>8, <2>1
    <2> HIDE DEF next
    <2>4. next[i] = x \/ next[i] = [request |-> x.request, times |-> x.times + 1]
      BY <2>2, <2>3
    <2>5. QED
      BY <2>2, <2>4
  <1>11. IsSeq(next) /\ DOMAIN next = 1 .. k
    <2>1. next = [i \in 1 .. k |-> next[i]]
      BY <1>8
    <2> HIDE DEF next
    <2>2. \A i \in 1 .. k : next[i] \in Range(next)
      BY <2>1 DEF Range
    <2>3. QED
      BY <2>1, <2>2 DEF IsSeq
  <1> HIDE DEF next
  <1>12. \A e \in Range(next) : e = [request |-> e.request, times |-> e.times] /\ e.request \in Clients
    BY <1>10, <1>11 DEF Range
  <1>13. PendingRight'
    <2>1. /\ IsFun(pendingConnections', Nodes) /\ pendingConnections'[n] = next
          /\ \A o \in Nodes : o # n => pendingConnections'[o] = pendingConnections[o]
      BY <1>2, <1>6 DEF IsFun
    <2>2. QED
      BY <1>11, <1>12, <2>1 DEF PendingRight
  <1>14. QED
    BY <1>1, <1>7, <1>13 DEF q

\* The steps of clients and servers are none of the storage's jobs.
LEMMA NetworkJobs ==
    ASSUME NetInv, PendingRight, NetworkNext
    PROVE  /\ PendingRight' /\ \A j \in Jobs : phase'[j] = phase[j]
           /\ \A r \in StorageConnections : connection'[r].status = "opening" => connection[r].status = "opening"
  <1> DEFINE Quiet == \A r \in StorageConnections :
                         connection'[r].status = "opening" => connection[r].status = "opening"
             Goal == PendingRight' /\ (\A j \in Jobs : phase'[j] = phase[j]) /\ Quiet
  <1>a. phase \in [Servers \cup Clients \cup Jobs -> Phases]
    BY DEF NetInv, ClientsRight
  <1>b. \A c \in Clients \cup Servers : c \notin Jobs
    BY Constants
  <1>c. \A c \in Clients : c \in Requests /\ c \notin StorageConnections
    BY Constants DEF Requests
  <1>d. UNCHANGED pendingConnections => PendingRight'
    BY DEF PendingRight
  <1>1. ASSUME NEW a \in Servers, Listen(a) PROVE Goal
    <2>1. UNCHANGED connection
      BY <1>1 DEF Listen, Listens, network
    <2>2. QED
      BY <1>1, <1>a, <1>b, <1>d, <2>1 DEF Listen, waiting
  <1>2. ASSUME NEW a \in Servers, ServerEnds(a) PROVE Goal
    BY <1>2, <1>a, <1>b, <1>d DEF ServerEnds, waiting, network
  <1>3. ASSUME NEW c \in Clients, AskConnection(c) PROVE Goal
    <2>1. phase' = [phase EXCEPT ![c] = "asking"]
      BY <1>3 DEF AskConnection
    <2>2. UNCHANGED connection \/ CreateConnection(c, Destination(c))
      BY <1>3 DEF AskConnection, network
    <2>3. \A r \in Requests : r # c => connection'[r] = connection[r]
      <3>1. IsFun(connection, Requests)
        BY DEF NetInv, ClientsRight
      <3>2. QED
        BY <2>2, <3>1 DEF CreateConnection, IsFun
    <2>4. Quiet
      BY <1>c, <2>3 DEF Requests
    <2>5. QED
      BY <1>3, <1>a, <1>b, <2>1, <2>4, PendingAsk
  <1>4. ASSUME NEW c \in Clients, ClientEstablished(c) PROVE Goal
    <2>1. Established(c) /\ phase' = [phase EXCEPT ![c] = "connected"]
      BY <1>4 DEF ClientEstablished
    <2>2. SameConnections
      BY <1>c, <2>1, NetEstablished
    <2>3. Quiet
      BY <2>2 DEF SameConnections, Requests
    <2>4. QED
      BY <1>a, <1>b, <1>d, <2>1, <2>3 DEF Established, waiting
  <1>5. ASSUME NEW c \in Clients, Send(c) \/ Answer(c) PROVE Goal
    BY <1>5, <1>a, <1>b, <1>d DEF Send, Answer, waiting, network
  <1>6. ASSUME NEW c \in Clients, Deliver(c) PROVE Goal
    <2>1. UNCHANGED <<connection, pendingConnections>>
      BY <1>6 DEF Deliver, waiting
    <2>2. phase' = phase \/ phase' = [phase EXCEPT ![c] = "delivered"]
      BY <1>6 DEF Deliver
    <2>3. QED
      BY <1>a, <1>b, <1>d, <2>1, <2>2
  <1>7. ASSUME NEW r \in Requests, AliasEstablished(r) PROVE Goal
    BY <1>7, <1>d DEF AliasEstablished, waiting, network
  <1>8. ASSUME NEW n \in Nodes, CheckPendingMessages(n) PROVE Goal
    <2>1. UNCHANGED connection
      BY <1>8 DEF CheckPendingMessages, network
    <2>2. PICK S \in SUBSET Clients :
              phase' = [a \in DOMAIN phase |-> IF a \in S THEN "port not open" ELSE phase[a]]
      BY <1>8, PendingCheck
    <2>3. PendingRight'
      BY <1>8, PendingCheck
    <2>4. QED
      BY <1>a, <1>b, <2>1, <2>2, <2>3
  <1>9. QED
    BY <1>1, <1>2, <1>3, <1>4, <1>5, <1>6, <1>7, <1>8 DEF NetworkNext

\* What is on its way does not change with the connections.
LEMMA PartsKept ==
    ASSUME PartsRight, CountRight, UNCHANGED io
    PROVE  PartsRight' /\ CountRight'
  <1>1. UNCHANGED <<queue, latency, sent, arrivedSubRequests, asked, transferred, answered>>
    BY DEF io
  <1>2. CountRight'
    BY <1>1 DEF CountRight
  <1>3. \A s : (SubRight(s) => SubRight(s)') /\ \A m : Sendable(s, m) => Sendable(s, m)'
    BY <1>1 DEF SubRight, Sendable
  <1>4. \A m \in Machines : QueueHolds(m)'
    BY <1>1, <1>3 DEF PartsRight, QueueHolds
  <1>5. QED
    BY <1>1, <1>2, <1>3, <1>4 DEF PartsRight

\* Jobs do not fall back.
LEMMA BegunKept ==
    ASSUME AskingRight, BegunRight, UNCHANGED asking,
           \A j \in Jobs : phase[j] # "idle" => phase'[j] # "idle",
           \A r \in StorageConnections : connection'[r].status = "opening" => connection[r].status = "opening"
    PROVE  BegunRight'
  <1>1. \A m \in Machines : \A i \in DOMAIN asking[m] : asking[m][i] \in StorageConnections
    BY DEF AskingRight
  <1>2. \A r \in StorageConnections : r[1] \in Jobs
    BY Constants
  <1>3. QED
    BY <1>1, <1>2 DEF BegunRight

LEMMA CellsKept ==
    ASSUME CellsRight, UNCHANGED <<cell, asking>>,
           \A j \in Jobs : phase'[j] # "idle" => phase[j] # "idle"
    PROVE  CellsRight'
  <1>1. \A j \in Jobs : CellRight(MachineOf[j], j) => CellRight(MachineOf[j], j)'
    BY DEF CellRight
  <1>2. QED
    BY <1>1 DEF CellsRight

\* A step in which no job of the storage moves.
LEMMA StorageKept ==
    ASSUME AskingRight, StorageInv, PendingRight', UNCHANGED <<asking, cell, connecting>>, UNCHANGED io,
           \A j \in Jobs : phase'[j] = phase[j],
           \A r \in StorageConnections : connection'[r].status = "opening" => connection[r].status = "opening"
    PROVE  StorageInv'
  <1>1. PartsRight' /\ CountRight'
    BY PartsKept DEF StorageInv
  <1>2. BegunRight'
    BY BegunKept DEF StorageInv
  <1>3. CellsRight'
    BY CellsKept DEF StorageInv
  <1>4. AskedRight'
    BY DEF AskedRight, StorageInv, io
  <1>5. WaitingRight'
    <2>1. \A m \in Machines : \A i \in DOMAIN connecting[m] : connecting[m][i] \in Jobs
      BY DEF AskingRight
    <2>2. QED
      BY <2>1 DEF WaitingRight, StorageInv
  <1>6. QED
    BY <1>1, <1>2, <1>3, <1>4, <1>5 DEF StorageInv

\* The oldest jobs that wait at a machine are told.
LEMMA JobsTold ==
    ASSUME NetInv, StorageInv, NEW m \in Machines, NEW times \in Nat, Notify(m, times), UNCHANGED asked
    PROVE  /\ AskedRight' /\ WaitingRight'
           /\ \A j \in Jobs : phase'[j] = "idle" <=> phase[j] = "idle"
  <1>1. connecting \in [Machines -> Seq(Jobs)] /\ phase \in [Servers \cup Clients \cup Jobs -> Phases]
    BY DEF NetInv, AskingRight, ClientsRight
  <1>2. PICK w \in Seq(Jobs), l \in Nat : w = connecting[m] /\ l = Len(w) /\ DOMAIN w = 1 .. l
    BY <1>1
  <1> DEFINE told == {w[i] : i \in {i \in 1 .. l : i <= times}}
  <1>3. \A j \in Jobs : phase'[j] = IF j \in told THEN "connected" ELSE phase[j]
    BY <1>1, <1>2 DEF Notify
  <1>4. /\ \A i \in 1 .. l : w[i] \in Jobs /\ MachineOf[w[i]] = m /\ phase[w[i]] = "connecting"
        /\ \A i, k \in 1 .. l : w[i] = w[k] => i = k
    BY <1>2 DEF StorageInv, WaitingRight
  <1>5. \A j \in told : phase[j] = "connecting" /\ MachineOf[j] = m
    BY <1>4
  <1>6. PICK rest : rest = SubSeq(w, times + 1, l)
    OBVIOUS
  <1>7. /\ rest \in Seq(Jobs) /\ \A i \in DOMAIN rest : times + i \in 1 .. l /\ rest[i] = w[times + i] /\ i \in Nat /\ i > 0
    BY <1>2, <1>6
  <1>8. /\ connecting'[m] = rest /\ \A o \in Machines : o # m => connecting'[o] = connecting[o]
    BY <1>1, <1>2, <1>6 DEF Notify
  <1>9. AskedRight'
    BY <1>3, <1>5 DEF StorageInv, AskedRight
  <1>10. WaitingRight'
    <2> SUFFICES ASSUME NEW o \in Machines, NEW i \in DOMAIN connecting'[o]
                 PROVE  /\ MachineOf[connecting'[o][i]] = o /\ phase'[connecting'[o][i]] = "connecting"
                        /\ \A k \in DOMAIN connecting'[o] : connecting'[o][i] = connecting'[o][k] => i = k
      BY DEF WaitingRight
    <2>1. CASE o = m
      <3>1. rest[i] \notin told
        <4> SUFFICES ASSUME NEW k \in 1 .. l, k <= times, rest[i] = w[k] PROVE FALSE
          OBVIOUS
        <4>1. rest[i] = w[times + i] /\ times + i \in 1 .. l /\ i \in Nat /\ i > 0
          BY <1>7, <1>8, <2>1
        <4>2. k = times + i
          BY <1>4, <4>1
        <4>3. QED
          BY <4>1, <4>2
      <3>2. rest[i] = w[times + i] /\ times + i \in 1 .. l
        BY <1>7, <1>8, <2>1
      <3>3. \A k \in DOMAIN rest : rest[i] = rest[k] => i = k
        BY <1>4, <1>7, <1>8, <2>1
      <3>4. MachineOf[rest[i]] = m /\ phase'[rest[i]] = "connecting"
        BY <1>3, <1>4, <3>1, <3>2
      <3>5. QED
        BY <1>8, <2>1, <3>3, <3>4
    <2>2. CASE o # m
      <3>1. connecting'[o] = connecting[o]
        BY <1>8, <2>2
      <3>2. connecting[o][i] \in Jobs /\ MachineOf[connecting[o][i]] = o
        BY <1>1, <3>1 DEF StorageInv, WaitingRight
      <3> HIDE DEF told
      <3>3. connecting[o][i] \notin told
        BY <1>5, <2>2, <3>2
      <3>4. QED
        BY <1>3, <3>1, <3>2, <3>3 DEF StorageInv, WaitingRight
    <2>3. QED
      BY <2>1, <2>2
  <1>11. \A j \in Jobs : phase'[j] = "idle" <=> phase[j] = "idle"
    BY <1>3, <1>5
  <1>12. QED
    BY <1>9, <1>10, <1>11

\* The same of the first part of Operation: a job moves on by itself.
LEMMA WaitingStays ==
    ASSUME AskingRight, WaitingRight, UNCHANGED connecting,
           \A j \in Jobs : phase[j] = "connecting" => phase'[j] = "connecting"
    PROVE  WaitingRight'
  <1>1. \A m \in Machines : \A i \in DOMAIN connecting[m] : connecting[m][i] \in Jobs
    BY DEF AskingRight
  <1>2. QED
    BY <1>1 DEF WaitingRight

\* Jobs that wait for a connection and those that have asked for one.
LEMMA StoConnect ==
    ASSUME NetInv, StorageInv, NEW j \in Jobs, ConnectToStorage(j)
    PROVE  StorageInv'
  <1>1. PICK m \in Machines : m = MachineOf[j]
    BY Constants
  <1>2. /\ phase[j] = "idle" /\ phase' = [phase EXCEPT ![j] = "connecting"]
        /\ asking' = [asking EXCEPT ![m] = @ \o [i \in DOMAIN TargetsOf[j] |-> <<j, TargetsOf[j][i]>>]]
        /\ connecting' = [connecting EXCEPT ![m] = Append(@, j)]
        /\ UNCHANGED <<waiting, cell>> /\ UNCHANGED io
    BY <1>1 DEF ConnectToStorage
  <1>3. \A k \in Jobs : phase'[k] = IF k = j THEN "connecting" ELSE phase[k]
    BY <1>2 DEF NetInv, ClientsRight
  <1>4. UNCHANGED connection
    BY DEF ConnectToStorage, Listens, network
  <1>5. /\ asking' \in [Machines -> Seq(StorageConnections)]
        /\ \A o \in Machines : \A i \in DOMAIN asking[o] :
              i \in DOMAIN asking'[o] /\ asking'[o][i] = asking[o][i]
        /\ \A o \in Machines : \A i \in DOMAIN asking'[o] :
              (i \in DOMAIN asking[o] /\ asking'[o][i] = asking[o][i]) \/ asking'[o][i][1] = j
        /\ \A n \in Range(TargetsOf[j]) : \E i \in DOMAIN asking'[m] : asking'[m][i][2] = n
    <2>1. AskingRight
      BY DEF NetInv
    <2>2. asking' = [asking EXCEPT ![m] = @ \o [i \in DOMAIN TargetsOf[j] |-> <<j, TargetsOf[j][i]>>]]
      BY <1>2
    <2> HIDE DEF NetInv
    <2>3. asking' \in [Machines -> Seq(StorageConnections)]
      BY <1>1, <2>1, <2>2, AsksAdded
    <2>4. \A o \in Machines : \A i \in DOMAIN asking[o] :
              i \in DOMAIN asking'[o] /\ asking'[o][i] = asking[o][i]
      BY <1>1, <2>1, <2>2, AsksAdded
    <2>5. \A o \in Machines : \A i \in DOMAIN asking'[o] :
              (i \in DOMAIN asking[o] /\ asking'[o][i] = asking[o][i]) \/ asking'[o][i][1] = j
      BY <1>1, <2>1, <2>2, AsksAdded
    <2>6. \A n \in Range(TargetsOf[j]) : IsAsked(m, n)'
      BY <1>1, <2>1, <2>2, AsksAdded
    <2>7. \A n \in Range(TargetsOf[j]) : \E i \in DOMAIN asking'[m] : asking'[m][i][2] = n
      BY <2>6 DEF IsAsked
    <2>8. QED
      BY <2>3, <2>4, <2>5, <2>7
  <1>6. PendingRight'
    BY <1>2 DEF PendingRight, StorageInv, waiting
  <1>7. AskedRight'
    BY <1>2, <1>3 DEF AskedRight, StorageInv, io
  <1>8. WaitingRight'
    <2>1. connecting \in [Machines -> Seq(Jobs)]
      BY DEF NetInv, AskingRight
    <2>2. PICK w \in Seq(Jobs), l \in Nat : w = connecting[m] /\ l = Len(w) /\ DOMAIN w = 1 .. l
      BY <2>1
    <2>3. /\ connecting'[m] = Append(w, j)
          /\ \A o \in Machines : o # m => connecting'[o] = connecting[o]
      BY <1>2, <2>1, <2>2
    <2>4. PICK v : v = Append(w, j)
      OBVIOUS
    <2>5. DOMAIN v = 1 .. l + 1 /\ v[l + 1] = j /\ \A i \in 1 .. l : v[i] = w[i]
      BY <2>2, <2>4
    <2>6. \A i \in 1 .. l : /\ MachineOf[w[i]] = m /\ phase[w[i]] = "connecting" /\ w[i] \in Jobs /\ w[i] # j
                            /\ \A k \in 1 .. l : w[i] = w[k] => i = k
      BY <1>2, <2>2 DEF StorageInv, WaitingRight
    <2>7. \A i \in 1 .. l + 1 : i = l + 1 \/ i \in 1 .. l
      OBVIOUS
    <2>8. ASSUME NEW i \in DOMAIN v
          PROVE  /\ MachineOf[v[i]] = m /\ phase'[v[i]] = "connecting"
                 /\ \A k \in DOMAIN v : v[i] = v[k] => i = k
      <3>1. MachineOf[v[i]] = m /\ phase'[v[i]] = "connecting"
        BY <1>1, <1>3, <2>5, <2>6, <2>7
      <3>2. ASSUME NEW k \in DOMAIN v, v[i] = v[k] PROVE i = k
        BY <2>5, <2>6, <2>7, <3>2
      <3>3. QED
        BY <3>1, <3>2
    <2>9. ASSUME NEW o \in Machines, o # m, NEW i \in DOMAIN connecting[o]
          PROVE  /\ MachineOf[connecting[o][i]] = o /\ phase'[connecting[o][i]] = "connecting"
                 /\ \A k \in DOMAIN connecting[o] : connecting[o][i] = connecting[o][k] => i = k
      <3>1. connecting[o][i] \in Jobs
        BY <2>1
      <3>2. QED
        BY <1>3, <3>1 DEF StorageInv, WaitingRight
    <2>10. QED
      BY <2>3, <2>4, <2>8, <2>9 DEF WaitingRight
  <1>9. BegunRight'
    <2>1. ASSUME NEW o \in Machines, NEW i \in DOMAIN asking'[o] PROVE phase'[asking'[o][i][1]] # "idle"
      <3>1. asking'[o][i] \in StorageConnections
        BY <1>5
      <3>2. asking'[o][i][1] \in Jobs
        BY <3>1, Constants
      <3>3. QED
        BY <1>3, <1>5, <3>2 DEF StorageInv, BegunRight
    <2>2. ASSUME NEW r \in StorageConnections, connection'[r].status = "opening" PROVE phase'[r[1]] # "idle"
      <3>1. r[1] \in Jobs
        BY Constants
      <3>2. QED
        BY <1>3, <1>4, <2>2, <3>1 DEF StorageInv, BegunRight
    <2>3. QED
      BY <2>1, <2>2 DEF BegunRight
  <1>10. CellsRight'
    <2>1. IsFun(cell', Machines) /\ \A o \in Machines : IsCell(cell'[o])
      BY <1>2 DEF StorageInv, CellsRight
    <2>2. ASSUME NEW k \in Jobs, FsOf[k] = "PFS" PROVE CellRight(MachineOf[k], k)'
      <3>1. CellRight(MachineOf[k], k) /\ MachineOf[k] \in Machines
        BY <2>2, Constants DEF StorageInv, CellsRight
      <3>2. PICK o \in Machines : o = MachineOf[k]
        BY <3>1
      <3>3. ASSUME NEW n \in Range(TargetsOf[k]), phase'[k] # "idle"
            PROVE  \/ \E c \in Range(cell[o].connections) : c.node = n
                   \/ \E i \in DOMAIN asking'[o] : asking'[o][i][2] = n
        <4>1. CASE k = j
          BY <1>1, <1>5, <3>2, <4>1
        <4>2. CASE k # j
          BY <1>3, <1>5, <3>1, <3>2, <3>3, <4>2 DEF CellRight
        <4>3. QED
          BY <4>1, <4>2
      <3>4. QED
        BY <1>2, <3>1, <3>2, <3>3 DEF CellRight
    <2>3. QED
      BY <2>1, <2>2 DEF CellsRight
  <1>11. PartsRight' /\ CountRight'
    BY <1>2, PartsKept DEF StorageInv
  <1>12. QED
    BY <1>6, <1>7, <1>8, <1>9, <1>10, <1>11 DEF StorageInv

\* The target nodes of a job differ.
LEMMA TargetFacts ==
    /\ \A j \in Jobs : /\ TargetsOf[j] \in Seq(Nodes) /\ OperationOf[j] \in {"OPEN", "CREATE", "READ"}
                       /\ \A i, k \in DOMAIN TargetsOf[j] : TargetsOf[j][i] = TargetsOf[j][k] => i = k
    /\ \A r \in StorageConnections : r[1] \in Jobs /\ r[2] \in Range(TargetsOf[r[1]])
    /\ NfsRequests \in Nat \ {0}
  BY StorageAssumption DEF StorageAssumption, IsInjective

\* Sequences without repetition of the same elements have one length.
LEMMA LengthOfRange ==
    ASSUME NEW n \in Nat, NEW f, NEW S, \A i \in 1 .. n : f[i] \in S,
           \A i, k \in 1 .. n : f[i] = f[k] => i = k, \A x \in S : \E i \in 1 .. n : f[i] = x
    PROVE  Cardinality(S) = n
  <1> DEFINE b == [i \in 1 .. n |-> f[i]]
  <1>1. b \in Bijection(1 .. n, S)
    BY DEF Bijection, Injection, Surjection, IsInjective
  <1>2. ExistsBijection(1 .. n, S)
    BY <1>1 DEF ExistsBijection
  <1>3. QED
    BY <1>2, FS_CountingElements

\* Only the cell of one machine changes, and only what is asked of it.
LEMMA CellsOther ==
    ASSUME CellsRight, NEW m \in Machines, IsFun(cell', Machines), IsCell(cell'[m]),
           \A o \in Machines : o # m => cell'[o] = cell[o] /\ asking'[o] = asking[o],
           \A j \in Jobs : phase'[j] # "idle" => phase[j] # "idle",
           \A j \in Jobs : FsOf[j] = "PFS" /\ MachineOf[j] = m => CellRight(m, j)'
    PROVE  CellsRight'
  <1>1. \A o \in Machines : IsCell(cell'[o])
    BY DEF CellsRight
  <1>2. ASSUME NEW j \in Jobs, FsOf[j] = "PFS" PROVE CellRight(MachineOf[j], j)'
    <2>1. PICK o \in Machines : o = MachineOf[j]
      BY Constants
    <2>2. CASE o = m
      BY <1>2, <2>1, <2>2
    <2>3. CASE o # m
      <3>1. CellRight(o, j) /\ cell'[o] = cell[o] /\ asking'[o] = asking[o]
        BY <1>2, <2>1, <2>3 DEF CellsRight
      <3>2. CellRight(o, j)'
        BY <3>1 DEF CellRight
      <3>3. QED
        BY <2>1, <3>2
    <2>4. QED
      BY <2>2, <2>3
  <1>3. QED
    BY <1>1, <1>2 DEF CellsRight

\* A cell whose connections stay the same, once what is first asked of it is there.
LEMMA CellAsked ==
    ASSUME NEW m \in Machines, NEW j \in Jobs, CellRight(m, j), UNCHANGED cell, NEW n,
           \A k \in DOMAIN asking[m] :
              asking[m][k][2] = n \/ \E i \in DOMAIN asking'[m] : asking'[m][i] = asking[m][k],
           \E c \in Range(cell[m].connections) : c.node = n,
           phase'[j] # "idle" => phase[j] # "idle"
    PROVE  CellRight(m, j)'
  <1>1. ASSUME NEW t \in Range(TargetsOf[j]), phase'[j] # "idle"
        PROVE  \/ \E c \in Range(cell[m].connections) : c.node = t
               \/ \E i \in DOMAIN asking'[m] : asking'[m][i][2] = t
    <2>1. CASE \E c \in Range(cell[m].connections) : c.node = t
      BY <2>1
    <2>2. CASE \E k \in DOMAIN asking[m] : asking[m][k][2] = t
      BY <2>2
    <2>3. QED
      BY <1>1, <2>1, <2>2 DEF CellRight
  <1>2. QED
    BY <1>1 DEF CellRight

\* A connection is added to a cell.
LEMMA CellConnected ==
    ASSUME NEW m \in Machines, NEW j \in Jobs, CellRight(m, j), NEW n \in Range(TargetsOf[j]),
           \A k \in DOMAIN asking[m] :
              asking[m][k][2] = n \/ \E i \in DOMAIN asking'[m] : asking'[m][i] = asking[m][k],
           \A c \in Range(cell[m].connections) : c.node # n,
           cell'[m].connections = Append(cell[m].connections, [node |-> n, id |-> NULL]),
           cell'[m].active = cell[m].active, cell'[m].servers = cell[m].servers,
           phase'[j] # "idle" => phase[j] # "idle"
    PROVE  CellRight(m, j)'
  <1> DEFINE new == [node |-> n, id |-> NULL]
  <1>1. PICK s : s = cell[m].connections
    OBVIOUS
  <1>2. /\ IsSeq(s)
        /\ \A c \in Range(s) : c = [node |-> c.node, id |-> c.id] /\ c.node \in Range(TargetsOf[j]) /\ c.node # n
        /\ \A i, k \in DOMAIN s : s[i].node = s[k].node => i = k
    BY <1>1 DEF CellRight
  <1>3. new = [node |-> new.node, id |-> new.id] /\ new.node = n
    OBVIOUS
  <1> HIDE DEF new
  <1>4. PICK t : t = Append(s, new)
    OBVIOUS
  <1>5. PICK l \in Nat : /\ DOMAIN s = 1 .. l /\ DOMAIN t = 1 .. l + 1 /\ t[l + 1] = new
                         /\ \A i \in 1 .. l : t[i] = s[i]
                         /\ IsSeq(t) /\ Range(t) = Range(s) \cup {new}
    <2>1. IsSeq(s)
      BY <1>2
    <2>2. /\ IsSeq(t) /\ Range(t) = Range(s) \cup {new}
          /\ DOMAIN s = 1 .. Len(s) /\ Len(s) \in Nat
          /\ DOMAIN t = 1 .. Len(s) + 1 /\ t[Len(s) + 1] = new
          /\ \A i \in DOMAIN s : t[i] = s[i]
      BY <1>4, <2>1, AppendRange
    <2>3. QED
      BY <2>2
  <1>6. cell'[m].connections = t
    BY <1>1, <1>4 DEF new
  <1>7. \A c \in Range(t) : c = [node |-> c.node, id |-> c.id] /\ c.node \in Range(TargetsOf[j])
    BY <1>2, <1>3, <1>5
  <1>8. ASSUME NEW i \in DOMAIN t, NEW k \in DOMAIN t, t[i].node = t[k].node PROVE i = k
    <2>1. \A x \in 1 .. l + 1 : x = l + 1 \/ x \in 1 .. l
      OBVIOUS
    <2>2. \A x \in 1 .. l : s[x] \in Range(s)
      BY <1>5 DEF Range
    <2>3. \A x \in 1 .. l : t[x].node # n
      BY <1>2, <1>5, <2>2
    <2>4. QED
      BY <1>2, <1>3, <1>5, <1>8, <2>1, <2>3
  <1>9. ASSUME NEW x \in Range(TargetsOf[j]), phase'[j] # "idle"
        PROVE  \/ \E c \in Range(t) : c.node = x
               \/ \E i \in DOMAIN asking'[m] : asking'[m][i][2] = x
    <2>1. CASE \E c \in Range(s) : c.node = x
      BY <1>5, <2>1
    <2>2. CASE \E k \in DOMAIN asking[m] : asking[m][k][2] = x
      BY <1>3, <1>5, <2>2
    <2>3. QED
      BY <1>1, <1>9, <2>1, <2>2 DEF CellRight
  <1>10. cell[m].active => cell[m].servers = Len(TargetsOf[j])
    BY DEF CellRight
  <1>11. QED
    BY <1>5, <1>6, <1>7, <1>8, <1>9, <1>10 DEF CellRight

\* The cell of a machine gets a first connection to a node.
LEMMA FirstCell ==
    ASSUME NEW m \in Machines, IsFun(cell, Machines), IsCell(cell[m]), NEW n, NEW fs,
           NEW new, new = [node |-> n, id |-> NULL],
           \/ cell[m] = NoCell /\ cell' = [cell EXCEPT ![m] = NewCell(fs, n)]
           \/ /\ ~ExistsConnection(m, n)
              /\ cell' = [cell EXCEPT ![m].connections = Append(@, [node |-> n, id |-> NULL])]
    PROVE  /\ IsFun(cell', Machines) /\ IsCell(cell'[m])
           /\ \A o \in Machines : o # m => cell'[o] = cell[o]
           /\ cell'[m].active = cell[m].active /\ cell'[m].servers = cell[m].servers
           /\ cell'[m].connections = Append(cell[m].connections, new)
           /\ \A x \in Range(cell[m].connections) : x.node # n
  <1>1. PICK c : /\ cell' = [cell EXCEPT ![m] = c] /\ IsCell(c)
                 /\ c.active = cell[m].active /\ c.servers = cell[m].servers
                 /\ c.connections = Append(cell[m].connections, new)
                 /\ \A x \in Range(cell[m].connections) : x.node # n
    <2>1. CASE cell[m] = NoCell /\ cell' = [cell EXCEPT ![m] = NewCell(fs, n)]
      <3>1. Append(<<>>, new) = <<new>> /\ Range(<<>>) = {}
        BY DEF Range
      <3>2. PICK c : c = NewCell(fs, n)
        OBVIOUS
      <3>3. cell' = [cell EXCEPT ![m] = c]
        BY <2>1, <3>2
      <3>4. /\ IsCell(c) /\ c.active = cell[m].active /\ c.servers = cell[m].servers
            /\ c.connections = Append(cell[m].connections, new)
        BY <2>1, <3>1, <3>2 DEF NoCell, NewCell, IsCell
      <3>5. \A x \in Range(cell[m].connections) : x.node # n
        BY <2>1, <3>1 DEF NoCell
      <3>6. QED
        BY <3>3, <3>4, <3>5
    <2>2. CASE /\ ~ExistsConnection(m, n)
               /\ cell' = [cell EXCEPT ![m].connections = Append(@, [node |-> n, id |-> NULL])]
      <3>1. \A x \in Range(cell[m].connections) : x.node # n
        BY <2>2 DEF ExistsConnection
      <3>2. PICK x, s : x = cell[m] /\ s = Append(cell[m].connections, new)
        OBVIOUS
      <3>3. x = [fs |-> x.fs, connections |-> x.connections, active |-> x.active,
                 servers |-> x.servers, lost |-> x.lost]
        BY <3>2 DEF IsCell
      <3>4. PICK c : c = [x EXCEPT !.connections = s]
        OBVIOUS
      <3>5. cell' = [cell EXCEPT ![m] = c]
        BY <2>2, <3>2, <3>4
      <3>6. c = [fs |-> x.fs, connections |-> s, active |-> x.active, servers |-> x.servers,
                 lost |-> x.lost]
        BY <3>3, <3>4
      <3>7. IsCell(c) /\ c.active = x.active /\ c.servers = x.servers /\ c.connections = s
        BY <3>6 DEF IsCell
      <3>8. QED
        BY <3>1, <3>2, <3>5, <3>7
    <2>3. QED
      BY <2>1, <2>2
  <1>2. /\ IsFun(cell', Machines) /\ cell'[m] = c
        /\ \A o \in Machines : o # m => cell'[o] = cell[o]
    BY <1>1 DEF IsFun
  <1>3. QED
    BY <1>1, <1>2

\* A connection asked of the cell of a machine.
LEMMA StoSetRemote ==
    ASSUME SameStorage, NetInv, StorageInv, NEW m \in Machines, SetRemoteData(m)
    PROVE  StorageInv'
  <1>0. PICK r : r = Head(asking[m])
    OBVIOUS
  <1>1. PICK n : n = r[2]
    OBVIOUS
  <1>2. /\ asking[m] # <<>> /\ asking' = [asking EXCEPT ![m] = Tail(@)]
        /\ FirstConnection(r, n) \/ NfsReplica(r, n) \/ PfsReplica(r, n)
        /\ UNCHANGED waiting /\ UNCHANGED io
    BY <1>0, <1>1 DEF SetRemoteData
  <1>3. /\ r \in StorageConnections /\ Origin(r) = m
        /\ asking' \in [Machines -> Seq(StorageConnections)]
        /\ \A o \in Machines : \A i \in DOMAIN asking'[o] :
              \E k \in DOMAIN asking[o] : asking'[o][i] = asking[o][k]
        /\ \A o \in Machines : o # m => asking'[o] = asking[o]
        /\ 1 \in DOMAIN asking[m] /\ r = asking[m][1]
    BY <1>0, <1>2, AskingTail DEF NetInv
  <1>4. \A k \in DOMAIN asking[m] :
           asking[m][k][2] = n \/ \E i \in DOMAIN asking'[m] : asking'[m][i] = asking[m][k]
    <2>1. AskingRight
      BY DEF NetInv
    <2>2. \A k \in DOMAIN asking[m] :
             asking[m][k] = Head(asking[m]) \/ \E i \in DOMAIN asking'[m] : asking'[m][i] = asking[m][k]
      BY <1>2, <2>1, AskingTail
    <2>3. QED
      BY <1>0, <1>1, <2>2
  <1>5. PICK j \in Jobs : j = r[1] /\ MachineOf[j] = m /\ n \in Range(TargetsOf[j])
    BY <1>1, <1>3, TargetFacts, Constants
  <1>6. phase[j] # "idle"
    BY <1>3, <1>5 DEF StorageInv, BegunRight
  <1>7. PendingRight'
    BY <1>2 DEF PendingRight, StorageInv, waiting
  <1>8. PartsRight' /\ CountRight'
    BY <1>2, PartsKept DEF StorageInv
  <1>9. UNCHANGED asked
    BY <1>2 DEF io
  <1>10. /\ AskedRight' /\ WaitingRight'
         /\ \A k \in Jobs : phase'[k] = "idle" <=> phase[k] = "idle"
    <2>1. CASE Notify(m, 1)
      BY <1>9, <2>1, JobsTold
    <2>2. CASE UNCHANGED <<phase, connecting>>
      <3>1. AskedRight'
        BY <1>9, <2>2 DEF AskedRight, StorageInv
      <3>2. WaitingRight'
        BY <2>2 DEF WaitingRight, StorageInv
      <3>3. QED
        BY <2>2, <3>1, <3>2
    <2>3. Notify(m, 1) \/ UNCHANGED <<phase, connecting>>
      BY <1>2, <1>3 DEF FirstConnection, NfsReplica, PfsReplica
    <2>4. QED
      BY <2>1, <2>2, <2>3
  <1>11. BegunRight'
    <2>1. ASSUME NEW o \in Machines, NEW i \in DOMAIN asking'[o] PROVE phase'[asking'[o][i][1]] # "idle"
      <3>1. asking'[o][i] \in StorageConnections
        BY <1>3
      <3>2. asking'[o][i][1] \in Jobs
        BY <3>1, Constants
      <3>3. QED
        BY <1>3, <1>10, <3>2 DEF StorageInv, BegunRight
    <2>2. ASSUME NEW x \in StorageConnections, connection'[x].status = "opening" PROVE phase'[x[1]] # "idle"
      <3>1. x[1] \in Jobs
        BY Constants
      <3>2. CASE x = r
        BY <1>5, <1>6, <1>10, <3>2
      <3>3. CASE x # r
        <4>1. UNCHANGED connection \/ CreateConnection(r, <<n, RealPort(n, StoragePort, Origin(r))>>)
          BY <1>2 DEF FirstConnection, NfsReplica, PfsReplica, network
        <4>2. x \in Requests /\ IsFun(connection, Requests)
          BY DEF Requests, NetInv, ClientsRight
        <4>3. connection'[x] = connection[x]
          BY <3>3, <4>1, <4>2 DEF CreateConnection, IsFun
        <4>4. QED
          BY <1>10, <2>2, <3>1, <4>3 DEF StorageInv, BegunRight
      <3>4. QED
        BY <3>2, <3>3
    <2>3. QED
      BY <2>1, <2>2 DEF BegunRight
  <1>12. CellsRight'
    <2>1. \A k \in Jobs : phase'[k] # "idle" => phase[k] # "idle"
      BY <1>10
    <2>2. IsFun(cell, Machines) /\ IsCell(cell[m])
      BY DEF StorageInv, CellsRight
    <2>3. \A k \in Jobs : FsOf[k] = "PFS" /\ MachineOf[k] = m =>
             FsOf[j] = "PFS" /\ n \in Range(TargetsOf[k]) /\ CellRight(m, k)
      BY <1>5 DEF SameStorage, StorageInv, CellsRight
    <2>4. CASE FirstConnection(r, n)
      <3>1. PICK fs : fs = FsOf[r[1]]
        OBVIOUS
      <3>2. PICK new : new = [node |-> n, id |-> NULL]
        OBVIOUS
      <3>3. /\ IsFun(cell', Machines) /\ IsCell(cell'[m])
            /\ \A o \in Machines : o # m => cell'[o] = cell[o]
            /\ cell'[m].active = cell[m].active /\ cell'[m].servers = cell[m].servers
            /\ cell'[m].connections = Append(cell[m].connections, new)
            /\ \A x \in Range(cell[m].connections) : x.node # n
        <4>1. \/ cell[m] = NoCell /\ cell' = [cell EXCEPT ![m] = NewCell(fs, n)]
              \/ /\ ~ExistsConnection(m, n)
                 /\ cell' = [cell EXCEPT ![m].connections = Append(@, [node |-> n, id |-> NULL])]
          BY <1>3, <2>4, <3>1 DEF FirstConnection
        <4>2. QED
          BY <2>2, <3>2, <4>1, FirstCell
      <3>4. ASSUME NEW k \in Jobs, FsOf[k] = "PFS", MachineOf[k] = m PROVE CellRight(m, k)'
        BY <1>4, <2>1, <2>3, <3>2, <3>3, <3>4, CellConnected
      <3>5. CellsRight /\ IsCell(cell'[m])
        BY <3>2, <3>3 DEF StorageInv
      <3>6. \A o \in Machines : o # m => cell'[o] = cell[o] /\ asking'[o] = asking[o]
        BY <1>3, <3>3
      <3>7. QED
        BY <2>1, <3>3, <3>4, <3>5, <3>6, CellsOther
    <2>5. CASE NfsReplica(r, n)
      <3>1. FsOf[j] = "NFS" /\ UNCHANGED cell
        BY <1>5, <2>5 DEF NfsReplica
      <3>2. ASSUME NEW k \in Jobs, FsOf[k] = "PFS", MachineOf[k] = m PROVE CellRight(m, k)'
        BY <2>3, <3>1, <3>2
      <3>3. IsFun(cell', Machines) /\ IsCell(cell'[m]) /\ \A o \in Machines : o # m => cell'[o] = cell[o]
        BY <2>2, <3>1
      <3>4. QED
        BY <1>3, <2>1, <3>2, <3>3, CellsOther DEF StorageInv
    <2>6. CASE PfsReplica(r, n)
      <3>1. (\E c \in Range(cell[m].connections) : c.node = n) /\ UNCHANGED cell
        BY <1>3, <2>6 DEF PfsReplica, ExistsConnection
      <3>2. ASSUME NEW k \in Jobs, FsOf[k] = "PFS", MachineOf[k] = m PROVE CellRight(m, k)'
        BY <1>4, <2>1, <2>3, <3>1, <3>2, CellAsked
      <3>3. QED
        BY <1>3, <2>1, <2>2, <3>1, <3>2, CellsOther DEF StorageInv
    <2>7. QED
      BY <1>2, <2>4, <2>5, <2>6
  <1>13. QED
    BY <1>7, <1>8, <1>10, <1>11, <1>12 DEF StorageInv

\* A connection of a cell is established, and the cell becomes active with the last.
LEMMA CellEstablished ==
    ASSUME NEW m \in Machines, NEW j \in Jobs, CellRight(m, j), NEW k, NEW r,
           \E i \in Jobs : phase[i] # "idle" /\ CellRight(m, i) /\ TargetsOf[i] = TargetsOf[j],
           asking[m] = <<>>, UNCHANGED asking,
           cell'[m].connections = [cell[m].connections EXCEPT ![k].id = r],
           \/ cell'[m].active = cell[m].active /\ cell'[m].servers = cell[m].servers
           \/ cell'[m].servers = Len(cell'[m].connections)
    PROVE  CellRight(m, j)'
  <1>0. PICK S : S = Range(TargetsOf[j])
    OBVIOUS
  <1>1. PICK s : s = cell[m].connections
    OBVIOUS
  <1>2. /\ IsSeq(s)
        /\ \A c \in Range(s) : c = [node |-> c.node, id |-> c.id] /\ c.node \in S
        /\ \A i, x \in DOMAIN s : s[i].node = s[x].node => i = x
    BY <1>0, <1>1 DEF CellRight
  <1>3. \A n \in S : \E c \in Range(s) : c.node = n
    BY <1>0, <1>1 DEF CellRight
  <1>4. PICK l \in Nat : l = Len(s) /\ DOMAIN s = 1 .. l
    BY <1>2 DEF IsSeq
  <1>5. \A i \in 1 .. l : s[i] = [node |-> s[i].node, id |-> s[i].id] /\ s[i].node \in S
    BY <1>2, <1>4 DEF Range
  <1>6. PICK t : t = [s EXCEPT ![k].id = r]
    OBVIOUS
  <1>7. DOMAIN t = 1 .. l /\ \A i \in 1 .. l : t[i] = s[i] \/ t[i] = [s[i] EXCEPT !.id = r]
    BY <1>4, <1>6
  <1>8. ASSUME NEW i \in 1 .. l
        PROVE  t[i] = [node |-> t[i].node, id |-> t[i].id] /\ t[i].node = s[i].node
    <2>1. CASE t[i] = s[i]
      BY <1>5, <2>1
    <2>2. CASE t[i] = [s[i] EXCEPT !.id = r]
      <3>1. PICK x : x = s[i]
        OBVIOUS
      <3>2. x = [node |-> x.node, id |-> x.id]
        BY <1>5, <3>1
      <3>3. t[i] = [node |-> x.node, id |-> r]
        BY <2>2, <3>1, <3>2
      <3>4. QED
        BY <3>1, <3>3
    <2>3. QED
      BY <1>7, <2>1, <2>2
  <1>9. IsSeq(t) /\ Len(t) = l
    <2>1. t = [i \in 1 .. l |-> t[i]]
      BY <1>4, <1>6, <1>7
    <2>2. \A i \in 1 .. l : t[i] \in Range(t)
      BY <1>7 DEF Range
    <2>3. t \in Seq(Range(t))
      BY <2>1, <2>2
    <2>4. QED
      BY <1>7, <2>3 DEF IsSeq
  <1>10. ASSUME NEW c \in Range(t) PROVE c = [node |-> c.node, id |-> c.id] /\ c.node \in S
    <2>1. PICK i \in 1 .. l : c = t[i]
      BY <1>7 DEF Range
    <2>2. c = [node |-> c.node, id |-> c.id] /\ c.node = s[i].node
      BY <1>8, <2>1
    <2>3. QED
      BY <1>5, <2>2
  <1>11. \A i, x \in DOMAIN t : t[i].node = t[x].node => i = x
    BY <1>2, <1>4, <1>7, <1>8
  <1>12. ASSUME NEW n \in S PROVE \E c \in Range(t) : c.node = n
    <2>1. PICK i \in 1 .. l : s[i].node = n
      BY <1>3, <1>4 DEF Range
    <2>2. t[i] \in Range(t) /\ t[i].node = n
      BY <1>7, <1>8, <2>1 DEF Range
    <2>3. QED
      BY <2>2
  <1>13. l = Len(TargetsOf[j])
    <2> DEFINE f == [i \in 1 .. l |-> s[i].node]
    <2>1. S = Range(TargetsOf[j])
      BY <1>0
    <2>2. \A i \in 1 .. l : f[i] \in S
      BY <1>5
    <2>3. \A i, x \in 1 .. l : f[i] = f[x] => i = x
      BY <1>2, <1>4
    <2>4. ASSUME NEW n \in S PROVE \E i \in 1 .. l : f[i] = n
      <3>1. PICK i \in 1 .. l : s[i].node = n
        BY <1>3, <1>4 DEF Range
      <3>2. QED
        BY <3>1
    <2> HIDE DEF f
    <2>5. Cardinality(S) = l
      BY <2>2, <2>3, <2>4, LengthOfRange
    <2>6. PICK q \in Seq(Nodes), p \in Nat : q = TargetsOf[j] /\ p = Len(q) /\ DOMAIN q = 1 .. p
      BY TargetFacts
    <2>7. /\ \A i \in 1 .. p : q[i] \in S
          /\ \A i, x \in 1 .. p : q[i] = q[x] => i = x
          /\ \A n \in S : \E i \in 1 .. p : q[i] = n
      BY <2>1, <2>6, TargetFacts DEF Range
    <2>8. Cardinality(S) = p
      BY <2>7, LengthOfRange
    <2>9. QED
      BY <2>5, <2>6, <2>8
  <1>14. cell'[m].connections = t
    BY <1>1, <1>6
  <1>15. cell'[m].active => cell'[m].servers = Len(TargetsOf[j])
    BY <1>9, <1>13, <1>14 DEF CellRight
  <1>16. QED
    BY <1>0, <1>9, <1>10, <1>11, <1>12, <1>14, <1>15 DEF CellRight

\* The cell of a machine gets the last of some connections, or one of them.
LEMMA CellJoined ==
    ASSUME NEW m \in Machines, IsFun(cell, Machines), IsCell(cell[m]), NEW t,
           \/ cell' = [cell EXCEPT ![m].connections = t, ![m].active = TRUE, ![m].servers = Len(t)]
           \/ cell' = [cell EXCEPT ![m].connections = t]
    PROVE  /\ IsFun(cell', Machines) /\ IsCell(cell'[m]) /\ cell'[m].connections = t
           /\ \A o \in Machines : o # m => cell'[o] = cell[o]
           /\ \/ cell'[m].active = cell[m].active /\ cell'[m].servers = cell[m].servers
              \/ cell'[m].active /\ cell'[m].servers = Len(t)
  <1>1. PICK c : c = cell[m]
    OBVIOUS
  <1>2. c = [fs |-> c.fs, connections |-> c.connections, active |-> c.active,
             servers |-> c.servers, lost |-> c.lost]
    BY <1>1 DEF IsCell
  <1>3. PICK d : /\ cell' = [cell EXCEPT ![m] = d] /\ IsCell(d) /\ d.connections = t
                 /\ \/ d.active = c.active /\ d.servers = c.servers
                    \/ d.active /\ d.servers = Len(t)
    <2>1. CASE cell' = [cell EXCEPT ![m].connections = t]
      <3>1. PICK d : d = [c EXCEPT !.connections = t]
        OBVIOUS
      <3>2. cell' = [cell EXCEPT ![m] = d]
        BY <1>1, <2>1, <3>1
      <3>3. d = [fs |-> c.fs, connections |-> t, active |-> c.active,
                 servers |-> c.servers, lost |-> c.lost]
        BY <1>2, <3>1
      <3>4. IsCell(d) /\ d.connections = t /\ d.active = c.active /\ d.servers = c.servers
        BY <3>3 DEF IsCell
      <3>5. QED
        BY <3>2, <3>4
    <2>2. CASE cell' = [cell EXCEPT ![m].connections = t, ![m].active = TRUE, ![m].servers = Len(t)]
      <3>1. PICK d : d = [c EXCEPT !.connections = t, !.active = TRUE, !.servers = Len(t)]
        OBVIOUS
      <3>2. cell' = [cell EXCEPT ![m] = d]
        BY <1>1, <2>2, <3>1 DEF IsFun
      <3>3. d = [fs |-> c.fs, connections |-> t, active |-> TRUE, servers |-> Len(t), lost |-> c.lost]
        BY <1>2, <3>1
      <3>4. IsCell(d) /\ d.connections = t /\ d.active /\ d.servers = Len(t)
        BY <3>3 DEF IsCell
      <3>5. QED
        BY <3>2, <3>4
    <2>3. QED
      BY <2>1, <2>2
  <1>4. /\ IsFun(cell', Machines) /\ cell'[m] = d
        /\ \A o \in Machines : o # m => cell'[o] = cell[o]
    BY <1>3 DEF IsFun
  <1>5. QED
    BY <1>1, <1>3, <1>4

LEMMA StoEstablished ==
    ASSUME SameStorage, NetInv, StorageInv, NEW r \in StorageConnections, StorageEstablished(r)
    PROVE  StorageInv'
  <1>1. PICK m \in Machines : m = Origin(r)
    BY Constants DEF Requests
  <1>2. r \in Requests
    BY DEF Requests
  <1> DEFINE which == SelectInSeq(cell[m].connections, LAMBDA c : c.node = r[2] /\ c.id = NULL)
  <1>3. PICK k : k = which
    OBVIOUS
  <1>4. PICK t : t = [cell[m].connections EXCEPT ![k].id = r]
    OBVIOUS
  <1>5. /\ Established(r) /\ asking[m] = <<>> /\ UNCHANGED asking /\ UNCHANGED waiting /\ UNCHANGED io
        /\ \/ /\ cell' = [cell EXCEPT ![m].connections = t, ![m].active = TRUE, ![m].servers = Len(t)]
              /\ Notify(m, 1 + Len(replicas[m]))
           \/ cell' = [cell EXCEPT ![m].connections = t] /\ UNCHANGED <<phase, connecting>>
    BY <1>1, <1>3, <1>4 DEF StorageEstablished, Established
  <1> HIDE DEF which
  <1>6. SameConnections /\ connection[r].status = "opening"
    BY <1>2, <1>5, NetEstablished
  <1>7. PICK j \in Jobs : j = r[1] /\ MachineOf[j] = m /\ phase[j] # "idle"
    BY <1>1, <1>6, Constants DEF StorageInv, BegunRight
  <1>8. PendingRight'
    BY <1>5 DEF PendingRight, StorageInv, waiting
  <1>9. PartsRight' /\ CountRight'
    BY <1>5, PartsKept DEF StorageInv
  <1>10. UNCHANGED asked
    BY <1>5 DEF io
  <1>11. /\ AskedRight' /\ WaitingRight'
         /\ \A i \in Jobs : phase'[i] = "idle" <=> phase[i] = "idle"
    <2>1. CASE Notify(m, 1 + Len(replicas[m]))
      <3>1. 1 + Len(replicas[m]) \in Nat
        BY DEF NetInv, AskingRight, IsSeq
      <3>2. QED
        BY <1>10, <2>1, <3>1, JobsTold
    <2>2. CASE UNCHANGED <<phase, connecting>>
      <3>1. AskedRight'
        BY <1>10, <2>2 DEF AskedRight, StorageInv
      <3>2. WaitingRight'
        BY <2>2 DEF WaitingRight, StorageInv
      <3>3. QED
        BY <2>2, <3>1, <3>2
    <2>3. QED
      BY <1>5, <2>1, <2>2
  <1>12. BegunRight'
    <2>1. \A x \in StorageConnections : connection'[x].status = "opening" => connection[x].status = "opening"
      BY <1>6 DEF SameConnections, Requests
    <2>2. QED
      BY <1>5, <1>11, <2>1, BegunKept DEF NetInv, StorageInv
  <1>13. CellsRight'
    <2>1. IsFun(cell, Machines) /\ IsCell(cell[m]) /\ CellsRight
      BY DEF StorageInv, CellsRight
    <2>2. /\ IsFun(cell', Machines) /\ IsCell(cell'[m]) /\ cell'[m].connections = t
          /\ \A o \in Machines : o # m => cell'[o] = cell[o]
          /\ \/ cell'[m].active = cell[m].active /\ cell'[m].servers = cell[m].servers
             \/ cell'[m].active /\ cell'[m].servers = Len(t)
      BY <1>5, <2>1, CellJoined
    <2>3. ASSUME NEW i \in Jobs, FsOf[i] = "PFS", MachineOf[i] = m PROVE CellRight(m, i)'
      <3>1. CellRight(m, i) /\ CellRight(m, j) /\ TargetsOf[j] = TargetsOf[i]
        BY <1>7, <2>1, <2>3 DEF CellsRight, SameStorage
      <3>2. \E x \in Jobs : phase[x] # "idle" /\ CellRight(m, x) /\ TargetsOf[x] = TargetsOf[i]
        BY <1>7, <3>1
      <3>3. cell'[m].connections = [cell[m].connections EXCEPT ![k].id = r]
        BY <1>4, <2>2
      <3>4. \/ cell'[m].active = cell[m].active /\ cell'[m].servers = cell[m].servers
            \/ cell'[m].servers = Len(cell'[m].connections)
        BY <2>2
      <3>5. asking[m] = <<>> /\ UNCHANGED asking
        BY <1>5
      <3>6. QED
        BY <3>1, <3>2, <3>3, <3>4, <3>5, CellEstablished
    <2>4. \A o \in Machines : o # m => cell'[o] = cell[o] /\ asking'[o] = asking[o]
      BY <1>5, <2>2
    <2>5. \A i \in Jobs : phase'[i] # "idle" => phase[i] # "idle"
      BY <1>11
    <2>6. QED
      BY <2>1, <2>2, <2>3, <2>4, <2>5, CellsOther
  <1>14. QED
    BY <1>8, <1>9, <1>11, <1>12, <1>13 DEF StorageInv

-------------------------------------------------------------------------------
(* The operations of the jobs and their parts.                             *)

\* How many parts an operation has.
LEMMA PartsNumber ==
    ASSUME NEW j \in Jobs
    PROVE  /\ PartsOf(j) \in Nat /\ (FsOf[j] # "PFS" => PartsOf(j) > 0)
           /\ FsOf[j] = "PFS" => PartsOf(j) = PfsParts(j, Len(TargetsOf[j]))
  <1>1. Len(TargetsOf[j]) \in Nat /\ OperationOf[j] \in {"OPEN", "CREATE", "READ"} /\ NfsRequests \in Nat \ {0}
    BY TargetFacts
  <1>2. PfsParts(j, Len(TargetsOf[j])) \in Nat
    BY <1>1 DEF PfsParts
  <1>3. NfsParts(j) \in Nat /\ NfsParts(j) > 0
    BY <1>1 DEF NfsParts
  <1>4. QED
    BY <1>2, <1>3 DEF PartsOf

\* What is left of a sequence.
LEMMA TailRange ==
    ASSUME NEW s, IsSeq(s), s # <<>>
    PROVE  /\ IsSeq(Tail(s)) /\ Range(Tail(s)) \subseteq Range(s) /\ Head(s) \in Range(s)
           /\ (\A i, k \in DOMAIN s : s[i] = s[k] => i = k) =>
                 /\ \A i, k \in DOMAIN Tail(s) : Tail(s)[i] = Tail(s)[k] => i = k
                 /\ Head(s) \notin Range(Tail(s))
  <1>1. PICK T : T = Range(s)
    OBVIOUS
  <1>2. s \in Seq(T)
    BY <1>1 DEF IsSeq
  <1>3. PICK n \in Nat : n = Len(s) /\ DOMAIN s = 1 .. n /\ n > 0
    BY <1>2
  <1>4. PICK t \in Seq(T) : t = Tail(s)
    BY <1>2, HeadTailProperties
  <1>5. /\ DOMAIN t = 1 .. n - 1 /\ Head(s) = s[1]
        /\ \A i \in 1 .. n - 1 : t[i] = s[i + 1] /\ i + 1 \in 1 .. n /\ i + 1 # 1
    BY <1>2, <1>3, <1>4
  <1>6. Range(t) \subseteq T /\ Head(s) \in T
    BY <1>1, <1>3, <1>5 DEF Range
  <1>7. IsSeq(t)
    <2>1. t = [i \in 1 .. n - 1 |-> t[i]]
      BY <1>5
    <2>2. \A i \in 1 .. n - 1 : t[i] \in Range(t)
      BY <1>5 DEF Range
    <2>3. n - 1 \in Nat
      BY <1>3
    <2>4. QED
      BY <2>1, <2>2, <2>3 DEF IsSeq
  <1>8. ASSUME \A i, k \in DOMAIN s : s[i] = s[k] => i = k
        PROVE  /\ \A i, k \in DOMAIN t : t[i] = t[k] => i = k
               /\ Head(s) \notin Range(t)
    <2>1. ASSUME NEW i \in DOMAIN t, NEW k \in DOMAIN t, t[i] = t[k] PROVE i = k
      <3>1. i + 1 = k + 1
        BY <1>3, <1>5, <1>8, <2>1
      <3>2. QED
        BY <1>5, <3>1
    <2>2. 1 \in 1 .. n
      BY <1>3
    <2>3. \A i \in 1 .. n - 1 : t[i] # s[1]
      BY <1>3, <1>5, <1>8, <2>2
    <2>4. QED
      BY <1>5, <2>1, <2>3 DEF Range
  <1>9. QED
    BY <1>1, <1>4, <1>6, <1>7, <1>8

\* One sequence after another.
LEMMA ConcatRange ==
    ASSUME NEW a, IsSeq(a), NEW b, IsSeq(b)
    PROVE  /\ IsSeq(a \o b) /\ Range(a \o b) = Range(a) \cup Range(b)
           /\ /\ \A i, k \in DOMAIN a : a[i] = a[k] => i = k
              /\ \A i, k \in DOMAIN b : b[i] = b[k] => i = k
              /\ Range(a) \cap Range(b) = {}
              => \A i, k \in DOMAIN (a \o b) : (a \o b)[i] = (a \o b)[k] => i = k
  <1>1. PICK T : T = Range(a) \cup Range(b)
    OBVIOUS
  <1>2. a \in Seq(T) /\ b \in Seq(T)
    <2>1. a \in Seq(Range(a)) /\ b \in Seq(Range(b))
      BY DEF IsSeq
    <2>2. PICK n \in Nat : DOMAIN a = 1 .. n /\ a = [i \in 1 .. n |-> a[i]]
      BY <2>1
    <2>3. PICK l \in Nat : DOMAIN b = 1 .. l /\ b = [i \in 1 .. l |-> b[i]]
      BY <2>1
    <2>4. \A i \in 1 .. n : a[i] \in T
      BY <1>1, <2>2 DEF Range
    <2>5. \A i \in 1 .. l : b[i] \in T
      BY <1>1, <2>3 DEF Range
    <2>6. a \in Seq(T)
      BY <2>2, <2>4
    <2>7. b \in Seq(T)
      BY <2>3, <2>5
    <2>8. QED
      BY <2>6, <2>7
  <1>3. PICK n \in Nat, l \in Nat : n = Len(a) /\ DOMAIN a = 1 .. n /\ l = Len(b) /\ DOMAIN b = 1 .. l
    BY <1>2
  <1>4. PICK t \in Seq(T) : t = a \o b
    BY <1>2, ConcatProperties
  <1>5. DOMAIN t = 1 .. n + l
    <2>1. Len(a \o b) = n + l
      BY <1>2, <1>3, ConcatProperties
    <2>2. QED
      BY <1>4, <2>1
  <1>6. \A i \in 1 .. n + l : t[i] = IF i <= n THEN a[i] ELSE b[i - n]
    <2>1. TAKE i \in 1 .. n + l
    <2>2. i \in 1 .. Len(a) + Len(b)
      BY <1>3, <2>1
    <2>3. (a \o b)[i] = IF i <= Len(a) THEN a[i] ELSE b[i - Len(a)]
      BY <1>2, <2>2, ConcatProperties
    <2>4. QED
      BY <1>3, <1>4, <2>3
  <1>7. \A i \in 1 .. n + l : \/ i \in 1 .. n /\ t[i] = a[i]
                              \/ i - n \in 1 .. l /\ t[i] = b[i - n]
    BY <1>6
  <1>8. \A i \in 1 .. l : n + i \in 1 .. n + l /\ t[n + i] = b[i]
    <2>1. TAKE i \in 1 .. l
    <2>2. n + i \in 1 .. n + l /\ ~(n + i <= n) /\ (n + i) - n = i
      OBVIOUS
    <2>3. QED
      BY <1>6, <2>2
  <1>9. \A i \in 1 .. n : i \in 1 .. n + l /\ t[i] = a[i]
    BY <1>6
  <1>10. Range(t) = T
    <2>1. ASSUME NEW x \in Range(t) PROVE x \in T
      BY <1>1, <1>3, <1>5, <1>7 DEF Range
    <2>2. ASSUME NEW x \in T PROVE x \in Range(t)
      <3>1. CASE x \in Range(a)
        <4>1. PICK i \in 1 .. n : x = a[i]
          BY <1>3, <3>1 DEF Range
        <4>2. i \in DOMAIN t /\ t[i] = x
          BY <1>5, <1>9, <4>1
        <4>3. QED
          BY <4>2 DEF Range
      <3>2. CASE x \in Range(b)
        <4>1. PICK i \in 1 .. l : x = b[i]
          BY <1>3, <3>2 DEF Range
        <4>2. n + i \in DOMAIN t /\ t[n + i] = x
          BY <1>5, <1>8, <4>1
        <4>3. QED
          BY <4>2 DEF Range
      <3>3. QED
        BY <1>1, <3>1, <3>2
    <2>3. QED
      BY <2>1, <2>2
  <1>11. ASSUME \A i, k \in DOMAIN a : a[i] = a[k] => i = k,
                \A i, k \in DOMAIN b : b[i] = b[k] => i = k,
                Range(a) \cap Range(b) = {}
         PROVE  \A i, k \in DOMAIN t : t[i] = t[k] => i = k
    <2>1. TAKE i, k \in DOMAIN t
    <2>2. HAVE t[i] = t[k]
    <2>3. \A x \in 1 .. n, y \in 1 .. l : a[x] # b[y]
      BY <1>3, <1>11 DEF Range
    <2>4. CASE i \in 1 .. n /\ t[i] = a[i] /\ k \in 1 .. n /\ t[k] = a[k]
      BY <1>3, <1>11, <2>2, <2>4
    <2>5. CASE i - n \in 1 .. l /\ t[i] = b[i - n] /\ k - n \in 1 .. l /\ t[k] = b[k - n]
      <3>1. i - n = k - n
        BY <1>3, <1>11, <2>2, <2>5
      <3>2. QED
        BY <1>5, <3>1
    <2>6. QED
      BY <1>5, <1>7, <2>2, <2>3, <2>4, <2>5
  <1>12. IsSeq(t)
    BY <1>4, <1>10 DEF IsSeq
  <1>13. QED
    BY <1>1, <1>4, <1>10, <1>11, <1>12

\* What is scheduled is held until it is sent.
LEMMA Scheduled ==
    ASSUME NEW m, NEW q, IsSeq(q), \A i, k \in DOMAIN q : q[i] = q[k] => i = k,
           \A s \in Range(q) : Sendable(s, m)',
           latency'[m] = IF q = <<>> THEN NULL ELSE Head(q),
           queue'[m] = IF q = <<>> THEN <<>> ELSE Tail(q)
    PROVE  QueueHolds(m)'
  <1>1. CASE q = <<>>
    <2>1. IsSeq(<<>>) /\ Range(<<>>) = {} /\ DOMAIN <<>> = {}
      BY DEF IsSeq, Range
    <2>2. QED
      BY <1>1, <2>1 DEF QueueHolds
  <1>2. CASE q # <<>>
    <2>1. PICK h, t : h = Head(q) /\ t = Tail(q)
      OBVIOUS
    <2>2. /\ IsSeq(t) /\ Range(t) \subseteq Range(q) /\ h \in Range(q)
          /\ \A i, k \in DOMAIN t : t[i] = t[k] => i = k
          /\ h \notin Range(t)
      BY <1>2, <2>1, TailRange
    <2>3. latency'[m] = h /\ queue'[m] = t
      BY <1>2, <2>1
    <2>4. Sendable(h, m)' /\ \A s \in Range(t) : Sendable(s, m)'
      BY <2>2
    <2>5. Sendable(latency[m], m)'
      BY <2>3, <2>4 DEF Sendable, SubRight
    <2>6. QED
      BY <2>2, <2>3, <2>4, <2>5 DEF QueueHolds
  <1>3. QED
    BY <1>1, <1>2

\* The parts an operation is split into.
LEMMA PartsMade ==
    ASSUME NEW j \in Jobs, FsOf[j] = "PFS"
    PROVE  LET parts == SplitRequest(j, Len(TargetsOf[j])) IN
           /\ IsSeq(parts) /\ \A i, k \in DOMAIN parts : parts[i] = parts[k] => i = k
           /\ \A s \in Range(parts) : \E i \in 0 .. PartsOf(j) - 1 : s = PartRequest(j, i)
  <1> DEFINE parts == SplitRequest(j, Len(TargetsOf[j]))
  <1>1. PICK p \in Nat : p = PartsOf(j) /\ p = PfsParts(j, Len(TargetsOf[j]))
    BY PartsNumber
  <1>2. parts = [i \in 1 .. p |-> PartRequest(j, i - 1)]
    BY <1>1 DEF SplitRequest, PartRequest
  <1>3. DOMAIN parts = 1 .. p /\ \A i \in 1 .. p : parts[i] = PartRequest(j, i - 1)
    BY <1>2
  <1> HIDE DEF parts
  <1>4. IsSeq(parts)
    <2>1. \A i \in 1 .. p : parts[i] \in Range(parts)
      BY <1>3 DEF Range
    <2>2. parts = [i \in 1 .. p |-> parts[i]]
      BY <1>2, <1>3
    <2>3. QED
      BY <2>1, <2>2 DEF IsSeq
  <1>5. \A i, k \in DOMAIN parts : parts[i] = parts[k] => i = k
    <2>1. TAKE i, k \in DOMAIN parts
    <2>2. HAVE parts[i] = parts[k]
    <2>3. parts[i].part = i - 1 /\ parts[k].part = k - 1
      BY <1>3 DEF PartRequest
    <2>4. QED
      BY <1>3, <2>2, <2>3
  <1>6. ASSUME NEW s \in Range(parts) PROVE \E i \in 0 .. p - 1 : s = PartRequest(j, i)
    <2>1. PICK i \in 1 .. p : s = PartRequest(j, i - 1)
      BY <1>3 DEF Range
    <2>2. i - 1 \in 0 .. p - 1
      OBVIOUS
    <2>3. QED
      BY <2>1, <2>2
  <1>7. QED
    BY <1>1, <1>4, <1>5, <1>6 DEF parts

\* A job makes its operation, all of whose parts are still to be served.
LEMMA StoOperation ==
    ASSUME NetInv, StorageInv, NEW j \in Jobs, Operation(j)
    PROVE  StorageInv' /\ Abstract!Ask(j)
  <1>1. PICK m \in Machines : m = MachineOf[j]
    BY Constants
  <1>2. /\ phase[j] = "connected" /\ phase' = [phase EXCEPT ![j] = "sent"] /\ asked' = asked \cup {j}
        /\ Enqueue(j) \/ PfsOperation(j) \/ NfsOperation(j)
        /\ UNCHANGED waiting /\ UNCHANGED connection
        /\ UNCHANGED <<asking, connecting, arrivedSubRequests, transferred, answered>>
    BY DEF Operation, network
  <1>3. \A k \in Jobs : phase'[k] = IF k = j THEN "sent" ELSE phase[k]
    BY <1>2 DEF NetInv, ClientsRight
  <1>4. j \notin asked
    BY <1>2 DEF StorageInv, AskedRight
  <1>5. transferred[j] = {}
    BY <1>4 DEF StorageInv, CountRight
  <1>6. PendingRight'
    BY <1>2 DEF PendingRight, StorageInv, waiting
  <1>7. AskedRight'
    BY <1>2, <1>3 DEF AskedRight, StorageInv
  <1>8. WaitingRight'
    BY <1>2, <1>3, WaitingStays DEF NetInv, StorageInv
  <1>9. BegunRight'
    BY <1>2, <1>3, BegunKept DEF NetInv, StorageInv
  <1>10. CountRight'
    BY <1>2 DEF CountRight, StorageInv
  <1>11. \A k \in Jobs : phase'[k] # "idle" => phase[k] # "idle"
    BY <1>2, <1>3
  <1>12. CellsRight'
    <2>1. CASE UNCHANGED cell
      BY <1>2, <1>11, <2>1, CellsKept DEF StorageInv
    <2>2. CASE cell' = [cell EXCEPT ![m].lost = @ \cup {j}]
      <3>1. PICK c, lost : c = cell[m] /\ lost = cell[m].lost \cup {j}
        OBVIOUS
      <3>2. IsFun(cell, Machines) /\ CellsRight
        BY DEF StorageInv, CellsRight
      <3>3. c = [fs |-> c.fs, connections |-> c.connections, active |-> c.active,
                 servers |-> c.servers, lost |-> c.lost]
        BY <3>1 DEF StorageInv, CellsRight, IsCell
      <3>4. PICK d : d = [c EXCEPT !.lost = lost]
        OBVIOUS
      <3>5. cell' = [cell EXCEPT ![m] = d]
        BY <2>2, <3>1, <3>4
      <3>6. d = [fs |-> c.fs, connections |-> c.connections, active |-> c.active,
                 servers |-> c.servers, lost |-> lost]
        BY <3>3, <3>4
      <3>7. IsCell(d) /\ d.connections = c.connections /\ d.active = c.active /\ d.servers = c.servers
        BY <3>6 DEF IsCell
      <3>8. /\ IsFun(cell', Machines) /\ cell'[m] = d
            /\ \A o \in Machines : o # m => cell'[o] = cell[o]
        BY <3>2, <3>5 DEF IsFun
      <3>9. ASSUME NEW k \in Jobs, FsOf[k] = "PFS", MachineOf[k] = m PROVE CellRight(m, k)'
        <4>1. CellRight(m, k)
          BY <3>2, <3>9 DEF CellsRight
        <4>2. /\ cell'[m].connections = cell[m].connections /\ cell'[m].active = cell[m].active
              /\ cell'[m].servers = cell[m].servers
          BY <3>1, <3>7, <3>8
        <4>3. QED
          BY <1>2, <1>11, <4>1, <4>2 DEF CellRight
      <3>10. IsCell(cell'[m])
        BY <3>7, <3>8
      <3>11. \A o \in Machines : o # m => cell'[o] = cell[o] /\ asking'[o] = asking[o]
        BY <1>2, <3>8
      <3>12. QED
        BY <1>11, <3>2, <3>8, <3>9, <3>10, <3>11, CellsOther
    <2>3. QED
      BY <1>1, <1>2, <2>1, <2>2 DEF Enqueue, PfsOperation, NfsOperation
  <1>13. ASSUME NEW i \in 0 .. PartsOf(j) - 1, FsOf[j] = "NFS" => i = 0
         PROVE  SubRight(PartRequest(j, i))' /\ PartRequest(j, i).parent = j
    <2>1. PICK s : s = PartRequest(j, i)
      OBVIOUS
    <2>2. s.parent = j /\ s.part = i
      BY <2>1 DEF PartRequest
    <2>3. s = PartRequest(s.parent, s.part)
      BY <2>1, <2>2
    <2>4. FsOf[j] = "NFS" => 0 .. i - 1 = {}
      BY <1>13
    <2>5. SubRight(s)'
      BY <1>2, <1>5, <2>2, <2>3, <2>4 DEF SubRight
    <2>6. QED
      BY <2>1, <2>2, <2>5
  <1>14. /\ \A s : SubRight(s) => SubRight(s)' /\ s.parent # j
         /\ \A s \in sent : SubRight(s)
    BY <1>2, <1>4 DEF SubRight, StorageInv, PartsRight
  <1>15. /\ \A s \in sent' : s \in sent \/ (s.parent = j /\ FsOf[j] = "NFS" /\ SubRight(s)')
         /\ FsOf[j] = "PFS" => UNCHANGED sent
    <2>1. CASE UNCHANGED sent
      BY <2>1
    <2>2. CASE FsOf[j] = "NFS" /\ sent' = sent \cup {[parent |-> j, part |-> 0, server |-> 1]}
      <3>1. [parent |-> j, part |-> 0, server |-> 1] = PartRequest(j, 0)
        BY <2>2 DEF PartRequest
      <3>2. 0 \in 0 .. PartsOf(j) - 1
        BY <2>2, PartsNumber
      <3>3. SubRight(PartRequest(j, 0))' /\ PartRequest(j, 0).parent = j
        BY <1>13, <3>2
      <3>4. QED
        BY <2>2, <3>1, <3>3
    <2>3. QED
      BY <1>2, <2>1, <2>2 DEF Enqueue, PfsOperation, NfsOperation
  <1>16. \A s, o : Sendable(s, o) => Sendable(s, o)' /\ s.parent # j
    BY <1>14, <1>15 DEF Sendable
  <1>17. ASSUME NEW o \in Machines, queue'[o] = queue[o], latency'[o] = latency[o]
         PROVE  QueueHolds(o)'
    <2>1. QueueHolds(o)
      BY DEF StorageInv, PartsRight
    <2>2. latency[o] # NULL => Sendable(latency[o], o)'
      <3>1. PICK s : s = latency[o]
        OBVIOUS
      <3>2. s # NULL => Sendable(s, o)'
        BY <1>16, <2>1, <3>1 DEF QueueHolds
      <3>3. latency'[o] = s
        BY <1>17, <3>1
      <3>4. QED
        BY <3>1, <3>2, <3>3 DEF Sendable, SubRight
    <2>3. QED
      BY <1>16, <1>17, <2>1, <2>2 DEF QueueHolds
  <1>18. PartsRight'
    <2>1. \A s \in sent' : SubRight(s)'
      BY <1>14, <1>15
    <2>2. IsFun(queue, Machines) /\ IsFun(latency, Machines) /\ QueueHolds(m)
      BY DEF StorageInv, PartsRight
    <2>3. CASE UNCHANGED <<queue, latency>>
      BY <1>17, <2>1, <2>2, <2>3 DEF PartsRight
    <2>4. CASE PfsOperation(j)
      <3>1. PICK parts : parts = SplitRequest(j, Len(TargetsOf[j]))
        OBVIOUS
      <3>2. /\ FsOf[j] = "PFS"
            /\ IF latency[m] = NULL THEN Schedule(m, queue[m] \o parts)
               ELSE queue' = [queue EXCEPT ![m] = @ \o parts] /\ UNCHANGED latency
        <4>1. FsOf[j] = "PFS" /\ cell[m].active
          BY <1>1, <2>4 DEF PfsOperation
        <4>2. CellRight(m, j)
          BY <1>1, <4>1 DEF StorageInv, CellsRight
        <4>3. cell[m].servers = Len(TargetsOf[j])
          BY <4>1, <4>2 DEF CellRight
        <4>4. QED
          BY <1>1, <2>4, <3>1, <4>1, <4>3 DEF PfsOperation
      <3>3. /\ IsSeq(parts) /\ \A i, k \in DOMAIN parts : parts[i] = parts[k] => i = k
            /\ \A s \in Range(parts) : \E i \in 0 .. PartsOf(j) - 1 : s = PartRequest(j, i)
        BY <3>1, <3>2, PartsMade
      <3>4. ASSUME NEW s \in Range(parts) PROVE Sendable(s, m)' /\ s.parent = j
        <4>1. PICK i \in 0 .. PartsOf(j) - 1 : s = PartRequest(j, i)
          BY <3>3
        <4>2. SubRight(s)' /\ s.parent = j
          BY <1>13, <3>2, <4>1
        <4>3. s \notin sent'
          BY <1>14, <1>15, <3>2, <4>2
        <4>4. QED
          BY <1>1, <3>2, <4>2, <4>3 DEF Sendable
      <3>5. PICK q : q = queue[m] \o parts
        OBVIOUS
      <3>6. /\ IsSeq(queue[m]) /\ \A s \in Range(queue[m]) : Sendable(s, m)' /\ s.parent # j
            /\ \A i, k \in DOMAIN queue[m] : queue[m][i] = queue[m][k] => i = k
        BY <1>16, <2>2 DEF QueueHolds
      <3>7. Range(queue[m]) \cap Range(parts) = {}
        BY <3>4, <3>6
      <3>8. /\ IsSeq(q) /\ Range(q) = Range(queue[m]) \cup Range(parts)
            /\ \A i, k \in DOMAIN q : q[i] = q[k] => i = k
        <4>1. IsSeq(parts) /\ \A i, k \in DOMAIN parts : parts[i] = parts[k] => i = k
          BY <3>3
        <4>2. QED
          BY <3>5, <3>6, <3>7, <4>1, ConcatRange
      <3>9. \A s \in Range(q) : Sendable(s, m)'
        BY <3>4, <3>6, <3>8
      <3>10. /\ IsFun(queue', Machines) /\ IsFun(latency', Machines)
             /\ \A o \in Machines : o # m => queue'[o] = queue[o] /\ latency'[o] = latency[o]
             /\ \/ /\ latency'[m] = (IF q = <<>> THEN NULL ELSE Head(q))
                   /\ queue'[m] = (IF q = <<>> THEN <<>> ELSE Tail(q))
                \/ latency[m] # NULL /\ latency'[m] = latency[m] /\ queue'[m] = q
        BY <2>2, <3>2, <3>5 DEF Schedule, IsFun
      <3>11. QueueHolds(m)'
        <4>1. CASE /\ latency'[m] = IF q = <<>> THEN NULL ELSE Head(q)
                   /\ queue'[m] = IF q = <<>> THEN <<>> ELSE Tail(q)
          BY <3>8, <3>9, <4>1, Scheduled
        <4>2. CASE latency[m] # NULL /\ latency'[m] = latency[m] /\ queue'[m] = q
          <5>1. PICK s : s = latency[m]
            OBVIOUS
          <5>2. Sendable(s, m)' /\ s.parent # j /\ s \notin Range(queue[m])
            BY <1>16, <2>2, <4>2, <5>1 DEF QueueHolds
          <5>3. s \notin Range(q)
            BY <3>4, <3>8, <5>2
          <5>4. Sendable(latency[m], m)' /\ latency'[m] = s
            BY <4>2, <5>1, <5>2 DEF Sendable, SubRight
          <5>5. QED
            BY <3>8, <3>9, <4>2, <5>3, <5>4 DEF QueueHolds
        <4>3. QED
          BY <3>10, <4>1, <4>2
      <3>12. \A o \in Machines : QueueHolds(o)'
        BY <1>17, <3>10, <3>11
      <3>13. QED
        BY <2>1, <3>10, <3>12 DEF PartsRight
    <2>5. QED
      BY <1>2, <2>3, <2>4 DEF Enqueue, NfsOperation
  <1>19. Abstract!Ask(j)
    BY <1>2, <1>4 DEF Abstract!Ask
  <1>20. QED
    BY <1>6, <1>7, <1>8, <1>9, <1>10, <1>12, <1>18, <1>19 DEF StorageInv

\* A request is sent.
LEMMA StoEndOfLatency ==
    ASSUME NetInv, StorageInv, NEW m \in Machines, EndOfLatency(m)
    PROVE  StorageInv' /\ UNCHANGED <<asked, transferred, answered>>
  <1>1. PICK l : l = latency[m]
    OBVIOUS
  <1>2. /\ l # NULL /\ sent' = sent \cup {l} /\ Schedule(m, queue[m])
        /\ UNCHANGED waiting /\ UNCHANGED connection /\ UNCHANGED <<phase, asking, cell, connecting>>
        /\ UNCHANGED <<arrivedSubRequests, asked, transferred, answered>>
    BY <1>1 DEF EndOfLatency, network, storage
  <1>3. IsFun(queue, Machines) /\ IsFun(latency, Machines) /\ QueueHolds(m)
    BY DEF StorageInv, PartsRight
  <1>4. Sendable(l, m) /\ l \notin Range(queue[m])
    BY <1>1, <1>2, <1>3 DEF QueueHolds
  <1>5. \A s : SubRight(s) <=> SubRight(s)'
    BY <1>2 DEF SubRight
  <1>6. \A s, o : Sendable(s, o) /\ s # l => Sendable(s, o)'
    BY <1>2, <1>5 DEF Sendable
  <1>7. QueueHolds(m)'
    <2>1. PICK q : q = queue[m]
      OBVIOUS
    <2>2. \A s \in Range(q) : Sendable(s, m)'
      BY <1>3, <1>4, <1>6, <2>1 DEF QueueHolds
    <2>3. /\ latency'[m] = IF q = <<>> THEN NULL ELSE Head(q)
          /\ queue'[m] = IF q = <<>> THEN <<>> ELSE Tail(q)
      BY <1>2, <1>3, <2>1 DEF Schedule, IsFun
    <2>4. IsSeq(q) /\ \A i, k \in DOMAIN q : q[i] = q[k] => i = k
      BY <1>3, <2>1 DEF QueueHolds
    <2>5. QED
      BY <2>2, <2>3, <2>4, Scheduled
  <1>8. /\ IsFun(queue', Machines) /\ IsFun(latency', Machines)
        /\ \A o \in Machines : o # m => queue'[o] = queue[o] /\ latency'[o] = latency[o]
    BY <1>2, <1>3 DEF Schedule, IsFun
  <1>9. ASSUME NEW o \in Machines, o # m PROVE QueueHolds(o)'
    <2>1. QueueHolds(o) /\ queue'[o] = queue[o] /\ latency'[o] = latency[o]
      BY <1>8, <1>9 DEF StorageInv, PartsRight
    <2>2. \A s : Sendable(s, o) => Sendable(s, o)'
      BY <1>4, <1>6, <1>9 DEF Sendable
    <2>3. PICK s : s = latency[o]
      OBVIOUS
    <2>4. s # NULL => Sendable(s, o)' /\ s \notin Range(queue[o])
      BY <2>1, <2>2, <2>3 DEF QueueHolds
    <2>5. latency'[o] # NULL => Sendable(latency[o], o)' /\ latency'[o] \notin Range(queue'[o])
      BY <2>1, <2>3, <2>4 DEF Sendable, SubRight
    <2>6. QED
      BY <2>1, <2>2, <2>5 DEF QueueHolds
  <1>10. PartsRight'
    <2>1. \A s \in sent' : SubRight(s)'
      BY <1>2, <1>4, <1>5 DEF StorageInv, PartsRight, Sendable
    <2>2. QED
      BY <1>7, <1>8, <1>9, <2>1 DEF PartsRight
  <1>11. PendingRight' /\ AskedRight' /\ WaitingRight' /\ CountRight'
    BY <1>2 DEF StorageInv, PendingRight, AskedRight, WaitingRight, CountRight, waiting
  <1>12. BegunRight'
    BY <1>2, BegunKept DEF NetInv, StorageInv
  <1>13. CellsRight'
    BY <1>2, CellsKept DEF StorageInv
  <1>14. QED
    BY <1>2, <1>10, <1>11, <1>12, <1>13 DEF StorageInv

\* The target node has served a part.
LEMMA StoResponse ==
    ASSUME NetInv, StorageInv, NEW sub \in sent, Response(sub)
    PROVE  StorageInv' /\ \E j \in Jobs : Abstract!Transfer(j)
  <1>1. PICK j, p : j = sub.parent /\ p = sub.part
    OBVIOUS
  <1>2. SubRight(sub)
    BY DEF StorageInv, PartsRight
  <1>3. /\ j \in asked /\ j \in Jobs /\ p \in 0 .. PartsOf(j) - 1 /\ sub = PartRequest(j, p)
        /\ p \notin transferred[j] /\ (FsOf[j] = "NFS" => transferred[j] = 0 .. p - 1)
    BY <1>1, <1>2 DEF SubRight, StorageInv, AskedRight
  <1>4. PICK arrived : arrived = [arrivedSubRequests EXCEPT ![j] = @ + 1]
    OBVIOUS
  <1>5. PICK T : T = transferred[j] \cup {p}
    OBVIOUS
  <1> DEFINE next == [sub EXCEPT !.part = @ + 1]
  <1>6. /\ transferred' = [transferred EXCEPT ![j] = T] /\ arrivedSubRequests' = arrived
        /\ \/ /\ arrived[j] = PartsOf(j) /\ answered' = answered \cup {j}
              /\ phase' = [phase EXCEPT ![j] = "done"] /\ sent' = sent \ {sub}
           \/ /\ arrived[j] # PartsOf(j) /\ UNCHANGED <<answered, phase>>
              /\ \/ FsOf[j] = "NFS" /\ sent' = (sent \ {sub}) \cup {next}
                 \/ FsOf[j] # "NFS" /\ sent' = sent \ {sub}
        /\ UNCHANGED waiting /\ UNCHANGED connection /\ UNCHANGED <<asking, cell, connecting>>
        /\ UNCHANGED <<queue, latency, asked>>
    BY <1>1, <1>4, <1>5 DEF Response, ArrivesAllSubRequest, network, storage
  <1>7. /\ IsFun(arrivedSubRequests, Jobs) /\ IsFun(transferred, Jobs) /\ PartsOf(j) \in Nat
        /\ transferred[j] \subseteq 0 .. PartsOf(j) - 1
        /\ arrivedSubRequests[j] = Cardinality(transferred[j])
    BY <1>3, PartsNumber DEF StorageInv, CountRight
  <1>8. /\ T \subseteq 0 .. PartsOf(j) - 1 /\ IsFiniteSet(0 .. PartsOf(j) - 1)
        /\ Cardinality(0 .. PartsOf(j) - 1) = PartsOf(j)
        /\ arrived[j] = Cardinality(T)
    <2>1. T \subseteq 0 .. PartsOf(j) - 1
      BY <1>3, <1>5, <1>7
    <2>2. IsFiniteSet(0 .. PartsOf(j) - 1) /\ Cardinality(0 .. PartsOf(j) - 1) = PartsOf(j)
      <3>1. PICK n \in Nat : n = PartsOf(j)
        BY <1>7
      <3>2. 0 \in Int /\ n - 1 \in Int /\ (0 > n - 1 => n = 0) /\ (n - 1) - 0 + 1 = n
        OBVIOUS
      <3>3. IsFiniteSet(0 .. n - 1) /\ Cardinality(0 .. n - 1) = IF 0 > n - 1 THEN 0 ELSE (n - 1) - 0 + 1
        BY <3>2, FS_Interval
      <3>4. QED
        BY <3>1, <3>2, <3>3
    <2>3. IsFiniteSet(transferred[j])
      BY <1>7, <2>2, FS_Subset
    <2>4. Cardinality(T) = Cardinality(transferred[j]) + 1
      BY <1>3, <1>5, <2>3, FS_AddElement
    <2>5. arrived[j] = arrivedSubRequests[j] + 1
      BY <1>3, <1>4, <1>7 DEF IsFun
    <2>6. QED
      BY <1>7, <2>1, <2>2, <2>4, <2>5
  <1>9. arrived[j] = PartsOf(j) => T = 0 .. PartsOf(j) - 1
    BY <1>8, FS_Subset
  <1>10. j \notin answered
    BY <1>3 DEF StorageInv, CountRight
  <1>11. /\ IsFun(arrivedSubRequests', Jobs) /\ IsFun(transferred', Jobs)
         /\ arrivedSubRequests'[j] = Cardinality(T) /\ transferred'[j] = T
         /\ \A k \in Jobs : k # j => /\ arrivedSubRequests'[k] = arrivedSubRequests[k]
                                     /\ transferred'[k] = transferred[k]
    BY <1>3, <1>4, <1>6, <1>7, <1>8 DEF IsFun
  <1>12. CountRight'
    <2>1. ASSUME NEW k \in Jobs
          PROVE  /\ transferred'[k] \subseteq 0 .. PartsOf(k) - 1
                 /\ arrivedSubRequests'[k] = Cardinality(transferred'[k])
                 /\ transferred'[k] # {} => k \in asked'
                 /\ k \in answered' => transferred'[k] = 0 .. PartsOf(k) - 1
      <3>1. CASE k = j
        BY <1>3, <1>6, <1>8, <1>9, <1>10, <1>11, <3>1
      <3>2. CASE k # j
        BY <1>6, <1>11, <3>2 DEF StorageInv, CountRight
      <3>3. QED
        BY <3>1, <3>2
    <2>2. QED
      BY <1>11, <2>1 DEF CountRight
  <1>13. \A s : SubRight(s) /\ s # sub /\ s.parent \in Jobs => SubRight(s)'
    <2> SUFFICES ASSUME NEW s, SubRight(s), s # sub, s.parent \in Jobs PROVE SubRight(s)'
      OBVIOUS
    <2>1. PICK k, i : k = s.parent /\ i = s.part
      OBVIOUS
    <2>2. /\ k \in asked /\ i \in 0 .. PartsOf(k) - 1 /\ s = PartRequest(k, i)
          /\ i \notin transferred[k] /\ (FsOf[k] = "NFS" => transferred[k] = 0 .. i - 1)
      BY <2>1 DEF SubRight
    <2>3. CASE k # j
      <3>1. transferred'[k] = transferred[k]
        BY <1>11, <2>1, <2>3
      <3>2. QED
        BY <1>6, <2>1, <2>2, <3>1 DEF SubRight
    <2>4. CASE k = j
      <3>1. i # p
        BY <1>3, <2>2, <2>4
      <3>2. FsOf[j] # "NFS"
        <4>1. ASSUME FsOf[j] = "NFS" PROVE FALSE
          <5>1. 0 .. p - 1 = 0 .. i - 1 /\ p \in Nat /\ i \in Nat
            BY <1>3, <1>7, <2>2, <2>4, <4>1
          <5>2. i < p => i \in 0 .. p - 1
            BY <5>1
          <5>3. p < i => p \in 0 .. i - 1
            BY <5>1
          <5>4. QED
            BY <3>1, <5>1, <5>2, <5>3
        <4>2. QED
          BY <4>1
      <3>3. i \notin T
        BY <1>5, <2>2, <2>4, <3>1
      <3>4. QED
        BY <1>6, <1>11, <2>1, <2>2, <2>4, <3>2, <3>3 DEF SubRight
    <2>5. QED
      BY <2>3, <2>4
  <1>14. \A s : SubRight(s) => s.parent \in Jobs
    BY DEF SubRight, StorageInv, AskedRight
  <1>15. ASSUME FsOf[j] = "NFS", arrived[j] # PartsOf(j) PROVE SubRight(next)' /\ next.parent = j
    <2>1. T = 0 .. p /\ p \in Nat
      BY <1>3, <1>5, <1>7, <1>15
    <2>2. Cardinality(T) = p + 1
      BY <2>1, FS_Interval
    <2>3. p + 1 \in 0 .. PartsOf(j) - 1 /\ p + 1 \notin T /\ T = 0 .. (p + 1) - 1
      BY <1>3, <1>7, <1>8, <1>15, <2>1, <2>2
    <2>4. sub = [parent |-> j, part |-> p, server |-> 1]
      BY <1>3, <1>15 DEF PartRequest
    <2>5. next = [parent |-> j, part |-> p + 1, server |-> 1]
      BY <2>4
    <2>6. next = PartRequest(j, p + 1) /\ next.parent = j /\ next.part = p + 1
      BY <1>15, <2>5 DEF PartRequest
    <2> HIDE DEF next
    <2>7. PICK s : s = next
      OBVIOUS
    <2>8. s = PartRequest(s.parent, s.part) /\ s.parent = j /\ s.part = p + 1
      BY <2>6, <2>7
    <2>9. SubRight(s)'
      BY <1>3, <1>6, <1>11, <2>3, <2>8 DEF SubRight
    <2>10. next = next'
      <3>1. sub = sub'
        OBVIOUS
      <3>2. QED
        BY DEF next
    <2>11. QED
      BY <2>6, <2>7, <2>9
  <1> HIDE DEF next
  <1>16. \A s \in sent' : (s \in sent /\ s # sub) \/ (SubRight(s)' /\ FsOf[s.parent] = "NFS")
    BY <1>6, <1>15
  <1>17. \A s, o : Sendable(s, o) => Sendable(s, o)'
    <2> SUFFICES ASSUME NEW s, NEW o, Sendable(s, o) PROVE Sendable(s, o)'
      OBVIOUS
    <2>1. SubRight(s) /\ s # sub /\ FsOf[s.parent] = "PFS" /\ MachineOf[s.parent] = o /\ s \notin sent
      BY DEF Sendable
    <2>2. SubRight(s)'
      BY <1>13, <1>14, <2>1
    <2>3. s \notin sent'
      BY <1>16, <2>1
    <2>4. QED
      BY <2>1, <2>2, <2>3 DEF Sendable
  <1>18. PartsRight'
    <2>1. ASSUME NEW o \in Machines PROVE QueueHolds(o)'
      <3>1. QueueHolds(o)
        BY DEF StorageInv, PartsRight
      <3>2. PICK s : s = latency[o]
        OBVIOUS
      <3>3. s # NULL => Sendable(s, o)'
        BY <1>17, <3>1, <3>2 DEF QueueHolds
      <3>4. latency[o] # NULL => Sendable(latency[o], o)'
        BY <1>6, <3>2, <3>3 DEF Sendable, SubRight
      <3>5. QED
        BY <1>6, <1>17, <3>1, <3>4 DEF QueueHolds
    <2>2. \A s \in sent' : SubRight(s)'
      BY <1>13, <1>14, <1>16 DEF StorageInv, PartsRight
    <2>3. QED
      BY <1>6, <2>1, <2>2 DEF StorageInv, PartsRight
  <1>19. phase[j] \in {"sent", "done"}
    BY <1>3 DEF StorageInv, AskedRight
  <1>20. \A k \in Jobs : phase'[k] = phase[k] \/ (k = j /\ phase'[k] = "done")
    <2>1. phase \in [Servers \cup Clients \cup Jobs -> Phases]
      BY DEF NetInv, ClientsRight
    <2>2. QED
      BY <1>6, <2>1
  <1>21. PendingRight'
    BY <1>6 DEF PendingRight, StorageInv, waiting
  <1>22. AskedRight'
    BY <1>3, <1>6, <1>20 DEF AskedRight, StorageInv
  <1>23. WaitingRight'
    <2>1. \A k \in Jobs : phase[k] = "connecting" => phase'[k] = "connecting"
      BY <1>19, <1>20
    <2>2. QED
      BY <1>6, <2>1, WaitingStays DEF NetInv, StorageInv
  <1>24. BegunRight'
    <2>1. \A k \in Jobs : phase[k] # "idle" => phase'[k] # "idle"
      BY <1>20
    <2>2. QED
      BY <1>6, <2>1, BegunKept DEF NetInv, StorageInv
  <1>25. CellsRight'
    <2>1. \A k \in Jobs : phase'[k] # "idle" => phase[k] # "idle"
      BY <1>19, <1>20
    <2>2. QED
      BY <1>6, <2>1, CellsKept DEF StorageInv
  <1>26. Abstract!Transfer(j)
    <2> DEFINE Blocks == [k \in Jobs |-> 0 .. PartsOf(k) - 1]
    <2>1. Blocks[j] = 0 .. PartsOf(j) - 1
      BY <1>3
    <2> HIDE DEF Blocks
    <2>2. \E some \in SUBSET (Blocks[j] \ transferred[j]) :
             transferred' = [transferred EXCEPT ![j] = @ \cup some]
      <3>1. {p} \in SUBSET (Blocks[j] \ transferred[j])
        BY <1>3, <2>1
      <3>2. QED
        BY <1>5, <1>6, <3>1
    <2>3. UNCHANGED answered \/ (j \notin answered /\ transferred'[j] = Blocks[j] /\ answered' = answered \cup {j})
      BY <1>6, <1>9, <1>10, <1>11, <2>1
    <2>4. QED
      BY <1>3, <1>6, <2>2, <2>3 DEF Abstract!Transfer, Blocks
  <1>27. QED
    BY <1>3, <1>12, <1>18, <1>21, <1>22, <1>23, <1>24, <1>25, <1>26 DEF StorageInv

\* A machine is closed.
LEMMA StoClose ==
    ASSUME NetInv, StorageInv, NEW m \in Machines, CloseMachine(m)
    PROVE  StorageInv'
  <1> DEFINE at == {HostOf[m]} \cup {n \in Nodes : m \in lrep[n]}
  <1>1. CloseConnections(at, m) /\ UNCHANGED <<waiting, phase>> /\ UNCHANGED storage /\ UNCHANGED io
    BY DEF CloseMachine
  <1>2. at \in SUBSET Nodes
    BY Constants
  <1> HIDE DEF at
  <1>3. /\ \A r \in Requests : connection'[r] \in {connection[r], [connection[r] EXCEPT !.status = "closed"]}
        /\ IsFun(connection', Requests)
    BY <1>1, <1>2, TablesClose DEF NetInv, ClientsRight
  <1>4. SameConnections
    BY <1>3, StatusChanged DEF NetInv
  <1>5. \A r \in StorageConnections : connection'[r].status = "opening" => connection[r].status = "opening"
    BY <1>4 DEF SameConnections, Requests
  <1>6. PendingRight'
    BY <1>1 DEF PendingRight, StorageInv, waiting
  <1>7. UNCHANGED <<asking, cell, connecting>>
    BY <1>1 DEF storage
  <1>8. QED
    BY <1>1, <1>5, <1>6, <1>7, StorageKept DEF NetInv

LEMMA StoInit ==
    Init => StorageInv /\ Abstract!Init
  <1> SUFFICES ASSUME Init PROVE StorageInv /\ Abstract!Init
    OBVIOUS
  <1>1. IsSeq(<<>>) /\ Range(<<>>) = {} /\ DOMAIN <<>> = {}
    BY DEF IsSeq, Range
  <1>2. /\ pendingConnections = [n \in Nodes |-> <<>>]
        /\ connection = [r \in Requests |-> NoConnection]
        /\ phase = [a \in Servers \cup Clients \cup Jobs |-> "idle"]
    BY DEF Init, NetworkInit
  <1>3. /\ asking = [m \in Machines |-> <<>>] /\ cell = [m \in Machines |-> NoCell]
        /\ connecting = [m \in Machines |-> <<>>] /\ queue = [m \in Machines |-> <<>>]
        /\ latency = [m \in Machines |-> NULL] /\ sent = {}
        /\ arrivedSubRequests = [j \in Jobs |-> 0] /\ asked = {} /\ answered = {}
        /\ transferred = [j \in Jobs |-> {}]
    BY DEF Init
  <1>4. PendingRight
    BY <1>1, <1>2 DEF PendingRight, IsFun
  <1>5. AskedRight
    BY <1>2, <1>3 DEF AskedRight
  <1>6. WaitingRight
    BY <1>1, <1>3 DEF WaitingRight
  <1>7. BegunRight
    BY <1>1, <1>2, <1>3 DEF BegunRight, NoConnection, Requests
  <1>8. CellsRight
    <2>1. IsFun(cell, Machines) /\ \A m \in Machines : cell[m] = NoCell /\ IsCell(cell[m])
      BY <1>3 DEF IsFun, NoCell, IsCell
    <2>2. ASSUME NEW j \in Jobs PROVE CellRight(MachineOf[j], j)
      <3>1. PICK m \in Machines : m = MachineOf[j]
        BY Constants
      <3>2. cell[m].connections = <<>> /\ ~cell[m].active /\ phase[j] = "idle"
        BY <1>2, <2>1 DEF NoCell
      <3>3. QED
        BY <1>1, <3>1, <3>2 DEF CellRight
    <2>3. QED
      BY <2>1, <2>2 DEF CellsRight
  <1>9. PartsRight
    <2>1. IsFun(queue, Machines) /\ IsFun(latency, Machines)
      BY <1>3 DEF IsFun
    <2>2. QED
      BY <1>1, <1>3, <2>1 DEF PartsRight, QueueHolds
  <1>10. CountRight
    <2>1. IsFun(arrivedSubRequests, Jobs) /\ IsFun(transferred, Jobs)
      BY <1>3 DEF IsFun
    <2>2. Cardinality({}) = 0
      BY FS_EmptySet
    <2>3. QED
      BY <1>3, <2>1, <2>2 DEF CountRight
  <1>11. Abstract!Init
    BY <1>3 DEF Abstract!Init
  <1>12. QED
    BY <1>4, <1>5, <1>6, <1>7, <1>8, <1>9, <1>10, <1>11 DEF StorageInv

LEMMA StoNext ==
    ASSUME SameStorage, NetInv, StorageInv, [Next]_vars
    PROVE  StorageInv' /\ [Abstract!Next]_<<asked, transferred, answered>>
  <1> DEFINE Same == UNCHANGED <<asked, transferred, answered>>
             Goal == StorageInv' /\ [Abstract!Next]_<<asked, transferred, answered>>
  <1>0. StorageInv' /\ Same => Goal
    OBVIOUS
  <1>1. CASE NetworkNext /\ UNCHANGED <<storage, io>>
    <2>1. /\ PendingRight' /\ \A j \in Jobs : phase'[j] = phase[j]
          /\ \A r \in StorageConnections : connection'[r].status = "opening" => connection[r].status = "opening"
      BY <1>1, NetworkJobs DEF StorageInv
    <2>2. UNCHANGED <<asking, cell, connecting>> /\ UNCHANGED io /\ Same
      BY <1>1 DEF storage, io
    <2>3. StorageInv'
      BY <2>1, <2>2, StorageKept DEF NetInv
    <2>4. QED
      BY <2>2, <2>3
  <1>2. ASSUME NEW j \in Jobs, ConnectToStorage(j) PROVE Goal
    <2>1. Same
      BY <1>2 DEF ConnectToStorage, io
    <2>2. QED
      BY <1>2, <2>1, StoConnect
  <1>3. ASSUME NEW j \in Jobs, Operation(j) PROVE Goal
    BY <1>3, StoOperation DEF Abstract!Next
  <1>4. ASSUME NEW m \in Machines, SetRemoteData(m) PROVE Goal
    <2>1. Same
      BY <1>4 DEF SetRemoteData, io
    <2>2. QED
      BY <1>4, <2>1, StoSetRemote
  <1>5. ASSUME NEW m \in Machines, EndOfLatency(m) PROVE Goal
    BY <1>5, StoEndOfLatency
  <1>6. ASSUME NEW m \in Machines, CloseMachine(m) PROVE Goal
    <2>1. Same
      BY <1>6 DEF CloseMachine, io
    <2>2. QED
      BY <1>6, <2>1, StoClose
  <1>7. ASSUME NEW r \in StorageConnections, StorageEstablished(r) PROVE Goal
    <2>1. Same
      BY <1>7 DEF StorageEstablished, io
    <2>2. QED
      BY <1>7, <2>1, StoEstablished
  <1>8. ASSUME NEW sub \in sent, Response(sub) PROVE Goal
    BY <1>8, StoResponse DEF Abstract!Next
  <1>9. CASE UNCHANGED vars
    <2>1. UNCHANGED <<phase, waiting, network, asking, cell, connecting>> /\ UNCHANGED io
      BY <1>9 DEF vars, storage
    <2>2. UNCHANGED connection /\ PendingRight' /\ Same
      BY <2>1 DEF network, io, waiting, PendingRight, StorageInv
    <2>3. StorageInv'
      BY <2>1, <2>2, StorageKept DEF NetInv
    <2>4. QED
      BY <2>2, <2>3
  <1>10. QED
    BY <1>1, <1>2, <1>3, <1>4, <1>5, <1>6, <1>7, <1>8, <1>9 DEF Next

\* When the jobs of a machine use the same storage nodes, which is what the scheduler gives
\* them, a cell is active only with a connection to each of them, and each part of an
\* operation waits in one place until it has been served (PFS_Storage_Cell, NFS_Storage_Cell).
THEOREM StorageInvariant ==
    ASSUME SameStorage
    PROVE  Spec => [](NetInv /\ StorageInv)
  <1>1. Init => NetInv /\ StorageInv
    BY NetInit, StoInit
  <1>2. (NetInv /\ StorageInv) /\ [Next]_vars => (NetInv /\ StorageInv)'
    BY NetNext, StoNext
  <1>3. QED
    BY <1>1, <1>2, PTL DEF Spec

\* The jobs' operations implement AbstractVolume: each is asked once, its parts are served
\* in any order, each once, and it is answered once, after the last of them.
THEOREM StorageImplements ==
    ASSUME SameStorage
    PROVE  Spec => KeepsPromise
  <1>1. Init => Abstract!Init
    BY StoInit
  <1>2. NetInv /\ StorageInv /\ [Next]_vars => [Abstract!Next]_(Abstract!vars)
    BY StoNext DEF Abstract!vars
  <1>3. Spec => [](NetInv /\ StorageInv)
    BY StorageInvariant
  <1>4. QED
    BY <1>1, <1>2, <1>3, PTL DEF Spec, KeepsPromise, Abstract!Spec
-------------------------------------------------------------------------------
(* Until a machine is closed nothing stops the simulation.                 *)

\* What takes a port of node n for the job a that listens there, and at its own node for
\* the request r.
ListenerUser(n, a) == IF a \in Servers THEN <<a>> ELSE <<MachineOf[a], n>>
RequestUser(r) == IF r \in Clients THEN <<r>> ELSE <<MachineOf[r[1]], r[2]>>

Takes(u, n, p) ==
    \/ \E l \in Range(listening[n]) : l.port = p /\ ListenerUser(n, l.app) = u
    \/ \E r \in Requests : /\ NodeOf(r) = n /\ RequestUser(r) = u
                           /\ connection[r].status = "open" /\ connection[r].local = p

\* The ports below the pointer of a node are in use, and every port in use is taken by
\* something that needs one.  (PAT is told of port 0 for a connection that is shared.)
PortsGiven(n) ==
    /\ portHoles[n] = <<>> /\ portPtr[n] \in Nat /\ FirstPort <= portPtr[n]
    /\ IsFiniteSet(freePorts[n]) /\ FirstPort .. portPtr[n] - 1 \subseteq freePorts[n]
    /\ \A l \in Range(listening[n]) : l.port \in freePorts[n]
    /\ \A p \in freePorts[n] : p = 0 \/ \E u \in PortUsers(apps, n) : Takes(u, n, p)

\* A server listens once, and a machine listens once at a node of storage.
ListenersOnce(n) ==
    /\ \A l \in Range(listening[n]) :
          \/ l.app \in Servers /\ phase[l.app] # "idle"
          \/ /\ l.app \in Jobs /\ MachineOf[l.app] \in lrep[n]
             /\ n \in Range(TargetsOf[l.app])
    /\ \A l, k \in Range(listening[n]) :
          ListenerUser(n, l.app) = ListenerUser(n, k.app) => l.port = k.port

Opened(r) == connection[r].status # "none"

\* A connection is made once, and one between a machine and a node of storage.
RequestsOnce ==
    /\ \A r \in Requests : /\ connection[r].status \in {"none", "opening", "open"}
                           /\ Opened(r) => Owner(r) \in apps
    /\ \A c \in Clients : Opened(c) => phase[c] # "idle"
    /\ \A r \in StorageConnections : Opened(r) => ExistsConnection(Origin(r), r[2])
    /\ \A r, q \in StorageConnections :
          Opened(r) /\ Opened(q) /\ RequestUser(r) = RequestUser(q) => r = q

HasPorts(n, m) == ports[n][m] # <<>>

\* The phases of a client that has a connection or has had one.
Linked == {"connected", "sent", "delivered", "done"}

\* A machine has ports where it is to be closed.
HostsRight ==
    /\ \A n \in Nodes : \A m \in lrep[n] : HasPorts(n, m)
    /\ \A m \in Machines : cell[m].active => HasPorts(HostOf[m], m)
    /\ \A a \in Servers : phase[a] # "idle" => HasPorts(HostOf[MachineOf[a]], MachineOf[a])
    /\ \A c \in Clients : phase[c] \in Linked =>
          HasPorts(HostOf[MachineOf[c]], MachineOf[c])
    /\ \A j \in Jobs : phase[j] = "done" => cell[MachineOf[j]].active

\* Requests for parts are sent only for cells that are active.
SubActive(s) ==
    /\ s = [parent |-> s.parent, part |-> s.part, server |-> s.server]
    /\ s.parent \in Jobs /\ cell[MachineOf[s.parent]].active

QueueActive(m) ==
    /\ IsSeq(queue[m]) /\ \A s \in Range(queue[m]) : SubActive(s)
    /\ latency[m] # NULL => SubActive(latency[m])

SubsActive ==
    /\ IsFun(queue, Machines) /\ IsFun(latency, Machines)
    /\ \A s \in sent : SubActive(s)
    /\ \A m \in Machines : QueueActive(m)

IsLink(c) == c = [node |-> c.node, id |-> c.id]

CellShapes ==
    /\ IsFun(cell, Machines)
    /\ \A m \in Machines : /\ IsCell(cell[m]) /\ cell[m].servers \in Nat
                           /\ IsSeq(cell[m].connections)
                           /\ \A c \in Range(cell[m].connections) : IsLink(c)

PatShapes ==
    /\ IsFun(portPtr, Nodes) /\ IsFun(portHoles, Nodes) /\ IsFun(freePorts, Nodes)
    /\ lrep \in [Nodes -> SUBSET Machines]

PortsRight == \A n \in Nodes : PortsGiven(n) /\ ListenersOnce(n)

AsksRight == \A m \in Machines : \A i \in DOMAIN asking[m] : asking[m][i][1] \in apps

OpenRight ==
    /\ apps \in Workloads /\ fault \in {"none", "deleted twice"}
    /\ PatShapes /\ CellShapes /\ PendingRight
    /\ AsksRight /\ SubsActive /\ PortsRight /\ RequestsOnce /\ HostsRight

OpenInv == attached = Machines => OpenRight
-------------------------------------------------------------------------------
\* What takes a port takes one.
LEMMA TakesOne ==
    ASSUME NEW n \in Nodes, ListenersOnce(n), RequestsOnce, NEW u, NEW p, NEW q, Takes(u, n, p), Takes(u, n, q)
    PROVE  p = q
  <1> DEFINE L(x) == \E l \in Range(listening[n]) : l.port = x /\ ListenerUser(n, l.app) = u
             R(x) == \E r \in Requests : /\ NodeOf(r) = n /\ RequestUser(r) = u
                                         /\ connection[r].status = "open" /\ connection[r].local = x
  <1>1. (L(p) \/ R(p)) /\ (L(q) \/ R(q))
    BY DEF Takes
  <1>2. CASE L(p) /\ L(q)
    BY <1>2 DEF ListenersOnce
  <1>3. CASE R(p) /\ R(q)
    <2>1. PICK r \in Requests : /\ RequestUser(r) = u /\ Opened(r) /\ connection[r].local = p
      BY <1>3 DEF Opened
    <2>2. PICK o \in Requests : /\ RequestUser(o) = u /\ Opened(o) /\ connection[o].local = q
      BY <1>3 DEF Opened
    <2>3. r = o
      <3>1. CASE r \in Clients /\ o \in Clients
        BY <2>1, <2>2, <3>1 DEF RequestUser
      <3>2. CASE r \notin Clients /\ o \notin Clients
        <4>1. r \in StorageConnections /\ o \in StorageConnections
          BY <3>2 DEF Requests
        <4>2. QED
          BY <2>1, <2>2, <4>1 DEF RequestsOnce
      <3>3. QED
        BY <2>1, <2>2, <3>1, <3>2 DEF RequestUser
    <2>4. QED
      BY <2>1, <2>2, <2>3
  <1>4. ASSUME NEW x, NEW y, L(x), R(y)
        PROVE  FALSE
    <2>1. PICK l \in Range(listening[n]) : ListenerUser(n, l.app) = u
      BY <1>4
    <2>2. PICK r \in Requests : NodeOf(r) = n /\ RequestUser(r) = u
      BY <1>4
    <2>3. CASE l.app \in Servers
      <3>1. u = <<l.app>>
        BY <2>1, <2>3 DEF ListenerUser
      <3>2. r \notin Clients
        <4>1. SUFFICES ASSUME r \in Clients PROVE FALSE
          OBVIOUS
        <4>2. u = <<r>>
          BY <2>2, <4>1 DEF RequestUser
        <4>3. r = l.app
          BY <3>1, <4>2
        <4>4. QED
          BY <2>3, <4>1, <4>3, Constants
      <3>3. u = <<MachineOf[r[1]], r[2]>>
        BY <2>2, <3>2 DEF RequestUser
      <3>4. QED
        BY <3>1, <3>3
    <2>4. CASE l.app \notin Servers
      <3>1. l.app \in Jobs /\ n \in Range(TargetsOf[l.app]) /\ u = <<MachineOf[l.app], n>>
        BY <2>1, <2>4 DEF ListenersOnce, ListenerUser
      <3>2. r \notin Clients
        BY <2>2, <3>1 DEF RequestUser
      <3>3. r \in StorageConnections /\ MachineOf[r[1]] = MachineOf[l.app]
        BY <2>2, <3>1, <3>2 DEF RequestUser, Requests
      <3>4. HostOf[MachineOf[l.app]] = n
        BY <2>2, <3>3, Constants DEF NodeOf
      <3>5. QED
        BY <3>1, <3>4, Constants
    <2>5. QED
      BY <2>3, <2>4
  <1>5. QED
    BY <1>1, <1>2, <1>3, <1>4

\* While something that needs a port has none, there is one that is free.
LEMMA PortFree ==
    ASSUME PortsSuffice, apps \in Workloads, NEW n \in Nodes, PortsGiven(n), ListenersOnce(n), RequestsOnce,
           NEW u \in PortUsers(apps, n), \A p : ~ Takes(u, n, p)
    PROVE  /\ NewPort(n) \in Nat /\ portPtr[n] <= NewPort(n) /\ NewPort(n) \notin freePorts[n]
           /\ portPtr[n] .. NewPort(n) - 1 \subseteq freePorts[n]
  <1> DEFINE U == PortUsers(apps, n)
             P == FirstPort .. LastPort - 1
             f == [p \in P |-> CHOOSE v \in U : Takes(v, n, p)]
  <1>1. FirstPort \in Nat \ {0} /\ LastPort \in Nat /\ FirstPort <= LastPort
    BY NetworkAssumption DEF NetworkAssumption
  <1>2. IsFiniteSet(U) /\ Cardinality(U) <= LastPort - FirstPort
    BY DEF PortsSuffice
  <1>3. ~ P \subseteq freePorts[n]
    <2> SUFFICES ASSUME P \subseteq freePorts[n] PROVE FALSE
      OBVIOUS
    <2>1. ASSUME NEW p \in P
          PROVE  f[p] \in U \ {u} /\ Takes(f[p], n, p)
      <3>1. \E v \in U : Takes(v, n, p)
        BY <1>1, <2>1 DEF PortsGiven
      <3> HIDE DEF U
      <3>2. f[p] \in U /\ Takes(f[p], n, p)
        BY <3>1
      <3>3. QED
        BY <3>2
    <2>2. \A p, q \in P : f[p] = f[q] => p = q
      BY <2>1, TakesOne
    <2> HIDE DEF U, P
    <2>3. f \in [P -> U \ {u}]
      BY <2>1
    <2>4. f \in Injection(P, U \ {u})
      <3> HIDE DEF f
      <3>1. QED
        BY <2>2, <2>3 DEF Injection, IsInjective
    <2>5. u \in U
      BY DEF U
    <2>6. IsFiniteSet(U \ {u}) /\ Cardinality(U \ {u}) = Cardinality(U) - 1 /\ Cardinality(U) \in Nat
      BY <1>2, <2>5, FS_RemoveElement, FS_CardinalityType
    <2>7. Cardinality(P) <= Cardinality(U \ {u})
      BY <2>4, <2>6, FS_Injection
    <2>8. Cardinality(P) = LastPort - FirstPort
      <3>1. FirstPort \in Int /\ LastPort - 1 \in Int
        BY <1>1
      <3>2. Cardinality(P) = IF FirstPort > LastPort - 1 THEN 0 ELSE LastPort - 1 - FirstPort + 1
        BY <3>1, FS_Interval DEF P
      <3>3. QED
        BY <1>1, <3>2
    <2>9. QED
      BY <1>1, <1>2, <2>6, <2>7, <2>8
  <1>4. PICK q \in P : q \notin freePorts[n]
    BY <1>3
  <1>5. /\ portHoles[n] = <<>> /\ portPtr[n] \in Nat /\ FirstPort <= portPtr[n] /\ IsFiniteSet(freePorts[n])
        /\ FirstPort .. portPtr[n] - 1 \subseteq freePorts[n]
    BY DEF PortsGiven
  <1>6. q \in Nat /\ portPtr[n] <= q /\ q < LastPort
    BY <1>1, <1>4, <1>5
  <1> DEFINE F == {p \in portPtr[n] .. LastPort + Cardinality(freePorts[n]) : p \notin freePorts[n]}
  <1>7. Cardinality(freePorts[n]) \in Nat
    BY <1>5, FS_CardinalityType
  <1>8. F \in SUBSET Nat /\ q \in F
    BY <1>1, <1>4, <1>5, <1>6, <1>7
  <1>9. NewPort(n) = Min(F)
    BY <1>5, <1>6 DEF NewPort
  <1>10. NewPort(n) \in F /\ \A x \in F : NewPort(n) <= x
    <2> HIDE DEF F
    <2>1. QED
      BY <1>8, <1>9, MinIn
  <1>11. ASSUME NEW x \in portPtr[n] .. NewPort(n) - 1
         PROVE  x \in freePorts[n]
    <2>1. x \in portPtr[n] .. LastPort + Cardinality(freePorts[n])
      BY <1>1, <1>5, <1>7, <1>8, <1>10
    <2>2. ~ NewPort(n) <= x
      BY <1>5, <1>8, <1>10
    <2>3. QED
      BY <1>10, <2>1, <2>2
  <1>12. QED
    BY <1>5, <1>8, <1>10, <1>11

-------------------------------------------------------------------------------
(* What a step may do, and what it keeps then.                             *)

\* No job starts anew.
StayBegun == \A a \in Servers \cup Clients \cup Jobs : phase[a] # "idle" => phase'[a] # "idle"

\* No port is taken back.
TakesStay ==
    /\ \A n \in Nodes : Range(listening[n]) \subseteq Range(listening'[n])
    /\ \A r \in Requests : connection[r].status = "open" =>
          connection'[r].status = "open" /\ connection'[r].local = connection[r].local

PortsStay == \A n \in Nodes, m \in Machines : HasPorts(n, m) => HasPorts(n, m)'

ActivesStay == \A m \in Machines : cell[m].active => cell'[m].active

ExistsStay == \A m \in Machines, n \in Nodes : ExistsConnection(m, n) => ExistsConnection(m, n)'

LEMMA TakeStays ==
    ASSUME TakesStay, NEW n \in Nodes, NEW u, NEW p, Takes(u, n, p)
    PROVE  Takes(u, n, p)'
  <1>1. CASE \E l \in Range(listening[n]) : l.port = p /\ ListenerUser(n, l.app) = u
    BY <1>1 DEF TakesStay, Takes, ListenerUser
  <1>2. CASE \E r \in Requests : /\ NodeOf(r) = n /\ RequestUser(r) = u
                                 /\ connection[r].status = "open" /\ connection[r].local = p
    <2>1. PICK r \in Requests : /\ NodeOf(r) = n /\ RequestUser(r) = u
                                /\ connection[r].status = "open" /\ connection[r].local = p
      BY <1>2
    <2>2. connection'[r].status = "open" /\ connection'[r].local = p
      BY <2>1 DEF TakesStay
    <2>3. (NodeOf(r) = n /\ RequestUser(r) = u)'
      BY <2>1 DEF NodeOf, Origin, Owner, RequestUser
    <2>4. QED
      BY <2>2, <2>3 DEF Takes
  <1>3. QED
    BY <1>1, <1>2 DEF Takes

\* A node at which nothing listens anew and no port is given.
LEMMA NodeKept ==
    ASSUME NEW n \in Nodes, PortsGiven(n), ListenersOnce(n), TakesStay, StayBegun, UNCHANGED apps,
           UNCHANGED <<portPtr[n], portHoles[n], freePorts[n], listening[n]>>, lrep[n] \subseteq lrep'[n]
    PROVE  PortsGiven(n)' /\ ListenersOnce(n)'
  <1>1. ListenersOnce(n)'
    BY DEF ListenersOnce, ListenerUser, StayBegun
  <1>2. \A p \in freePorts'[n] : p = 0 \/ \E u \in PortUsers(apps', n) : Takes(u, n, p)'
    BY TakeStays DEF PortsGiven
  <1>3. PortsGiven(n)'
    BY <1>2 DEF PortsGiven
  <1>4. QED
    BY <1>1, <1>3

LEMMA PortsKept ==
    ASSUME PortsRight, TakesStay, StayBegun, UNCHANGED apps,
           UNCHANGED <<portPtr, portHoles, freePorts, listening, lrep>>
    PROVE  PortsRight'
  <1>1. ASSUME NEW n \in Nodes PROVE PortsGiven(n)' /\ ListenersOnce(n)'
    BY NodeKept DEF PortsRight
  <1>2. QED
    BY <1>1 DEF PortsRight

LEMMA RequestsKept ==
    ASSUME RequestsOnce, UNCHANGED <<apps, connection>>, StayBegun, ExistsStay
    PROVE  RequestsOnce'
  <1>1. \A r \in StorageConnections : Opened(r)' => ExistsConnection(Origin(r), r[2])'
    BY Constants DEF RequestsOnce, Opened, ExistsStay, Requests
  <1>2. \A r \in Requests : /\ connection'[r].status \in {"none", "opening", "open"}
                            /\ Opened(r)' => Owner(r)' \in apps'
    BY DEF RequestsOnce, Opened, Owner
  <1>3. \A c \in Clients : Opened(c)' => phase'[c] # "idle"
    BY DEF RequestsOnce, Opened, StayBegun
  <1>4. \A r, q \in StorageConnections :
          Opened(r)' /\ Opened(q)' /\ RequestUser(r)' = RequestUser(q)' => r = q
    BY DEF RequestsOnce, Opened, RequestUser
  <1>5. \A r \in StorageConnections : Origin(r)' = Origin(r)
    BY DEF Origin, Owner
  <1>6. QED
    BY <1>1, <1>2, <1>3, <1>4, <1>5 DEF RequestsOnce, ExistsConnection

LEMMA SubsKept ==
    ASSUME SubsActive, UNCHANGED <<queue, latency, sent>>, ActivesStay
    PROVE  SubsActive'
  <1>1. ASSUME NEW q, SubActive(q) PROVE SubActive(q)'
    BY <1>1, Constants DEF SubActive, ActivesStay
  <1>2. QED
    BY <1>1 DEF SubsActive, QueueActive

\* What becomes active, listens or is connected has ports.
LEMMA HostsKept ==
    ASSUME HostsRight, PortsStay, ActivesStay, lrep \in [Nodes -> SUBSET Machines],
           \A n \in Nodes : \A m \in lrep'[n] : m \in lrep[n] \/ (m \in Machines /\ HasPorts(n, m)'),
           \A m \in Machines : cell'[m].active => cell[m].active \/ HasPorts(HostOf[m], m)',
           \A a \in Servers : phase'[a] # "idle" =>
              phase[a] # "idle" \/ HasPorts(HostOf[MachineOf[a]], MachineOf[a])',
           \A c \in Clients : phase'[c] \in Linked =>
              phase[c] \in Linked \/ HasPorts(HostOf[MachineOf[c]], MachineOf[c])',
           \A j \in Jobs : phase'[j] = "done" => phase[j] = "done" \/ cell'[MachineOf[j]].active
    PROVE  HostsRight'
  <1>1. \A n \in Nodes : \A m \in lrep'[n] : HasPorts(n, m)'
    BY DEF HostsRight, PortsStay
  <1>2. \A m \in Machines : HostOf[m] \in Nodes /\ (cell'[m].active => HasPorts(HostOf[m], m)')
    BY Constants DEF HostsRight, PortsStay
  <1>3. \A a \in Servers : phase'[a] # "idle" => HasPorts(HostOf[MachineOf[a]], MachineOf[a])'
    BY <1>2, Constants DEF HostsRight, PortsStay
  <1>4. \A c \in Clients : phase'[c] \in Linked => HasPorts(HostOf[MachineOf[c]], MachineOf[c])'
    BY <1>2, Constants DEF HostsRight, PortsStay, Linked
  <1>5. \A j \in Jobs : phase'[j] = "done" => cell'[MachineOf[j]].active
    BY Constants DEF HostsRight, ActivesStay
  <1>6. QED
    BY <1>1, <1>2, <1>3, <1>4, <1>5 DEF HostsRight, Linked, HasPorts

LEMMA AppendNotEmpty ==
    ASSUME NEW s, IsSeq(s), NEW e, NEW k, NEW x
    PROVE  /\ Append(s, e) # <<>>
           /\ [Append(s, e) EXCEPT ![k].id = x] # <<>>
  <1>1. DOMAIN Append(s, e) = 1 .. Len(s) + 1 /\ Len(s) \in Nat
    BY AppendRange
  <1> DEFINE t == [Append(s, e) EXCEPT ![k].id = x]
  <1>2. DOMAIN t = 1 .. Len(s) + 1
    BY <1>1
  <1>3. DOMAIN <<>> = {}
    OBVIOUS
  <1> HIDE DEF t
  <1>4. 1 \in DOMAIN Append(s, e) /\ 1 \in DOMAIN t
    BY <1>1, <1>2
  <1>5. t # <<>> /\ Append(s, e) # <<>>
    BY <1>3, <1>4
  <1>6. QED
    BY <1>5 DEF t

\* A job that needs a port at each of some nodes, and has none there, listens.
LEMMA PortsListen ==
    ASSUME PortsSuffice, Tables, PatShapes, PortsRight, RequestsOnce, StayBegun,
           apps \in Workloads, UNCHANGED apps,
           NEW at \in SUBSET Nodes, NEW m \in Machines, NEW v, NEW a \in Servers \cup Jobs, MachineOf[a] = m,
           \A n \in at : /\ ListenerUser(n, a) \in PortUsers(apps, n)
                         /\ \A p : ~ Takes(ListenerUser(n, a), n, p),
           \A n \in Nodes : lrep[n] \subseteq lrep'[n],
           \/ a \in Servers /\ phase'[a] # "idle"
           \/ a \in Jobs /\ \A n \in at : m \in lrep'[n] /\ n \in Range(TargetsOf[a]),
           Listens(at, m, v, a)
    PROVE  /\ UNCHANGED <<fault, attached, connection>>
           /\ PortsRight' /\ PortsStay /\ \A n \in at : HasPorts(n, m)'
           /\ IsFun(portPtr', Nodes) /\ IsFun(portHoles', Nodes) /\ IsFun(freePorts', Nodes)
  <1> DEFINE p(n) == NewPort(n)
             l(n) == [port |-> p(n), app |-> a]
             e(n) == [real |-> p(n), virtual |-> v, id |-> NULL]
  <1>1. ASSUME NEW n \in at
        PROVE  /\ p(n) \in Nat /\ portPtr[n] <= p(n) /\ p(n) \notin freePorts[n]
               /\ portPtr[n] .. p(n) - 1 \subseteq freePorts[n]
    BY <1>1, PortFree DEF PortsRight
  <1>2. ASSUME NEW n \in at
        PROVE  p(n) # NULL /\ p(n) \notin ListeningPorts(n) /\ portHoles[n] = <<>>
    <2>1. portHoles[n] = <<>> /\ \A k \in Range(listening[n]) : k.port \in freePorts[n]
      BY DEF PortsRight, PortsGiven
    <2>2. \A i \in DOMAIN listening[n] : listening[n][i].port \in freePorts[n]
      BY <2>1 DEF Range
    <2>3. p(n) # NULL
      BY <1>1, NetworkAssumption DEF NetworkAssumption
    <2>4. QED
      BY <1>1, <2>1, <2>2, <2>3 DEF ListeningPorts
  <1>3. /\ portHoles' = [n \in Nodes |-> IF n \in at /\ portHoles[n] # <<>> THEN Tail(portHoles[n])
                                       ELSE portHoles[n]]
        /\ portPtr' = [n \in Nodes |-> IF n \in at /\ portHoles[n] = <<>> THEN p(n) + 1 ELSE portPtr[n]]
        /\ freePorts' = [n \in Nodes |-> IF n \in at THEN freePorts[n] \cup {p(n)} ELSE freePorts[n]]
        /\ ports' = [n \in Nodes |-> IF n \in at
                        THEN [ports[n] EXCEPT ![m] = Append(ports[n][m], e(n))] ELSE ports[n]]
        /\ listening' = [n \in Nodes |-> IF n \in at THEN Append(listening[n], l(n)) ELSE listening[n]]
        /\ UNCHANGED <<attached, connection, fault>>
    BY <1>2 DEF Listens
  <1> HIDE DEF p
  <1>4. /\ IsFun(portPtr', Nodes) /\ IsFun(portHoles', Nodes) /\ IsFun(freePorts', Nodes)
    BY <1>3 DEF IsFun
  <1>5. ASSUME NEW n \in Nodes, n \notin at
        PROVE  UNCHANGED <<portPtr[n], portHoles[n], freePorts[n], listening[n], ports[n]>>
    BY <1>3, <1>5
  <1>6. ASSUME NEW n \in at
        PROVE  /\ portHoles'[n] = portHoles[n] /\ portPtr'[n] = p(n) + 1
               /\ freePorts'[n] = freePorts[n] \cup {p(n)}
               /\ Range(listening'[n]) = Range(listening[n]) \cup {l(n)}
    <2>1. IsSeq(listening[n]) /\ listening'[n] = Append(listening[n], l(n))
      BY <1>3, <1>6 DEF Tables, Shapes
    <2>2. Range(listening'[n]) = Range(listening[n]) \cup {l(n)}
      BY <2>1, AppendRange
    <2>3. QED
      BY <1>2, <1>3, <1>6, <2>2
  <1>7. ASSUME NEW n \in Nodes, NEW o \in Machines
        PROVE  (HasPorts(n, o) => HasPorts(n, o)') /\ (n \in at => HasPorts(n, m)')
    <2>1. IsFun(ports[n], Machines) /\ IsSeq(ports[n][m])
      BY DEF Tables, Shapes
    <2>2. CASE n \in at
      <3>1. ports'[n] = [ports[n] EXCEPT ![m] = Append(ports[n][m], e(n))]
        BY <1>3, <2>2
      <3> HIDE DEF e
      <3>2. ports'[n][m] = Append(ports[n][m], e(n)) /\ (o # m => ports'[n][o] = ports[n][o])
        BY <2>1, <3>1 DEF IsFun
      <3>3. QED
        BY <2>1, <3>2, AppendNotEmpty DEF HasPorts
    <2>3. CASE n \notin at
      BY <1>5, <2>3 DEF HasPorts
    <2>4. QED
      BY <2>2, <2>3
  <1>8. TakesStay
    <2>1. \A n \in Nodes : Range(listening[n]) \subseteq Range(listening'[n])
      BY <1>5, <1>6
    <2>2. QED
      BY <1>3, <2>1 DEF TakesStay
  <1>9. \A n : l(n).port = p(n) /\ l(n).app = a
    OBVIOUS
  <1> HIDE DEF l
  <1>10. ASSUME NEW n \in at
         PROVE  PortsGiven(n)'
    <2>1. PortsGiven(n) /\ n \in Nodes
      BY DEF PortsRight
    <2>2. p(n) \in Nat /\ portPtr[n] <= p(n) /\ portPtr[n] .. p(n) - 1 \subseteq freePorts[n]
      BY <1>1
    <2>3. FirstPort \in Nat
      BY NetworkAssumption DEF NetworkAssumption
    <2>4. portHoles'[n] = <<>> /\ portPtr'[n] \in Nat /\ FirstPort <= portPtr'[n]
      BY <1>6, <2>1, <2>2, <2>3 DEF PortsGiven
    <2>5. IsFiniteSet(freePorts'[n])
      <3>1. IsFiniteSet(freePorts[n]) /\ freePorts'[n] = freePorts[n] \cup {p(n)}
        BY <1>6, <2>1 DEF PortsGiven
      <3>2. IsFiniteSet(freePorts[n] \cup {p(n)})
        BY <3>1, FS_AddElement
      <3>3. QED
        BY <3>1, <3>2
    <2>6. FirstPort .. portPtr'[n] - 1 \subseteq freePorts'[n]
      <3> SUFFICES ASSUME NEW x \in FirstPort .. portPtr'[n] - 1 PROVE x \in freePorts'[n]
        OBVIOUS
      <3>1. /\ portPtr[n] \in Nat /\ FirstPort .. portPtr[n] - 1 \subseteq freePorts[n]
            /\ portPtr'[n] = p(n) + 1 /\ freePorts'[n] = freePorts[n] \cup {p(n)}
        BY <1>6, <2>1 DEF PortsGiven
      <3>2. x \in FirstPort .. portPtr[n] - 1 \/ x \in portPtr[n] .. p(n) - 1 \/ x = p(n)
        BY <2>2, <2>3, <3>1
      <3>3. QED
        BY <2>2, <3>1, <3>2
    <2>7. \A k \in Range(listening'[n]) : k.port \in freePorts'[n]
      BY <1>6, <1>9, <2>1 DEF PortsGiven
    <2>8. ASSUME NEW x \in freePorts'[n], x # 0
          PROVE  \E u \in PortUsers(apps', n) : Takes(u, n, x)'
      <3>1. CASE x \in freePorts[n]
        <4>1. PICK u \in PortUsers(apps, n) : Takes(u, n, x)
          BY <2>1, <2>8, <3>1 DEF PortsGiven
        <4>2. Takes(u, n, x)'
          BY <1>8, <2>1, <4>1, TakeStays
        <4>3. QED
          BY <4>1, <4>2
      <3>2. CASE x = p(n)
        <4>1. PICK u \in PortUsers(apps, n) : u = ListenerUser(n, a)
          OBVIOUS
        <4>2. \E k \in Range(listening'[n]) : k.port = x /\ k.app = a
          BY <1>6, <1>9, <3>2
        <4>3. Takes(u, n, x)'
          BY <4>1, <4>2 DEF Takes, ListenerUser
        <4>4. QED
          BY <4>1, <4>3
      <3>3. QED
        BY <1>6, <2>8, <3>1, <3>2
    <2>9. QED
      BY <2>4, <2>5, <2>6, <2>7, <2>8 DEF PortsGiven
  <1>11. ASSUME NEW n \in at
         PROVE  ListenersOnce(n)'
    <2>1. ListenersOnce(n)
      BY DEF PortsRight
    <2>2. ASSUME NEW k \in Range(listening'[n])
          PROVE  \/ k.app \in Servers /\ phase'[k.app] # "idle"
                 \/ /\ k.app \in Jobs /\ MachineOf[k.app] \in lrep'[n]
                    /\ n \in Range(TargetsOf[k.app])
      <3>1. CASE k \in Range(listening[n])
        BY <2>1, <3>1 DEF ListenersOnce, StayBegun
      <3>2. CASE k = l(n)
        BY <1>9, <3>2
      <3>3. QED
        BY <1>6, <3>1, <3>2
    <2>3. \A k \in Range(listening[n]) : ListenerUser(n, k.app) # ListenerUser(n, a)
      BY DEF Takes
    <2>4. ASSUME NEW k \in Range(listening'[n]), NEW i \in Range(listening'[n]),
                 ListenerUser(n, k.app) = ListenerUser(n, i.app)
          PROVE  k.port = i.port
      <3>1. \/ k \in Range(listening[n]) /\ i \in Range(listening[n])
            \/ k = l(n) /\ i = l(n)
        <4>1. (k \in Range(listening[n]) \/ k = l(n)) /\ (i \in Range(listening[n]) \/ i = l(n))
          BY <1>6
        <4>2. k = l(n) => ListenerUser(n, k.app) = ListenerUser(n, a)
          BY <1>9
        <4>3. i = l(n) => ListenerUser(n, i.app) = ListenerUser(n, a)
          BY <1>9
        <4>4. QED
          BY <2>3, <2>4, <4>1, <4>2, <4>3
      <3>2. QED
        BY <2>1, <2>4, <3>1 DEF ListenersOnce
    <2>5. \A k, i \in Range(listening'[n]) :
            ListenerUser(n, k.app)' = ListenerUser(n, i.app)' => k.port = i.port
      BY <2>4 DEF ListenerUser
    <2>6. QED
      BY <2>2, <2>5 DEF ListenersOnce
  <1>12. PortsRight'
    <2>1. ASSUME NEW n \in Nodes, n \notin at PROVE PortsGiven(n)' /\ ListenersOnce(n)'
      BY <1>5, <1>8, <2>1, NodeKept DEF PortsRight
    <2>2. QED
      BY <1>10, <1>11, <2>1 DEF PortsRight
  <1>13. PortsStay /\ \A n \in at : HasPorts(n, m)'
    BY <1>7, Constants DEF PortsStay
  <1>14. QED
    BY <1>3, <1>4, <1>12, <1>13

\* A connection that is established has a port that is taken by who asked for it.
LEMMA PortsStablished ==
    ASSUME Tables, PatShapes, PortsRight, StayBegun, TakesStay, UNCHANGED apps,
           NEW r \in Requests, NEW local, NEW id, ConnectionStablished(r, local, id),
           UNCHANGED <<portPtr, portHoles, listening, lrep>>,
           local = 0 \/ \E u \in PortUsers(apps, NodeOf(r)) : Takes(u, NodeOf(r), local)'
    PROVE  /\ PortsRight' /\ PortsStay /\ HasPorts(NodeOf(r), Origin(r))'
           /\ PatShapes'
  <1>1. PICK n \in Nodes, m \in Machines : n = NodeOf(r) /\ m = Origin(r)
    BY Constants
  <1>2. freePorts' = [freePorts EXCEPT ![n] = @ \cup {local}]
    BY <1>1 DEF ConnectionStablished
  <1>3. /\ freePorts'[n] = freePorts[n] \cup {local} /\ IsFun(freePorts', Nodes)
        /\ \A k \in Nodes : k # n => freePorts'[k] = freePorts[k]
    BY <1>2 DEF PatShapes, IsFun
  <1>4. PatShapes'
    BY <1>3 DEF PatShapes, IsFun
  <1>5. ASSUME NEW k \in Nodes, k # n PROVE PortsGiven(k)' /\ ListenersOnce(k)'
    BY <1>3, <1>5, NodeKept DEF PortsRight
  <1>6. ListenersOnce(n)'
    BY DEF PortsRight, ListenersOnce, ListenerUser, StayBegun
  <1>7. PortsGiven(n)'
    <2>1. PortsGiven(n)
      BY DEF PortsRight
    <2>2. IsFiniteSet(freePorts'[n])
      BY <1>3, <2>1, FS_AddElement DEF PortsGiven
    <2>3. ASSUME NEW x \in freePorts'[n], x # 0
          PROVE  \E u \in PortUsers(apps', n) : Takes(u, n, x)'
      <3>1. CASE x \in freePorts[n]
        BY <2>1, <2>3, <3>1, TakeStays DEF PortsGiven
      <3>2. CASE x = local
        BY <1>1, <2>3, <3>2
      <3>3. QED
        BY <1>3, <3>1, <3>2
    <2>4. QED
      BY <1>3, <2>1, <2>2, <2>3 DEF PortsGiven
  <1>8. PortsStay /\ HasPorts(n, m)'
    <2> DEFINE e == [real |-> local, virtual |-> local, id |-> NULL]
               s == Append(ports[n][m], e)
               first == SelectInSeq(s, LAMBDA x : x.real = local)
               t == [s EXCEPT ![first].id = id]
    <2>1. ports' = [ports EXCEPT ![n][m] = t]
      BY <1>1 DEF ConnectionStablished
    <2>2. IsFun(ports, Nodes) /\ IsFun(ports[n], Machines) /\ IsSeq(ports[n][m])
      BY DEF Tables, Shapes
    <2> HIDE DEF first, e
    <2>3. t # <<>>
      BY <2>2, AppendNotEmpty
    <2> HIDE DEF t
    <2>4. ports'[n][m] = t /\ \A k \in Nodes, o \in Machines : <<k, o>> # <<n, m>> => ports'[k][o] = ports[k][o]
      <3>1. ports' = [ports EXCEPT ![n] = [ports[n] EXCEPT ![m] = t]]
        BY <2>1, <2>2 DEF IsFun
      <3>2. \A k \in Nodes : ports'[k] = IF k = n THEN [ports[n] EXCEPT ![m] = t] ELSE ports[k]
        BY <2>2, <3>1 DEF IsFun
      <3>3. \A o \in Machines : [ports[n] EXCEPT ![m] = t][o] = IF o = m THEN t ELSE ports[n][o]
        BY <2>2 DEF IsFun
      <3>4. QED
        BY <3>2, <3>3
    <2>5. QED
      BY <2>3, <2>4 DEF PortsStay, HasPorts
  <1>9. (NodeOf(r) = n /\ Origin(r) = m)'
    BY <1>1 DEF NodeOf, Origin, Owner
  <1>10. QED
    BY <1>1, <1>4, <1>5, <1>6, <1>7, <1>8, <1>9 DEF PortsRight, HasPorts

\* A step that opens no connection and gives no port.
LEMMA OpenKept ==
    ASSUME OpenRight, UNCHANGED <<apps, pat, listening, connection, lrep>>, fault' \in {"none", "deleted twice"},
           PendingRight', AsksRight', SubsActive', CellShapes', ActivesStay, ExistsStay,
           \A m \in Machines : cell'[m].active => cell[m].active,
           StayBegun, \A a \in Servers : phase'[a] # "idle" => phase[a] # "idle",
           \A c \in Clients : phase'[c] \in Linked => phase[c] \in Linked,
           \A j \in Jobs : phase'[j] = "done" => phase[j] = "done" \/ cell[MachineOf[j]].active
    PROVE  OpenRight'
  <1>1. UNCHANGED <<ports, portPtr, portHoles, freePorts, listening, lrep, connection>>
    BY DEF pat
  <1>2. PatShapes' /\ lrep \in [Nodes -> SUBSET Machines]
    BY <1>1 DEF OpenRight, PatShapes, IsFun
  <1>3. PortsRight'
    BY <1>1, PortsKept DEF OpenRight, TakesStay
  <1>4. RequestsOnce'
    BY <1>1, RequestsKept DEF OpenRight
  <1>5. PortsStay
    BY <1>1 DEF PortsStay, HasPorts
  <1>6. HostsRight'
    <2>1. \A j \in Jobs : phase'[j] = "done" => phase[j] = "done" \/ cell'[MachineOf[j]].active
      BY Constants DEF ActivesStay
    <2>2. QED
      BY <1>1, <1>2, <1>5, <2>1, HostsKept DEF OpenRight
  <1>7. QED
    BY <1>2, <1>3, <1>4, <1>6 DEF OpenRight

\* The first connection of who asks for it.
LEMMA RequestOpened ==
    ASSUME NetInv, RequestsOnce, NEW r \in Requests, ~ Opened(r), Owner(r) \in apps, NEW to, CreateConnection(r, to),
           UNCHANGED <<apps, listening>>, StayBegun, ExistsStay,
           r \in Clients => phase'[r] # "idle",
           r \notin Clients => /\ ExistsConnection(Origin(r), r[2])'
                               /\ \A q \in StorageConnections : Opened(q) => RequestUser(q) # RequestUser(r)
    PROVE  RequestsOnce' /\ TakesStay
  <1>1. PICK p \in Ephemeral(NodeOf(r)) :
            \E status \in {"opening"} \cup (IF Dangling(NodeOf(r)) THEN {"aliased"} ELSE {}) :
                connection' = [connection EXCEPT ![r] =
                    [status |-> status, local |-> p, node |-> to[1], remote |-> to[2]]]
    BY DEF CreateConnection
  <1>2. ~ Dangling(NodeOf(r))
    BY DEF RequestsOnce, Dangling
  <1>3. connection' = [connection EXCEPT ![r] =
            [status |-> "opening", local |-> p, node |-> to[1], remote |-> to[2]]]
    BY <1>1, <1>2
  <1>4. /\ connection'[r].status = "opening"
        /\ \A q \in Requests : q # r => connection'[q] = connection[q]
    BY <1>3 DEF NetInv, ClientsRight, IsFun
  <1>5. \A q \in Requests : Opened(q)' <=> Opened(q) \/ q = r
    BY <1>4 DEF Opened
  <1>6. TakesStay
    BY <1>4 DEF TakesStay, Opened
  <1>7. \A q \in Requests : /\ connection'[q].status \in {"none", "opening", "open"}
                            /\ Opened(q)' => Owner(q)' \in apps'
    BY <1>4, <1>5 DEF RequestsOnce, Owner
  <1>8. \A c \in Clients : Opened(c)' => phase'[c] # "idle"
    BY <1>5 DEF RequestsOnce, StayBegun, Requests
  <1>9. \A q \in StorageConnections : q \in Requests /\ q \notin Clients /\ Origin(q)' = Origin(q)
                                      /\ Origin(q) \in Machines /\ q[2] \in Nodes
    BY Constants DEF Requests, Origin, Owner
  <1>10. \A q \in StorageConnections : Opened(q)' => ExistsConnection(Origin(q), q[2])'
    BY <1>5, <1>9 DEF RequestsOnce, ExistsStay
  <1>11. \A q, o \in StorageConnections :
            Opened(q)' /\ Opened(o)' /\ RequestUser(q) = RequestUser(o) => q = o
    BY <1>5, <1>9 DEF RequestsOnce
  <1>12. RequestsOnce'
    BY <1>7, <1>8, <1>9, <1>10, <1>11 DEF RequestsOnce, RequestUser, ExistsConnection
  <1>13. QED
    BY <1>6, <1>12

\* A connection is established.
LEMMA RequestEstablished ==
    ASSUME NetInv, PatShapes, PortsRight, RequestsOnce, NEW r \in Requests, Established(r),
           UNCHANGED <<apps, lrep>>, StayBegun, ExistsStay
    PROVE  /\ RequestsOnce' /\ PortsRight' /\ PatShapes'
           /\ PortsStay /\ HasPorts(NodeOf(r), Origin(r))'
  <1>1. PICK local : local = connection[r].local
    OBVIOUS
  <1>2. PICK n \in Nodes : n = NodeOf(r)
    BY Constants
  <1>3. /\ connection[r].status = "opening" /\ connection' = [connection EXCEPT ![r].status = "open"]
        /\ ConnectionStablished(r, local, r) /\ UNCHANGED <<attached, portPtr, portHoles, listening>>
    BY <1>1 DEF Established
  <1>4. /\ connection'[r].status = "open" /\ connection'[r].local = local
        /\ \A q \in Requests : q # r => connection'[q] = connection[q]
    <2>1. IsFun(connection, Requests) /\ IsConnection(connection[r])
      BY DEF NetInv, ClientsRight
    <2>2. /\ connection'[r] = [connection[r] EXCEPT !.status = "open"]
          /\ \A q \in Requests : q # r => connection'[q] = connection[q]
      BY <1>3, <2>1 DEF IsFun
    <2>3. QED
      BY <1>1, <2>1, <2>2 DEF IsConnection
  <1>5. \A q \in Requests : Opened(q)' <=> Opened(q)
    BY <1>3, <1>4 DEF Opened
  <1>6. TakesStay
    BY <1>3, <1>4 DEF TakesStay
  <1>7. RequestsOnce'
    <2>1. \A q \in Requests : /\ connection'[q].status \in {"none", "opening", "open"}
                              /\ Opened(q)' => Owner(q)' \in apps'
      BY <1>4, <1>5 DEF RequestsOnce, Owner
    <2>2. \A c \in Clients : Opened(c)' => phase'[c] # "idle"
      BY <1>5 DEF RequestsOnce, StayBegun, Requests
    <2>3. \A q \in StorageConnections : q \in Requests /\ q \notin Clients /\ Origin(q)' = Origin(q)
                                        /\ Origin(q) \in Machines /\ q[2] \in Nodes
      BY Constants DEF Requests, Origin, Owner
    <2>4. \A q \in StorageConnections : Opened(q)' => ExistsConnection(Origin(q), q[2])'
      BY <1>5, <2>3 DEF RequestsOnce, ExistsStay
    <2>5. \A q, o \in StorageConnections :
              Opened(q)' /\ Opened(o)' /\ RequestUser(q) = RequestUser(o) => q = o
      BY <1>5, <2>3 DEF RequestsOnce
    <2>6. QED
      BY <2>1, <2>2, <2>3, <2>4, <2>5 DEF RequestsOnce, RequestUser, ExistsConnection
  <1>8. RequestUser(r) \in PortUsers(apps, n)
    <2>1. Owner(r) \in apps
      BY <1>3 DEF RequestsOnce, Opened
    <2>2. CASE r \in Clients
      <3>1. r \in apps \ Jobs /\ HostOf[MachineOf[r]] = n /\ RequestUser(r) = <<r>>
        BY <1>2, <2>1, <2>2, Constants DEF Owner, NodeOf, Origin, RequestUser
      <3>2. QED
        BY <3>1 DEF PortUsers
    <2>3. CASE r \notin Clients
      <3>1. r \in StorageConnections /\ RequestUser(r) = <<MachineOf[r[1]], r[2]>>
        BY <2>3 DEF Requests, RequestUser
      <3>2. r[1] \in apps /\ HostOf[MachineOf[r[1]]] = n
        BY <1>2, <2>1, <2>3, <3>1, Constants DEF Owner, NodeOf
      <3>3. QED
        BY <3>1, <3>2 DEF PortUsers
    <2>4. QED
      BY <2>2, <2>3
  <1>9. Takes(RequestUser(r), n, local)'
    <2>1. NodeOf(r)' = n /\ RequestUser(r)' = RequestUser(r)
      BY <1>2 DEF NodeOf, Origin, Owner, RequestUser
    <2>2. PICK u : u = RequestUser(r)
      OBVIOUS
    <2>3. Takes(u, n, local)'
      BY <1>4, <2>1, <2>2 DEF Takes
    <2>4. RequestUser(r)' = u
      BY <2>1, <2>2
    <2>5. QED
      BY <2>3, <2>4
  <1>10. \E u \in PortUsers(apps, NodeOf(r)) : Takes(u, NodeOf(r), local)'
    BY <1>2, <1>8, <1>9 DEF RequestUser, NodeOf, Origin, Owner
  <1>11. QED
    BY <1>3, <1>6, <1>7, <1>10, PortsStablished DEF NetInv
-------------------------------------------------------------------------------
(* The steps of the network.                                               *)

\* A step of which only the network's part matters, and no port or connection is changed.
LEMMA OpenNetKept ==
    ASSUME OpenRight, UNCHANGED <<apps, pat, listening, connection>>, UNCHANGED <<storage, io>>,
           fault' \in {"none", "deleted twice"}, PendingRight',
           StayBegun, \A a \in Servers : phase'[a] # "idle" => phase[a] # "idle",
           \A c \in Clients : phase'[c] \in Linked => phase[c] \in Linked,
           \A j \in Jobs : phase'[j] = phase[j]
    PROVE  OpenRight'
  <1>1. UNCHANGED <<lrep, asking, cell, queue, latency, sent>>
    BY DEF storage, io
  <1>2. AsksRight' /\ CellShapes' /\ ActivesStay /\ ExistsStay
    BY <1>1 DEF OpenRight, AsksRight, CellShapes, ActivesStay, ExistsStay, ExistsConnection
  <1>3. SubsActive'
    BY <1>1, <1>2, SubsKept DEF OpenRight
  <1>4. QED
    BY <1>1, <1>2, <1>3, OpenKept

LEMMA OpenPhase ==
    ASSUME NetInv, OpenRight, NEW a \in Servers \cup Clients, NEW p \in Phases \ {"idle"},
           phase' = [phase EXCEPT ![a] = p], phase[a] # "idle", p \in Linked => phase[a] \in Linked \/ a \in Servers,
           UNCHANGED <<apps, pat, listening, connection, waiting>>, UNCHANGED <<storage, io>>,
           fault' \in {"none", "deleted twice"}
    PROVE  OpenRight'
  <1>1. \A b \in Servers \cup Clients \cup Jobs : phase'[b] = IF b = a THEN p ELSE phase[b]
    BY PhaseSet DEF NetInv
  <1>2. PendingRight'
    BY DEF OpenRight, PendingRight, waiting
  <1>3. a \notin Jobs /\ \A c \in Clients : c \notin Servers
    BY Constants
  <1>4. StayBegun /\ \A j \in Jobs : phase'[j] = phase[j]
    BY <1>1, <1>3 DEF StayBegun
  <1>5. /\ \A b \in Servers : phase'[b] # "idle" => phase[b] # "idle"
        /\ \A c \in Clients : phase'[c] \in Linked => phase[c] \in Linked
    BY <1>1, <1>3
  <1>6. QED
    BY <1>2, <1>4, <1>5, OpenNetKept

LEMMA OpenListen ==
    ASSUME PortsSuffice, NetInv, OpenRight, NEW a \in Servers, Listen(a), UNCHANGED <<storage, io>>
    PROVE  OpenRight'
  <1>1. PICK m \in Machines, n \in Nodes : m = MachineOf[a] /\ n = HostOf[m]
    BY Constants
  <1>2. /\ a \in apps /\ phase[a] = "idle" /\ phase' = [phase EXCEPT ![a] = "listening"]
        /\ Listens({n}, m, PortOf[a], a) /\ UNCHANGED <<apps, waiting>>
    BY <1>1 DEF Listen
  <1>3. \A b \in Servers \cup Clients \cup Jobs : phase'[b] = IF b = a THEN "listening" ELSE phase[b]
    BY <1>2, PhaseSet DEF NetInv, Phases
  <1>4. UNCHANGED <<lrep, asking, cell, queue, latency, sent>>
    BY DEF storage, io
  <1>5. a \notin Jobs /\ a \notin Clients
    BY Constants
  <1>6. StayBegun
    BY <1>2, <1>3 DEF StayBegun
  <1>7. ListenerUser(n, a) = <<a>> /\ <<a>> \in PortUsers(apps, n)
    BY <1>1, <1>2, <1>5 DEF ListenerUser, PortUsers
  <1>8. ASSUME NEW p, Takes(<<a>>, n, p)
        PROVE  FALSE
    <2>1. CASE \E l \in Range(listening[n]) : l.port = p /\ ListenerUser(n, l.app) = <<a>>
      <3>1. PICK l \in Range(listening[n]) : ListenerUser(n, l.app) = <<a>>
        BY <2>1
      <3>2. l.app \in Jobs \/ (l.app \in Servers /\ phase[l.app] # "idle")
        BY DEF OpenRight, PortsRight, ListenersOnce
      <3>3. CASE l.app \in Servers
        <4>1. <<l.app>> = <<a>>
          BY <3>1, <3>3 DEF ListenerUser
        <4>2. l.app = a
          BY <4>1
        <4>3. l.app \notin Jobs
          BY <3>3, Constants
        <4>4. QED
          BY <1>2, <3>2, <4>2, <4>3
      <3>4. CASE l.app \notin Servers
        <4>1. <<MachineOf[l.app], n>> = <<a>>
          BY <3>1, <3>4 DEF ListenerUser
        <4>2. QED
          BY <4>1
      <3>5. QED
        BY <3>3, <3>4
    <2>2. CASE \E r \in Requests : RequestUser(r) = <<a>>
      <3>1. PICK r \in Requests : RequestUser(r) = <<a>>
        BY <2>2
      <3>2. CASE r \in Clients
        <4>1. <<r>> = <<a>>
          BY <3>1, <3>2 DEF RequestUser
        <4>2. QED
          BY <1>5, <3>2, <4>1
      <3>3. CASE r \notin Clients
        <4>1. <<MachineOf[r[1]], r[2]>> = <<a>>
          BY <3>1, <3>3 DEF RequestUser
        <4>2. QED
          BY <4>1
      <3>4. QED
        BY <3>2, <3>3
    <2>3. QED
      BY <1>8, <2>1, <2>2 DEF Takes
  <1>9. /\ UNCHANGED <<fault, attached, connection>>
        /\ PortsRight' /\ PortsStay /\ HasPorts(n, m)'
        /\ IsFun(portPtr', Nodes) /\ IsFun(portHoles', Nodes) /\ IsFun(freePorts', Nodes)
    <2>1. /\ Tables /\ PatShapes /\ PortsRight /\ RequestsOnce /\ apps \in Workloads
      BY DEF NetInv, OpenRight
    <2>2. {n} \in SUBSET Nodes /\ a \in Servers \cup Jobs /\ phase'[a] # "idle"
      BY <1>3
    <2>3. \A k \in {n} : /\ ListenerUser(k, a) \in PortUsers(apps, k)
                         /\ \A p : ~ Takes(ListenerUser(k, a), k, p)
      BY <1>7, <1>8
    <2>4. \A k \in Nodes : lrep[k] \subseteq lrep'[k]
      BY <1>4
    <2>5. UNCHANGED apps /\ MachineOf[a] = m
      BY <1>1, <1>2
    <2>6. /\ UNCHANGED <<fault, attached, connection>>
          /\ PortsRight' /\ PortsStay /\ \A k \in {n} : HasPorts(k, m)'
          /\ IsFun(portPtr', Nodes) /\ IsFun(portHoles', Nodes) /\ IsFun(freePorts', Nodes)
      BY <1>2, <1>6, <2>1, <2>2, <2>3, <2>4, <2>5, PortsListen
    <2>7. QED
      BY <2>6
  <1>10. PatShapes' /\ CellShapes' /\ PendingRight' /\ AsksRight' /\ ActivesStay /\ ExistsStay
    BY <1>2, <1>4, <1>9 DEF OpenRight, PatShapes, CellShapes, PendingRight, waiting, AsksRight,
       ActivesStay, ExistsStay, ExistsConnection
  <1>11. SubsActive' /\ RequestsOnce'
    BY <1>2, <1>4, <1>6, <1>9, <1>10, SubsKept, RequestsKept DEF OpenRight
  <1>12. HostsRight'
    <2>1. \A b \in Servers : phase'[b] # "idle" =>
              phase[b] # "idle" \/ HasPorts(HostOf[MachineOf[b]], MachineOf[b])'
      BY <1>1, <1>3, <1>9
    <2>2. \A c \in Clients : phase'[c] = phase[c]
      BY <1>3, <1>5
    <2>3. \A j \in Jobs : phase'[j] = phase[j]
      BY <1>3, <1>5
    <2>4. HostsRight /\ lrep \in [Nodes -> SUBSET Machines]
      BY DEF OpenRight, PatShapes
    <2>5. QED
      BY <1>4, <1>9, <1>10, <2>1, <2>2, <2>3, <2>4, HostsKept
  <1>13. QED
    BY <1>2, <1>9, <1>10, <1>11, <1>12 DEF OpenRight

LEMMA OpenAskConnection ==
    ASSUME NetInv, OpenRight, NEW c \in Clients, AskConnection(c), UNCHANGED <<storage, io>>
    PROVE  OpenRight'
  <1>1. /\ c \in apps /\ phase[c] = "idle" /\ phase' = [phase EXCEPT ![c] = "asking"] /\ UNCHANGED apps
        /\ \/ UNCHANGED <<network, fault>>
           \/ /\ Destination(c) # NULL /\ CreateConnection(c, Destination(c))
              /\ UNCHANGED <<attached, pat, virtualPorts, listening, delivered, waiting, fault>>
    BY DEF AskConnection
  <1>2. \A b \in Servers \cup Clients \cup Jobs : phase'[b] = IF b = c THEN "asking" ELSE phase[b]
    BY <1>1, PhaseSet DEF NetInv, Phases
  <1>3. UNCHANGED <<lrep, asking, cell, queue, latency, sent>>
    BY DEF storage, io
  <1>4. c \notin Jobs /\ c \notin Servers /\ c \in Requests
    BY Constants DEF Requests
  <1>5. PendingRight'
    BY PendingAsk DEF OpenRight
  <1>6. StayBegun /\ \A a \in Servers \cup Jobs : phase'[a] = phase[a]
    BY <1>1, <1>2, <1>4 DEF StayBegun
  <1>7. \A d \in Clients : phase'[d] \in Linked => phase[d] \in Linked
    BY <1>2 DEF Linked
  <1>8. CASE UNCHANGED <<network, fault>>
    BY <1>1, <1>5, <1>6, <1>7, <1>8, OpenNetKept DEF network, OpenRight
  <1>9. CASE /\ CreateConnection(c, Destination(c))
             /\ UNCHANGED <<attached, pat, virtualPorts, listening, delivered, waiting, fault>>
    <2>1. ~ Opened(c) /\ Owner(c) = c
      BY <1>1 DEF OpenRight, RequestsOnce, Owner
    <2>2. PatShapes' /\ CellShapes' /\ AsksRight' /\ ActivesStay /\ ExistsStay /\ PortsStay
      BY <1>1, <1>3, <1>9 DEF OpenRight, PatShapes, CellShapes, AsksRight,
         ActivesStay, ExistsStay, ExistsConnection, PortsStay, HasPorts, pat, IsFun
    <2>3. RequestsOnce' /\ TakesStay
      <3>1. phase'[c] # "idle" /\ UNCHANGED <<apps, listening>>
        BY <1>1, <1>2, <1>9
      <3>2. QED
        BY <1>1, <1>4, <1>6, <1>9, <2>1, <2>2, <3>1, RequestOpened DEF OpenRight
    <2>4. PortsRight'
      BY <1>1, <1>3, <1>6, <1>9, <2>3, PortsKept DEF OpenRight, pat
    <2>5. SubsActive'
      BY <1>3, <2>2, SubsKept DEF OpenRight
    <2>6. HostsRight'
      <3>1. HostsRight /\ lrep \in [Nodes -> SUBSET Machines]
        BY DEF OpenRight, PatShapes
      <3>2. QED
        BY <1>3, <1>6, <1>7, <2>2, <3>1, HostsKept
    <2>7. QED
      BY <1>1, <1>5, <1>9, <2>2, <2>3, <2>4, <2>5, <2>6 DEF OpenRight
  <1>10. QED
    BY <1>1, <1>8, <1>9

LEMMA OpenClientEstablished ==
    ASSUME NetInv, OpenRight, NEW c \in Clients, ClientEstablished(c), UNCHANGED <<storage, io>>
    PROVE  OpenRight'
  <1>1. /\ Established(c) /\ phase' = [phase EXCEPT ![c] = "connected"] /\ UNCHANGED <<apps, waiting, fault>>
    BY DEF ClientEstablished, Established
  <1>2. \A b \in Servers \cup Clients \cup Jobs : phase'[b] = IF b = c THEN "connected" ELSE phase[b]
    BY <1>1, PhaseSet DEF NetInv, Phases
  <1>3. UNCHANGED <<lrep, asking, cell, queue, latency, sent>>
    BY DEF storage, io
  <1>4. c \notin Jobs /\ c \notin Servers /\ c \in Requests
    BY Constants DEF Requests
  <1>5. StayBegun /\ \A a \in Servers \cup Jobs : phase'[a] = phase[a]
    BY <1>2, <1>4 DEF StayBegun
  <1>6. CellShapes' /\ AsksRight' /\ ActivesStay /\ ExistsStay /\ PendingRight'
    BY <1>1, <1>3 DEF OpenRight, CellShapes, AsksRight, ActivesStay, ExistsStay, ExistsConnection,
       PendingRight, waiting
  <1>7. /\ RequestsOnce' /\ PortsRight' /\ PatShapes' /\ PortsStay /\ HasPorts(NodeOf(c), Origin(c))'
    BY <1>1, <1>3, <1>4, <1>5, <1>6, RequestEstablished DEF OpenRight
  <1>8. SubsActive'
    BY <1>3, <1>6, SubsKept DEF OpenRight
  <1>9. HostsRight'
    <2>1. HostsRight /\ lrep \in [Nodes -> SUBSET Machines]
      BY DEF OpenRight, PatShapes
    <2>2. HasPorts(HostOf[MachineOf[c]], MachineOf[c])'
      BY <1>7 DEF NodeOf, Origin, Owner
    <2>3. \A d \in Clients : phase'[d] \in Linked =>
              phase[d] \in Linked \/ HasPorts(HostOf[MachineOf[d]], MachineOf[d])'
      BY <1>2, <2>2
    <2>4. QED
      BY <1>3, <1>5, <1>6, <1>7, <2>1, <2>3, HostsKept
  <1>10. QED
    BY <1>1, <1>6, <1>7, <1>8, <1>9 DEF OpenRight

LEMMA OpenDeliver ==
    ASSUME NetInv, OpenRight, attached = Machines, NEW c \in Clients, Deliver(c), UNCHANGED <<storage, io>>
    PROVE  OpenRight'
  <1> DEFINE n == connection[c].node
             gates == {m \in Addressed(UserOf[MachineOf[c]], AddressOf[c]) : HostOf[m] = n}
  <1>1. /\ phase[c] = "sent" /\ UNCHANGED <<apps, attached, pat, virtualPorts, listening, connection, waiting>>
        /\ gates # {} => phase' = [phase EXCEPT ![c] = "delivered"] /\ UNCHANGED fault
    BY DEF Deliver
  <1>2. Bound(c)
    BY <1>1 DEF NetInv, ClientsRight
  <1>3. gates # {}
    <2>1. PICK m \in Machines : HostOf[m] = n /\ Asked(c, m)
      BY <1>2 DEF Bound
    <2>2. Origin(c) = MachineOf[c]
      BY DEF Origin, Owner
    <2>3. m \in gates
      BY <2>1, <2>2 DEF Addressed, Asked
    <2>4. QED
      BY <2>3
  <1>4. phase' = [phase EXCEPT ![c] = "delivered"] /\ UNCHANGED fault
    BY <1>1, <1>3
  <1>5. "delivered" \in Phases \ {"idle"} /\ phase[c] # "idle" /\ phase[c] \in Linked
    BY <1>1 DEF Phases, Linked
  <1>6. fault' \in {"none", "deleted twice"}
    BY <1>4 DEF OpenRight
  <1> HIDE DEF gates
  <1>7. QED
    BY <1>1, <1>4, <1>5, <1>6, OpenPhase

LEMMA OpenCheckPending ==
    ASSUME NetInv, OpenRight, NEW n \in Nodes, CheckPendingMessages(n), UNCHANGED <<storage, io>>
    PROVE  OpenRight'
  <1>1. UNCHANGED <<apps, network, fault>>
    BY DEF CheckPendingMessages
  <1>2. PICK S \in SUBSET Clients : phase' = [a \in DOMAIN phase |-> IF a \in S THEN "port not open" ELSE phase[a]]
    BY PendingCheck DEF OpenRight
  <1>3. PendingRight'
    BY PendingCheck DEF OpenRight
  <1>4. DOMAIN phase = Servers \cup Clients \cup Jobs
    BY DEF NetInv, ClientsRight
  <1>5. \A c \in Clients : c \notin Servers /\ c \notin Jobs
    BY Constants
  <1>6. StayBegun /\ \A a \in Servers \cup Jobs : phase'[a] = phase[a]
    BY <1>2, <1>4, <1>5 DEF StayBegun
  <1>7. \A c \in Clients : phase'[c] \in Linked => phase[c] \in Linked
    BY <1>2, <1>4 DEF Linked
  <1>8. QED
    BY <1>1, <1>3, <1>6, <1>7, OpenNetKept DEF OpenRight, network

LEMMA OpenNetwork ==
    ASSUME PortsSuffice, NetInv, OpenRight, attached = Machines, NetworkNext, UNCHANGED <<storage, io>>
    PROVE  OpenRight'
  <1>0. fault \in {"none", "deleted twice"}
    BY DEF OpenRight
  <1>1. ASSUME NEW a \in Servers, ServerEnds(a) PROVE OpenRight'
    <2>1. /\ phase[a] # "idle" /\ phase' = [phase EXCEPT ![a] = "done"]
          /\ UNCHANGED <<apps, pat, listening, connection, waiting>> /\ UNCHANGED fault
      BY <1>1 DEF ServerEnds, network
    <2>2. "done" \in Phases \ {"idle"}
      BY DEF Phases
    <2>3. QED
      BY <1>0, <2>1, <2>2, OpenPhase
  <1>2. ASSUME NEW c \in Clients, Send(c) \/ Answer(c) PROVE OpenRight'
    <2>1. /\ phase[c] \in {"connected", "delivered"}
          /\ phase' = [phase EXCEPT ![c] = "sent"] \/ phase' = [phase EXCEPT ![c] = "done"]
          /\ UNCHANGED <<apps, pat, listening, connection, waiting>> /\ UNCHANGED fault
      BY <1>2 DEF Send, Answer, network
    <2>2. {"sent", "done"} \subseteq Phases \ {"idle"} /\ phase[c] # "idle" /\ phase[c] \in Linked
      BY <2>1 DEF Phases, Linked
    <2>3. QED
      BY <1>0, <2>1, <2>2, OpenPhase
  <1>3. ASSUME NEW r \in Requests, AliasEstablished(r) PROVE FALSE
    BY <1>3 DEF AliasEstablished, OpenRight, RequestsOnce
  <1>4. QED
    BY <1>1, <1>2, <1>3, OpenListen, OpenAskConnection, OpenClientEstablished, OpenDeliver, OpenCheckPending
       DEF NetworkNext

-------------------------------------------------------------------------------
(* The steps of remote storage.                                            *)

LEMMA OpenConnect ==
    ASSUME PortsSuffice, NetInv, OpenRight, NEW j \in Jobs, ConnectToStorage(j)
    PROVE  OpenRight'
  <1>1. PICK m \in Machines : m = MachineOf[j]
    BY Constants
  <1>2. PICK new : new = {n \in Range(TargetsOf[j]) : m \notin lrep[n]}
    OBVIOUS
  <1>3. /\ j \in apps /\ phase[j] = "idle" /\ phase' = [phase EXCEPT ![j] = "connecting"]
        /\ Listens(new, m, StoragePort, j)
        /\ lrep' = [n \in Nodes |-> IF n \in new THEN lrep[n] \cup {m} ELSE lrep[n]]
        /\ asking' = [asking EXCEPT ![m] = @ \o [i \in DOMAIN TargetsOf[j] |-> <<j, TargetsOf[j][i]>>]]
        /\ UNCHANGED <<apps, cell, queue, latency, sent>> /\ UNCHANGED waiting
    BY <1>1, <1>2 DEF ConnectToStorage, io
  <1>4. \A b \in Servers \cup Clients \cup Jobs : phase'[b] = IF b = j THEN "connecting" ELSE phase[b]
    BY <1>3, PhaseSet DEF NetInv, Phases
  <1>5. j \notin Servers /\ j \notin Clients
    BY Constants
  <1>6. StayBegun
    BY <1>3, <1>4 DEF StayBegun
  <1>7. new \in SUBSET Nodes /\ \A n \in new : n \in Range(TargetsOf[j]) /\ m \notin lrep[n]
    BY <1>2, Constants DEF Range
  <1>8. ASSUME NEW n \in new
        PROVE  ListenerUser(n, j) = <<m, n>> /\ <<m, n>> \in PortUsers(apps, n)
    <2>1. PICK r : r = <<j, n>>
      OBVIOUS
    <2>2. r \in StorageConnections
      <3>1. PICK i \in DOMAIN TargetsOf[j] : TargetsOf[j][i] = n
        BY <1>7 DEF Range
      <3>2. <<j, TargetsOf[j][i]>> \in StorageConnections
        BY Constants
      <3>3. QED
        BY <2>1, <3>1, <3>2
    <2>3. r[1] = j /\ r[2] = n
      BY <2>1
    <2>4. <<MachineOf[r[1]], r[2]>> \in PortUsers(apps, n)
      BY <1>3, <2>2, <2>3 DEF PortUsers
    <2>5. QED
      BY <1>1, <1>5, <2>3, <2>4 DEF ListenerUser
  <1>9. ASSUME NEW n \in new, NEW p, Takes(<<m, n>>, n, p)
        PROVE  FALSE
    <2>1. ASSUME NEW l \in Range(listening[n]), ListenerUser(n, l.app) = <<m, n>>
          PROVE  FALSE
      <3>1. \/ l.app \in Servers
            \/ l.app \in Jobs /\ l.app \notin Servers /\ MachineOf[l.app] \in lrep[n]
        BY <1>7, <2>1, Constants DEF OpenRight, PortsRight, ListenersOnce
      <3>2. CASE l.app \in Servers
        <4>1. <<l.app>> = <<m, n>>
          BY <2>1, <3>2 DEF ListenerUser
        <4>2. QED
          BY <4>1
      <3>3. CASE l.app \notin Servers
        <4>1. <<MachineOf[l.app], n>> = <<m, n>>
          BY <2>1, <3>3 DEF ListenerUser
        <4>2. QED
          BY <1>7, <3>1, <3>3, <4>1
      <3>4. QED
        BY <3>2, <3>3
    <2>2. ASSUME NEW r \in Requests, NodeOf(r) = n, RequestUser(r) = <<m, n>>
          PROVE  FALSE
      <3>1. CASE r \in Clients
        <4>1. <<r>> = <<m, n>>
          BY <2>2, <3>1 DEF RequestUser
        <4>2. QED
          BY <4>1
      <3>2. CASE r \notin Clients
        <4>1. r \in StorageConnections /\ <<MachineOf[r[1]], r[2]>> = <<m, n>>
          BY <2>2, <3>2 DEF RequestUser, Requests
        <4>2. HostOf[m] = n
          BY <2>2, <4>1, Constants DEF NodeOf
        <4>3. QED
          BY <1>1, <1>7, <4>2, Constants
      <3>3. QED
        BY <3>1, <3>2
    <2>3. QED
      BY <1>9, <2>1, <2>2 DEF Takes
  <1>10. /\ \A n \in Nodes : lrep[n] \subseteq lrep'[n]
         /\ \A n \in new : m \in lrep'[n] /\ n \in Range(TargetsOf[j])
         /\ lrep' \in [Nodes -> SUBSET Machines]
         /\ \A n \in Nodes : \A o \in lrep'[n] : o \in lrep[n] \/ (o = m /\ n \in new)
    <2>1. lrep \in [Nodes -> SUBSET Machines]
      BY DEF OpenRight, PatShapes
    <2>2. \A n \in Nodes : lrep'[n] = IF n \in new THEN lrep[n] \cup {m} ELSE lrep[n]
      BY <1>3
    <2>3. lrep' \in [Nodes -> SUBSET Machines]
      BY <1>3, <2>1
    <2>4. QED
      BY <1>7, <2>2, <2>3
  <1>11. /\ UNCHANGED <<fault, attached, connection>>
         /\ PortsRight' /\ PortsStay /\ \A n \in new : HasPorts(n, m)'
         /\ IsFun(portPtr', Nodes) /\ IsFun(portHoles', Nodes) /\ IsFun(freePorts', Nodes)
    <2>1. /\ Tables /\ PatShapes /\ PortsRight /\ RequestsOnce /\ apps \in Workloads
      BY DEF NetInv, OpenRight
    <2>2. j \in Servers \cup Jobs /\ MachineOf[j] = m /\ UNCHANGED apps
      BY <1>1, <1>3
    <2>3. \A n \in new : /\ ListenerUser(n, j) \in PortUsers(apps, n)
                         /\ \A p : ~ Takes(ListenerUser(n, j), n, p)
      <3>1. TAKE n \in new
      <3>2. PICK u : u = <<m, n>>
        OBVIOUS
      <3>3. ListenerUser(n, j) = u /\ u \in PortUsers(apps, n)
        BY <1>8, <3>2
      <3>4. \A p : ~ Takes(u, n, p)
        BY <1>9, <3>2
      <3>5. QED
        BY <3>3, <3>4
    <2>4. QED
      BY <1>3, <1>6, <1>7, <1>10, <2>1, <2>2, <2>3, PortsListen
  <1>12. PatShapes' /\ CellShapes' /\ PendingRight' /\ ActivesStay /\ ExistsStay
    BY <1>3, <1>10, <1>11 DEF OpenRight, PatShapes, CellShapes, PendingRight, waiting,
       ActivesStay, ExistsStay, ExistsConnection
  <1>13. AsksRight'
    <2>1. \A o \in Machines : \A i \in DOMAIN asking'[o] :
             (i \in DOMAIN asking[o] /\ asking'[o][i] = asking[o][i]) \/ asking'[o][i][1] = j
      BY <1>1, <1>3, AsksAdded DEF NetInv
    <2>2. ASSUME NEW o \in Machines, NEW i \in DOMAIN asking'[o]
          PROVE  asking'[o][i][1] \in apps
      <3>1. CASE i \in DOMAIN asking[o] /\ asking'[o][i] = asking[o][i]
        <4>1. asking[o][i][1] \in apps
          BY <3>1 DEF OpenRight, AsksRight
        <4>2. QED
          BY <3>1, <4>1
      <3>2. QED
        BY <1>3, <2>1, <2>2, <3>1
    <2>3. QED
      BY <1>3, <2>2 DEF AsksRight
  <1>14. SubsActive' /\ RequestsOnce'
    BY <1>3, <1>6, <1>11, <1>12, SubsKept, RequestsKept DEF OpenRight
  <1>15. HostsRight'
    <2>1. HostsRight /\ lrep \in [Nodes -> SUBSET Machines]
      BY DEF OpenRight, PatShapes
    <2>2. \A n \in Nodes : \A o \in lrep'[n] : o \in lrep[n] \/ (o \in Machines /\ HasPorts(n, o)')
      BY <1>10, <1>11
    <2>3. /\ \A b \in Servers : phase'[b] = phase[b]
          /\ \A c \in Clients : phase'[c] = phase[c]
      BY <1>4, <1>5
    <2>4. \A k \in Jobs : phase'[k] = "done" => phase[k] = "done"
      BY <1>4
    <2>5. QED
      BY <1>3, <1>11, <1>12, <2>1, <2>2, <2>3, <2>4, HostsKept
  <1>16. QED
    BY <1>3, <1>11, <1>12, <1>13, <1>14, <1>15 DEF OpenRight

\* Only jobs that wait are told, and they are not done.
LEMMA OpenNotify ==
    ASSUME NetInv, NEW m \in Machines, NEW times \in Nat,
           Notify(m, times) \/ UNCHANGED <<phase, connecting>>
    PROVE  /\ StayBegun
           /\ \A a \in Servers \cup Clients : phase'[a] = phase[a]
           /\ \A j \in Jobs : phase'[j] = "done" => phase[j] = "done"
  <1>1. CASE UNCHANGED <<phase, connecting>>
    BY <1>1 DEF StayBegun
  <1>2. CASE Notify(m, times)
    <2>1. /\ connecting \in [Machines -> Seq(Jobs)]
          /\ phase \in [Servers \cup Clients \cup Jobs -> Phases]
      BY DEF NetInv, AskingRight, ClientsRight
    <2> DEFINE told == {a \in DOMAIN phase : \E i \in DOMAIN connecting[m] : i <= times /\ connecting[m][i] = a}
    <2>2. phase' = [a \in DOMAIN phase |-> IF a \in told THEN "connected" ELSE phase[a]]
      BY <1>2 DEF Notify
    <2>3. told \subseteq Jobs
      BY <2>1
    <2> HIDE DEF told
    <2>4. \A a \in Servers \cup Clients \cup Jobs : phase'[a] = IF a \in told THEN "connected" ELSE phase[a]
      BY <2>1, <2>2
    <2>5. \A a \in Servers \cup Clients : a \notin told
      BY <2>3, Constants
    <2>6. QED
      BY <2>4, <2>5 DEF StayBegun
  <1>3. QED
    BY <1>1, <1>2

LEMMA OpenSetRemote ==
    ASSUME NetInv, OpenRight, NEW m \in Machines, SetRemoteData(m)
    PROVE  OpenRight'
  <1>1. PICK r, n : r = Head(asking[m]) /\ n = r[2]
    OBVIOUS
  <1>2. /\ asking[m] # <<>> /\ asking' = [asking EXCEPT ![m] = Tail(@)]
        /\ FirstConnection(r, n) \/ NfsReplica(r, n) \/ PfsReplica(r, n)
        /\ UNCHANGED <<apps, fault, lrep, queue, latency, sent>> /\ UNCHANGED waiting
    BY <1>1 DEF SetRemoteData, io
  <1>3. /\ r \in StorageConnections /\ Origin(r) = m
        /\ \A o \in Machines : \A i \in DOMAIN asking'[o] :
              \E k \in DOMAIN asking[o] : asking'[o][i] = asking[o][k]
        /\ 1 \in DOMAIN asking[m] /\ r = asking[m][1]
    BY <1>1, <1>2, AskingTail DEF NetInv
  <1>4. /\ r \in Requests /\ r \notin Clients /\ n \in Nodes
        /\ Owner(r) = r[1] /\ MachineOf[r[1]] = m /\ NodeOf(r) = HostOf[m]
    BY <1>1, <1>3, Constants DEF Requests, Owner, NodeOf
  <1>5. r[1] \in apps
    BY <1>3 DEF OpenRight, AsksRight
  <1>6. AsksRight'
    <2>1. ASSUME NEW o \in Machines, NEW i \in DOMAIN asking'[o]
          PROVE  asking'[o][i][1] \in apps
      <3>1. PICK k \in DOMAIN asking[o] : asking'[o][i] = asking[o][k]
        BY <1>3
      <3>2. asking[o][k][1] \in apps
        BY DEF OpenRight, AsksRight
      <3>3. QED
        BY <3>1, <3>2
    <2>2. QED
      BY <1>2, <2>1 DEF AsksRight
  <1>7. /\ StayBegun
        /\ \A a \in Servers \cup Clients : phase'[a] = phase[a]
        /\ \A j \in Jobs : phase'[j] = "done" => phase[j] = "done"
    <2>1. Notify(m, 1) \/ UNCHANGED <<phase, connecting>>
      BY <1>2, <1>3 DEF FirstConnection, NfsReplica, PfsReplica
    <2>2. QED
      BY <2>1, OpenNotify
  <1>8. PendingRight'
    BY <1>2 DEF OpenRight, PendingRight, waiting
  <1>9. CASE FirstConnection(r, n)
    <2>1. PICK fs, to : fs = FsOf[r[1]] /\ to = <<n, RealPort(n, StoragePort, m)>>
      OBVIOUS
    <2>2. /\ \/ cell[m] = NoCell /\ cell' = [cell EXCEPT ![m] = NewCell(fs, n)]
             \/ /\ ~ExistsConnection(m, n)
                /\ cell' = [cell EXCEPT ![m].connections = Append(@, [node |-> n, id |-> NULL])]
          /\ CreateConnection(r, to)
          /\ UNCHANGED pat /\ UNCHANGED <<attached, listening>>
      BY <1>3, <1>9, <2>1 DEF FirstConnection
    <2>3. PICK new : new = [node |-> n, id |-> NULL]
      OBVIOUS
    <2>4. /\ IsFun(cell', Machines) /\ IsCell(cell'[m])
          /\ \A o \in Machines : o # m => cell'[o] = cell[o]
          /\ cell'[m].active = cell[m].active /\ cell'[m].servers = cell[m].servers
          /\ cell'[m].connections = Append(cell[m].connections, new)
          /\ \A x \in Range(cell[m].connections) : x.node # n
      <3>1. IsFun(cell, Machines) /\ IsCell(cell[m])
        BY DEF OpenRight, CellShapes
      <3>2. QED
        BY <2>2, <2>3, <3>1, FirstCell
    <2>5. IsSeq(cell'[m].connections) /\ Range(cell'[m].connections) = Range(cell[m].connections) \cup {new}
      <3>1. PICK s : s = cell[m].connections
        OBVIOUS
      <3>2. IsSeq(s)
        BY <3>1 DEF OpenRight, CellShapes
      <3>3. IsSeq(Append(s, new)) /\ Range(Append(s, new)) = Range(s) \cup {new}
        BY <3>2, AppendRange
      <3>4. QED
        BY <2>4, <3>1, <3>3
    <2>6. CellShapes' /\ ActivesStay /\ \A o \in Machines : cell'[o].active => cell[o].active
      <3>1. IsLink(new)
        BY <2>3 DEF IsLink
      <3>2. QED
        BY <2>4, <2>5, <3>1 DEF OpenRight, CellShapes, ActivesStay
    <2>7. ExistsStay
      BY <2>4, <2>5 DEF ExistsStay, ExistsConnection
    <2>8. ~ ExistsConnection(m, n) /\ ExistsConnection(m, n)'
      BY <2>3, <2>4, <2>5 DEF ExistsConnection
    <2>9. ~ Opened(r)
      BY <1>1, <1>3, <2>8 DEF OpenRight, RequestsOnce
    <2>10. ASSUME NEW q \in StorageConnections, Opened(q)
           PROVE  RequestUser(q) # RequestUser(r)
      <3>1. q \notin Clients /\ Origin(q) = MachineOf[q[1]] /\ ExistsConnection(Origin(q), q[2])
        BY <2>10, Constants DEF OpenRight, RequestsOnce
      <3>2. RequestUser(q) = <<MachineOf[q[1]], q[2]>> /\ RequestUser(r) = <<m, n>>
        BY <1>1, <1>4, <3>1 DEF RequestUser
      <3>3. SUFFICES ASSUME <<MachineOf[q[1]], q[2]>> = <<m, n>> PROVE FALSE
        BY <3>2
      <3>4. QED
        BY <2>8, <3>1, <3>3
    <2>11. RequestsOnce' /\ TakesStay
      <3>1. r \notin Clients => /\ ExistsConnection(Origin(r), r[2])'
                                /\ \A q \in StorageConnections : Opened(q) => RequestUser(q) # RequestUser(r)
        <4>1. Origin(r)' = m /\ r[2] = n
          BY <1>1, <1>3 DEF Origin, Owner
        <4>2. ExistsConnection(Origin(r), r[2])'
          BY <2>8, <4>1 DEF ExistsConnection
        <4>3. QED
          BY <2>10, <4>2
      <3>2. Owner(r) \in apps /\ UNCHANGED <<apps, listening>> /\ RequestsOnce
        BY <1>2, <1>4, <1>5, <2>2 DEF OpenRight
      <3>3. QED
        BY <1>4, <1>7, <2>2, <2>7, <2>9, <3>1, <3>2, RequestOpened
    <2>12. PatShapes' /\ PortsStay /\ PortsRight'
      <3>1. UNCHANGED <<ports, portPtr, portHoles, freePorts, listening, lrep>>
        BY <1>2, <2>2 DEF pat
      <3>2. PortsRight'
        BY <1>2, <1>7, <2>11, <3>1, PortsKept DEF OpenRight
      <3>3. QED
        BY <3>1, <3>2 DEF OpenRight, PatShapes, IsFun, PortsStay, HasPorts
    <2>13. SubsActive'
      BY <1>2, <2>6, SubsKept DEF OpenRight
    <2>14. HostsRight'
      <3>1. HostsRight /\ lrep \in [Nodes -> SUBSET Machines]
        BY DEF OpenRight, PatShapes
      <3>2. QED
        BY <1>2, <1>7, <2>6, <2>12, <3>1, HostsKept
    <2>15. QED
      BY <1>2, <1>6, <1>8, <2>6, <2>11, <2>12, <2>13, <2>14 DEF OpenRight
  <1>10. ASSUME ~ FirstConnection(r, n)
         PROVE  CellShapes' /\ ActivesStay /\ ExistsStay /\ SubsActive' /\ UNCHANGED <<cell, connection, listening>>
    <2>1. UNCHANGED <<cell, connection, listening>>
      BY <1>2, <1>10 DEF NfsReplica, PfsReplica, network
    <2>2. CellShapes' /\ ActivesStay /\ ExistsStay
      BY <2>1 DEF OpenRight, CellShapes, ActivesStay, ExistsStay, ExistsConnection
    <2>3. QED
      BY <1>2, <2>1, <2>2, SubsKept DEF OpenRight
  <1>11. CASE ~ FirstConnection(r, n) /\ UNCHANGED network
    <2>1. UNCHANGED <<apps, pat, listening, connection, lrep>> /\ fault' \in {"none", "deleted twice"}
      BY <1>2, <1>11 DEF network, OpenRight
    <2>2. \A o \in Machines : cell'[o].active => cell[o].active
      BY <1>10, <1>11
    <2>3. QED
      BY <1>6, <1>7, <1>8, <1>10, <1>11, <2>1, <2>2, OpenKept
  <1>12. CASE /\ ~ FirstConnection(r, n) /\ ConnectionStablished(r, 0, NULL)
              /\ UNCHANGED <<attached, portPtr, portHoles, listening, connection, delivered>>
    <2>1. TakesStay
      BY <1>12 DEF TakesStay
    <2>2. PortsRight' /\ PortsStay /\ PatShapes'
      BY <1>2, <1>4, <1>7, <1>12, <2>1, PortsStablished DEF NetInv, OpenRight
    <2>3. RequestsOnce'
      BY <1>2, <1>7, <1>10, <1>12, RequestsKept DEF OpenRight
    <2>4. HostsRight'
      <3>1. HostsRight /\ lrep \in [Nodes -> SUBSET Machines]
        BY DEF OpenRight, PatShapes
      <3>2. QED
        BY <1>2, <1>7, <1>10, <1>12, <2>2, <3>1, HostsKept
    <2>5. QED
      BY <1>2, <1>6, <1>8, <1>10, <1>12, <2>2, <2>3, <2>4 DEF OpenRight
  <1>13. QED
    BY <1>2, <1>9, <1>11, <1>12 DEF NfsReplica, PfsReplica

\* The connections of a cell once one of them is established.
LinkedBy(s, k, r) == [s EXCEPT ![k].id = r]

LEMMA LinkEstablished ==
    ASSUME NEW s, IsSeq(s), \A c \in Range(s) : IsLink(c), NEW k, NEW r,
           NEW t, t = LinkedBy(s, k, r)
    PROVE  /\ IsSeq(t) /\ \A c \in Range(t) : IsLink(c)
           /\ \A c \in Range(s) : \E d \in Range(t) : d.node = c.node
  <1>1. PICK l \in Nat : DOMAIN s = 1 .. l
    BY DEF IsSeq
  <1>2. DOMAIN t = 1 .. l /\ t = [i \in 1 .. l |-> t[i]]
    BY <1>1 DEF LinkedBy
  <1>3. ASSUME NEW i \in 1 .. l
        PROVE  IsLink(t[i]) /\ t[i].node = s[i].node
    <2>1. PICK c : c = s[i]
      OBVIOUS
    <2>2. c = [node |-> c.node, id |-> c.id]
      BY <1>1, <2>1 DEF Range, IsLink
    <2>3. t[i] = c \/ t[i] = [c EXCEPT !.id = r]
      BY <1>1, <2>1 DEF LinkedBy
    <2>4. [c EXCEPT !.id = r] = [node |-> c.node, id |-> r]
      BY <2>2
    <2>5. t[i] = c \/ t[i] = [node |-> c.node, id |-> r]
      BY <2>3, <2>4
    <2>6. CASE t[i] = c
      BY <2>1, <2>2, <2>6 DEF IsLink
    <2>7. CASE t[i] = [node |-> c.node, id |-> r]
      BY <2>1, <2>7 DEF IsLink
    <2>8. QED
      BY <2>5, <2>6, <2>7
  <1>4. IsSeq(t)
    <2>1. PICK u : u = t
      OBVIOUS
    <2>2. u = [i \in 1 .. l |-> u[i]] /\ \A i \in 1 .. l : u[i] \in Range(u)
      BY <1>2, <2>1 DEF Range
    <2>3. u \in Seq(Range(u))
      BY <2>2
    <2>4. QED
      BY <2>1, <2>3 DEF IsSeq
  <1>5. \A c \in Range(t) : IsLink(c)
    BY <1>2, <1>3 DEF Range
  <1>6. ASSUME NEW c \in Range(s) PROVE \E d \in Range(t) : d.node = c.node
    <2>1. PICK i \in 1 .. l : c = s[i]
      BY <1>1 DEF Range
    <2>2. t[i] \in Range(t) /\ t[i].node = c.node
      BY <1>2, <1>3, <2>1 DEF Range
    <2>3. QED
      BY <2>2
  <1>7. QED
    BY <1>4, <1>5, <1>6

LEMMA OpenEstablished ==
    ASSUME NetInv, OpenRight, NEW r \in StorageConnections, StorageEstablished(r)
    PROVE  OpenRight'
  <1>1. PICK m \in Machines : m = Origin(r) /\ r \in Requests /\ NodeOf(r) = HostOf[m]
    BY Constants DEF Requests, NodeOf
  <1> DEFINE which == SelectInSeq(cell[m].connections, LAMBDA c : c.node = r[2] /\ c.id = NULL)
  <1>2. PICK k : k = which
    OBVIOUS
  <1>3. PICK t : t = LinkedBy(cell[m].connections, k, r)
    OBVIOUS
  <1>4. /\ Established(r) /\ UNCHANGED <<apps, fault, lrep, asking, queue, latency, sent>> /\ UNCHANGED waiting
        /\ \/ /\ cell' = [cell EXCEPT ![m].connections = t, ![m].active = TRUE, ![m].servers = Len(t)]
              /\ Notify(m, 1 + Len(replicas[m]))
           \/ cell' = [cell EXCEPT ![m].connections = t] /\ UNCHANGED <<phase, connecting>>
    BY <1>1, <1>2, <1>3 DEF StorageEstablished, Established, io, LinkedBy
  <1> HIDE DEF which
  <1>5. /\ IsFun(cell', Machines) /\ IsCell(cell'[m]) /\ cell'[m].connections = t
        /\ \A o \in Machines : o # m => cell'[o] = cell[o]
        /\ cell'[m].active = cell[m].active \/ cell'[m].active
        /\ cell'[m].servers = cell[m].servers \/ cell'[m].servers = Len(t)
    <2>1. IsFun(cell, Machines) /\ IsCell(cell[m])
      BY DEF OpenRight, CellShapes
    <2>2. QED
      BY <1>4, <2>1, CellJoined
  <1>6. /\ IsSeq(t) /\ \A c \in Range(t) : IsLink(c)
        /\ \A c \in Range(cell[m].connections) : \E d \in Range(t) : d.node = c.node
    <2>1. PICK s : s = cell[m].connections
      OBVIOUS
    <2>2. IsSeq(s) /\ \A c \in Range(s) : IsLink(c)
      BY <2>1 DEF OpenRight, CellShapes
    <2>3. t = LinkedBy(s, k, r)
      BY <1>3, <2>1
    <2>4. QED
      BY <2>1, <2>2, <2>3, LinkEstablished
  <1>7. CellShapes' /\ ActivesStay
    <2>1. Len(t) \in Nat
      BY <1>6 DEF IsSeq
    <2>2. QED
      BY <1>5, <1>6, <2>1 DEF OpenRight, CellShapes, ActivesStay
  <1>8. ExistsStay
    BY <1>5, <1>6 DEF ExistsStay, ExistsConnection
  <1>9. /\ StayBegun
        /\ \A a \in Servers \cup Clients : phase'[a] = phase[a]
        /\ \A j \in Jobs : phase'[j] = "done" => phase[j] = "done"
    <2>1. PICK times \in Nat : times = 1 + Len(replicas[m])
      <3>1. 1 + Len(replicas[m]) \in Nat
        BY DEF NetInv, AskingRight, IsSeq
      <3>2. QED
        BY <3>1
    <2>2. Notify(m, times) \/ UNCHANGED <<phase, connecting>>
      BY <1>4, <2>1
    <2>3. QED
      BY <2>2, OpenNotify
  <1>10. /\ RequestsOnce' /\ PortsRight' /\ PatShapes' /\ PortsStay /\ HasPorts(HostOf[m], m)'
    <2>1. HasPorts(NodeOf(r), Origin(r))' => HasPorts(HostOf[m], m)'
      BY <1>1 DEF NodeOf, Origin, Owner
    <2>2. QED
      BY <1>1, <1>4, <1>8, <1>9, <2>1, RequestEstablished DEF OpenRight
  <1>11. PendingRight' /\ AsksRight'
    BY <1>4 DEF OpenRight, PendingRight, waiting, AsksRight
  <1>12. SubsActive'
    BY <1>4, <1>7, SubsKept DEF OpenRight
  <1>13. HostsRight'
    <2>1. HostsRight /\ lrep \in [Nodes -> SUBSET Machines]
      BY DEF OpenRight, PatShapes
    <2>2. \A o \in Machines : cell'[o].active => cell[o].active \/ HasPorts(HostOf[o], o)'
      BY <1>5, <1>10
    <2>3. QED
      BY <1>4, <1>7, <1>9, <1>10, <2>1, <2>2, HostsKept
  <1>14. QED
    BY <1>4, <1>7, <1>10, <1>11, <1>12, <1>13 DEF OpenRight

\* What a cell is about to send.
LEMMA QueueScheduled ==
    ASSUME SubsActive, NEW m \in Machines, NEW q, IsSeq(q), \A s \in Range(q) : SubActive(s)', ActivesStay,
           \/ Schedule(m, q)
           \/ queue' = [queue EXCEPT ![m] = q] /\ UNCHANGED latency
           \/ UNCHANGED <<queue, latency>>
    PROVE  IsFun(queue', Machines) /\ IsFun(latency', Machines) /\ \A o \in Machines : QueueActive(o)'
  <1>1. ASSUME NEW s, SubActive(s) PROVE SubActive(s)'
    BY <1>1, Constants DEF SubActive, ActivesStay
  <1>2. IsFun(queue, Machines) /\ IsFun(latency, Machines)
    BY DEF SubsActive
  <1>3. ASSUME NEW o \in Machines, UNCHANGED <<queue[o], latency[o]>> PROVE QueueActive(o)'
    <2>1. QueueActive(o)
      BY DEF SubsActive
    <2>2. QED
      BY <1>1, <1>3, <2>1 DEF QueueActive
  <1>4. CASE UNCHANGED <<queue, latency>>
    BY <1>2, <1>3, <1>4
  <1>5. CASE queue' = [queue EXCEPT ![m] = q] /\ UNCHANGED latency
    <2>1. /\ IsFun(queue', Machines) /\ queue'[m] = q /\ latency'[m] = latency[m]
          /\ \A o \in Machines : o # m => UNCHANGED <<queue[o], latency[o]>>
      BY <1>2, <1>5 DEF IsFun
    <2>2. QueueActive(m)
      BY DEF SubsActive
    <2>3. QueueActive(m)'
      BY <1>1, <2>1, <2>2 DEF QueueActive
    <2>4. QED
      BY <1>2, <1>3, <1>5, <2>1, <2>3
  <1>6. CASE Schedule(m, q)
    <2>1. /\ IsFun(queue', Machines) /\ IsFun(latency', Machines)
          /\ \A o \in Machines : o # m => UNCHANGED <<queue[o], latency[o]>>
          /\ latency'[m] = IF q = <<>> THEN NULL ELSE Head(q)
          /\ queue'[m] = IF q = <<>> THEN <<>> ELSE Tail(q)
      BY <1>2, <1>6 DEF Schedule, IsFun
    <2>2. CASE q = <<>>
      <3>1. IsSeq(<<>>) /\ Range(<<>>) = {}
        BY DEF IsSeq, Range
      <3>2. QueueActive(m)'
        BY <2>1, <2>2, <3>1 DEF QueueActive
      <3>3. QED
        BY <1>3, <2>1, <3>2
    <2>3. CASE q # <<>>
      <3>1. PICK h, t : h = Head(q) /\ t = Tail(q)
        OBVIOUS
      <3>2. IsSeq(t) /\ Range(t) \subseteq Range(q) /\ h \in Range(q)
        BY <2>3, <3>1, TailRange
      <3>3. latency'[m] = h /\ queue'[m] = t
        BY <2>1, <2>3, <3>1
      <3>4. SubActive(latency[m])'
        BY <3>2, <3>3 DEF SubActive
      <3>5. QueueActive(m)'
        BY <3>2, <3>3, <3>4 DEF QueueActive
      <3>6. QED
        BY <1>3, <2>1, <3>5
    <2>4. QED
      BY <2>2, <2>3
  <1>7. QED
    BY <1>4, <1>5, <1>6

\* A cell in which an operation is lost.
LEMMA CellLost ==
    ASSUME CellShapes, NEW m \in Machines, NEW j, cell' = [cell EXCEPT ![m].lost = @ \cup {j}]
    PROVE  CellShapes' /\ ActivesStay /\ ExistsStay /\ \A o \in Machines : cell'[o].active => cell[o].active
  <1>1. PICK c, lost : c = cell[m] /\ lost = cell[m].lost \cup {j}
    OBVIOUS
  <1>2. c = [fs |-> c.fs, connections |-> c.connections, active |-> c.active,
             servers |-> c.servers, lost |-> c.lost]
    BY <1>1 DEF CellShapes, IsCell
  <1>3. PICK d : d = [c EXCEPT !.lost = lost]
    OBVIOUS
  <1>4. cell' = [cell EXCEPT ![m] = d]
    BY <1>1, <1>3
  <1>5. d = [fs |-> c.fs, connections |-> c.connections, active |-> c.active,
             servers |-> c.servers, lost |-> lost]
    BY <1>2, <1>3
  <1>6. IsCell(d) /\ d.connections = c.connections /\ d.active = c.active /\ d.servers = c.servers
    BY <1>5 DEF IsCell
  <1>7. IsFun(cell', Machines) /\ cell'[m] = d /\ \A o \in Machines : o # m => cell'[o] = cell[o]
    BY <1>4 DEF CellShapes, IsFun
  <1>8. \A o \in Machines : /\ cell'[o].connections = cell[o].connections /\ cell'[o].active = cell[o].active
                            /\ cell'[o].servers = cell[o].servers /\ IsCell(cell'[o])
    BY <1>1, <1>6, <1>7 DEF CellShapes
  <1>9. QED
    BY <1>7, <1>8 DEF CellShapes, ActivesStay, ExistsStay, ExistsConnection

\* The parts of an operation are for its job.
LEMMA SplitParts ==
    ASSUME NEW j \in Jobs, NEW n \in Nat
    PROVE  /\ IsSeq(SplitRequest(j, n))
           /\ \A s \in Range(SplitRequest(j, n)) :
                 s = [parent |-> s.parent, part |-> s.part, server |-> s.server] /\ s.parent = j
  <1>1. PICK p \in Nat : p = PfsParts(j, n)
    BY TargetFacts DEF PfsParts
  <1>2. PICK parts : parts = SplitRequest(j, n)
    OBVIOUS
  <1>3. parts = [i \in 1 .. p |-> [parent |-> j, part |-> i - 1, server |-> ServerOf(j, i - 1, n)]]
    BY <1>1, <1>2 DEF SplitRequest
  <1>4. ASSUME NEW s \in Range(parts)
        PROVE  s = [parent |-> s.parent, part |-> s.part, server |-> s.server] /\ s.parent = j
    <2>1. PICK i \in 1 .. p : s = [parent |-> j, part |-> i - 1, server |-> ServerOf(j, i - 1, n)]
      BY <1>3 DEF Range
    <2>2. QED
      BY <2>1
  <1>5. IsSeq(parts)
    <2>1. DOMAIN parts = 1 .. p /\ parts = [i \in 1 .. p |-> parts[i]]
      BY <1>3
    <2>2. \A i \in 1 .. p : parts[i] \in Range(parts)
      BY <2>1 DEF Range
    <2>3. QED
      BY <2>1, <2>2 DEF IsSeq
  <1>6. QED
    BY <1>2, <1>4, <1>5

LEMMA OpenOperation ==
    ASSUME NetInv, OpenRight, NEW j \in Jobs, Operation(j)
    PROVE  OpenRight'
  <1>1. PICK m \in Machines : m = MachineOf[j]
    BY Constants
  <1>2. /\ phase' = [phase EXCEPT ![j] = "sent"]
        /\ Enqueue(j) \/ PfsOperation(j) \/ NfsOperation(j)
        /\ UNCHANGED waiting /\ UNCHANGED <<apps, fault, lrep, asking, pat, listening, connection>>
    BY DEF Operation, network
  <1>3. \A b \in Servers \cup Clients \cup Jobs : phase'[b] = IF b = j THEN "sent" ELSE phase[b]
    BY <1>2, PhaseSet DEF NetInv, Phases
  <1>4. j \notin Servers /\ j \notin Clients
    BY Constants
  <1>5. /\ StayBegun
        /\ \A a \in Servers \cup Clients : phase'[a] = phase[a]
        /\ \A i \in Jobs : phase'[i] = "done" => phase[i] = "done"
    BY <1>3, <1>4 DEF StayBegun
  <1>6. PendingRight' /\ AsksRight'
    BY <1>2 DEF OpenRight, PendingRight, waiting, AsksRight
  <1>7. CellShapes' /\ ActivesStay /\ ExistsStay /\ \A o \in Machines : cell'[o].active => cell[o].active
    <2>1. CASE UNCHANGED cell
      BY <2>1 DEF OpenRight, CellShapes, ActivesStay, ExistsStay, ExistsConnection
    <2>2. CASE cell' = [cell EXCEPT ![m].lost = @ \cup {j}]
      BY <2>2, CellLost DEF OpenRight
    <2>3. QED
      BY <1>1, <1>2, <2>1, <2>2 DEF Enqueue, PfsOperation, NfsOperation
  <1>8. SubsActive'
    <2>1. SubsActive /\ QueueActive(m)
      BY DEF OpenRight, SubsActive
    <2>2. ASSUME NEW s, SubActive(s) PROVE SubActive(s)'
      BY <1>7, <2>2, Constants DEF SubActive, ActivesStay
    <2>3. PICK q : q = queue[m]
      OBVIOUS
    <2>4. IsSeq(q) /\ \A s \in Range(q) : SubActive(s)'
      BY <2>1, <2>2, <2>3 DEF QueueActive
    <2>5. CASE Enqueue(j)
      BY <1>7, <2>1, <2>5, SubsKept DEF Enqueue
    <2>6. CASE PfsOperation(j)
      <3>1. PICK parts : parts = SplitRequest(j, cell[m].servers)
        OBVIOUS
      <3>2. /\ cell[m].active /\ UNCHANGED <<cell, sent>>
            /\ \/ Schedule(m, q \o parts)
               \/ queue' = [queue EXCEPT ![m] = q \o parts] /\ UNCHANGED latency
        BY <1>1, <2>3, <2>6, <3>1 DEF PfsOperation
      <3>3. cell[m].servers \in Nat
        BY DEF OpenRight, CellShapes
      <3>4. /\ IsSeq(parts)
            /\ \A s \in Range(parts) :
                  s = [parent |-> s.parent, part |-> s.part, server |-> s.server] /\ s.parent = j
        BY <3>1, <3>3, SplitParts
      <3>5. \A s \in Range(parts) : SubActive(s)'
        BY <1>1, <3>2, <3>4 DEF SubActive
      <3>6. PICK all : all = q \o parts
        OBVIOUS
      <3>7. IsSeq(all) /\ Range(all) = Range(q) \cup Range(parts)
        BY <2>4, <3>4, <3>6, ConcatRange
      <3>8. \A s \in Range(all) : SubActive(s)'
        BY <2>4, <3>5, <3>7
      <3>9. \/ Schedule(m, all)
            \/ queue' = [queue EXCEPT ![m] = all] /\ UNCHANGED latency
        BY <3>2, <3>6
      <3>10. IsFun(queue', Machines) /\ IsFun(latency', Machines) /\ \A o \in Machines : QueueActive(o)'
        BY <1>7, <2>1, <3>7, <3>8, <3>9, QueueScheduled
      <3>11. \A s \in sent' : SubActive(s)'
        BY <2>1, <2>2, <3>2 DEF SubsActive
      <3>12. QED
        BY <3>10, <3>11 DEF SubsActive
    <2>7. CASE NfsOperation(j)
      <3>1. PICK new : new = [parent |-> j, part |-> 0, server |-> 1]
        OBVIOUS
      <3>2. cell[m].active /\ UNCHANGED <<cell, queue, latency>> /\ sent' = sent \cup {new}
        BY <1>1, <2>7, <3>1 DEF NfsOperation
      <3>3. new = [parent |-> new.parent, part |-> new.part, server |-> new.server] /\ new.parent = j
        BY <3>1
      <3>4. SubActive(new)'
        BY <1>1, <3>2, <3>3 DEF SubActive
      <3>5. \A s \in sent' : SubActive(s)'
        BY <2>1, <2>2, <3>2, <3>4 DEF SubsActive
      <3>6. IsFun(queue', Machines) /\ IsFun(latency', Machines) /\ \A o \in Machines : QueueActive(o)'
        BY <1>7, <2>1, <2>4, <3>2, QueueScheduled
      <3>7. QED
        BY <3>5, <3>6 DEF SubsActive
    <2>8. QED
      BY <1>2, <2>5, <2>6, <2>7
  <1>9. QED
    BY <1>2, <1>5, <1>6, <1>7, <1>8, OpenKept DEF OpenRight

LEMMA OpenLatency ==
    ASSUME NetInv, OpenRight, NEW m \in Machines, EndOfLatency(m)
    PROVE  OpenRight'
  <1>1. PICK l, q : l = latency[m] /\ q = queue[m]
    OBVIOUS
  <1>2. /\ l # NULL /\ sent' = sent \cup {l} /\ Schedule(m, q)
        /\ UNCHANGED waiting /\ UNCHANGED <<phase, apps, fault, lrep, asking, cell, pat, listening, connection>>
    BY <1>1 DEF EndOfLatency, network, storage
  <1>3. CellShapes' /\ ActivesStay /\ ExistsStay /\ \A o \in Machines : cell'[o].active => cell[o].active
    BY <1>2 DEF OpenRight, CellShapes, ActivesStay, ExistsStay, ExistsConnection
  <1>4. PendingRight' /\ AsksRight' /\ StayBegun
    BY <1>2 DEF OpenRight, PendingRight, waiting, AsksRight, StayBegun
  <1>5. SubsActive'
    <2>1. SubsActive /\ QueueActive(m)
      BY DEF OpenRight, SubsActive
    <2>2. \A s : SubActive(s) => SubActive(s)'
      BY <1>2 DEF SubActive
    <2>3. IsSeq(q) /\ (\A s \in Range(q) : SubActive(s)') /\ SubActive(l)'
      BY <1>1, <1>2, <2>1, <2>2 DEF QueueActive
    <2>4. IsFun(queue', Machines) /\ IsFun(latency', Machines) /\ \A o \in Machines : QueueActive(o)'
      BY <1>2, <1>3, <2>1, <2>3, QueueScheduled
    <2>5. \A s \in sent' : SubActive(s)'
      BY <1>2, <2>1, <2>2, <2>3 DEF SubsActive
    <2>6. QED
      BY <2>4, <2>5 DEF SubsActive
  <1>6. QED
    BY <1>2, <1>3, <1>4, <1>5, OpenKept DEF OpenRight

LEMMA OpenResponse ==
    ASSUME NetInv, OpenRight, NEW sub \in sent, Response(sub)
    PROVE  OpenRight'
  <1>1. PICK j : j = sub.parent
    OBVIOUS
  <1>2. SubActive(sub)
    BY DEF OpenRight, SubsActive
  <1>3. j \in Jobs /\ cell[MachineOf[j]].active
    BY <1>1, <1>2 DEF SubActive
  <1> DEFINE next == [sub EXCEPT !.part = @ + 1]
  <1>4. /\ UNCHANGED waiting
        /\ UNCHANGED <<apps, lrep, asking, cell, pat, listening, connection, queue, latency>>
        /\ sent' \subseteq sent \cup {next} /\ fault' \in {"none", "deleted twice"}
        /\ phase' = [phase EXCEPT ![j] = "done"] \/ UNCHANGED phase
    BY <1>1 DEF Response, network, storage, OpenRight
  <1>5. SubActive(next)
    <2>1. PICK p, s : sub = [parent |-> j, part |-> p, server |-> s]
      BY <1>1, <1>2 DEF SubActive
    <2>2. next = [parent |-> j, part |-> p + 1, server |-> s]
      BY <2>1
    <2> HIDE DEF next
    <2>3. next = [parent |-> next.parent, part |-> next.part, server |-> next.server] /\ next.parent = j
      BY <2>2
    <2>4. QED
      BY <1>3, <2>3 DEF SubActive
  <1> HIDE DEF next
  <1>6. CellShapes' /\ ActivesStay /\ ExistsStay /\ \A o \in Machines : cell'[o].active => cell[o].active
    BY <1>4 DEF OpenRight, CellShapes, ActivesStay, ExistsStay, ExistsConnection
  <1>7. SubsActive'
    <2>1. SubsActive
      BY DEF OpenRight
    <2>2. \A s : SubActive(s) => SubActive(s)'
      BY <1>4 DEF SubActive
    <2>3. \A s \in sent' : SubActive(s)'
      BY <1>4, <1>5, <2>1, <2>2 DEF SubsActive
    <2>4. \A o \in Machines : QueueActive(o)'
      BY <1>4, <2>1, <2>2 DEF SubsActive, QueueActive
    <2>5. QED
      BY <1>4, <2>1, <2>3, <2>4 DEF SubsActive
  <1>8. PendingRight' /\ AsksRight'
    BY <1>4 DEF OpenRight, PendingRight, waiting, AsksRight
  <1>9. /\ StayBegun
        /\ \A a \in Servers \cup Clients : phase'[a] = phase[a]
        /\ \A i \in Jobs : phase'[i] = "done" => phase[i] = "done" \/ i = j
    <2>1. CASE UNCHANGED phase
      BY <2>1 DEF StayBegun
    <2>2. CASE phase' = [phase EXCEPT ![j] = "done"]
      <3>1. \A b \in Servers \cup Clients \cup Jobs : phase'[b] = IF b = j THEN "done" ELSE phase[b]
        BY <2>2, PhaseSet DEF NetInv, Phases
      <3>2. j \notin Servers /\ j \notin Clients
        BY <1>3, Constants
      <3>3. QED
        BY <3>1, <3>2 DEF StayBegun
    <2>3. QED
      BY <1>4, <2>1, <2>2
  <1>10. QED
    BY <1>3, <1>4, <1>6, <1>7, <1>8, <1>9, OpenKept

\* The machine of a user whose jobs have ended has ports wherever it is closed.
LEMMA OpenClose ==
    ASSUME NetInv, OpenRight, NEW m \in Machines, CloseMachine(m)
    PROVE  attached' # Machines
  <1>1. PICK at : at = {HostOf[m]} \cup {n \in Nodes : m \in lrep[n]}
    OBVIOUS
  <1>2. m \in attached /\ UserDone(UserOf[m]) /\ (\E a \in apps : MachineOf[a] = m) /\ CloseConnections(at, m)
    BY <1>1 DEF CloseMachine
  <1>3. HasPorts(HostOf[m], m)
    <2>1. PICK a \in apps : MachineOf[a] = m /\ phase[a] = "done"
      BY <1>2 DEF UserDone
    <2>2. a \in Servers \cup Clients \cup Jobs
      BY StorageAssumption DEF StorageAssumption, OpenRight
    <2>3. CASE a \in Servers
      BY <2>1, <2>3 DEF OpenRight, HostsRight
    <2>4. CASE a \in Clients
      <3>1. phase[a] \in Linked
        BY <2>1 DEF Linked
      <3>2. QED
        BY <2>1, <2>4, <3>1 DEF OpenRight, HostsRight
    <2>5. CASE a \in Jobs
      BY <2>1, <2>5 DEF OpenRight, HostsRight
    <2>6. QED
      BY <2>2, <2>3, <2>4, <2>5
  <1>4. \A n \in at : ports[n][m] # <<>>
    BY <1>1, <1>3 DEF OpenRight, HostsRight, HasPorts
  <1>5. attached' = attached \ {m}
    BY <1>2, <1>4 DEF CloseConnections
  <1>6. QED
    BY <1>5

LEMMA OpenInit ==
    Init => OpenInv
  <1> SUFFICES ASSUME Init PROVE OpenRight
    BY DEF OpenInv
  <1>1. IsSeq(<<>>) /\ Range(<<>>) = {} /\ DOMAIN <<>> = {}
    BY DEF IsSeq, Range
  <1>2. /\ portPtr = [n \in Nodes |-> FirstPort] /\ portHoles = [n \in Nodes |-> <<>>]
        /\ freePorts = [n \in Nodes |-> {}] /\ listening = [n \in Nodes |-> <<>>]
        /\ pendingConnections = [n \in Nodes |-> <<>>]
        /\ connection = [r \in Requests |-> NoConnection]
        /\ phase = [a \in Servers \cup Clients \cup Jobs |-> "idle"]
        /\ fault = "none" /\ apps \in Workloads
    BY DEF Init, NetworkInit
  <1>3. /\ lrep = [n \in Nodes |-> {}] /\ asking = [m \in Machines |-> <<>>]
        /\ cell = [m \in Machines |-> NoCell] /\ queue = [m \in Machines |-> <<>>]
        /\ latency = [m \in Machines |-> NULL] /\ sent = {}
    BY DEF Init
  <1>4. PendingRight
    BY <1>1, <1>2 DEF PendingRight, IsFun
  <1>5. PatShapes
    <2>1. IsFun(portPtr, Nodes) /\ IsFun(portHoles, Nodes) /\ IsFun(freePorts, Nodes)
      BY <1>2 DEF IsFun
    <2>2. lrep \in [Nodes -> SUBSET Machines]
      BY <1>3
    <2>3. QED
      BY <2>1, <2>2 DEF PatShapes
  <1>6. CellShapes /\ \A m \in Machines : ~ cell[m].active
    <2>1. /\ IsCell(NoCell) /\ NoCell.connections = <<>> /\ NoCell.servers = 0 /\ NoCell.active = FALSE
      BY DEF IsCell, NoCell
    <2>2. IsFun(cell, Machines) /\ \A m \in Machines : cell[m] = NoCell
      BY <1>3 DEF IsFun
    <2>3. QED
      BY <1>1, <2>1, <2>2 DEF CellShapes
  <1>7. AsksRight
    BY <1>1, <1>3 DEF AsksRight
  <1>8. SubsActive
    <2>1. IsFun(queue, Machines) /\ IsFun(latency, Machines)
      BY <1>3 DEF IsFun
    <2>2. QED
      BY <1>1, <1>3, <2>1 DEF SubsActive, QueueActive
  <1>9. PortsRight
    <2>1. FirstPort \in Nat
      BY NetworkAssumption DEF NetworkAssumption
    <2>2. IsFiniteSet({}) /\ FirstPort .. FirstPort - 1 = {}
      BY <2>1, FS_EmptySet
    <2>3. ASSUME NEW n \in Nodes PROVE PortsGiven(n) /\ ListenersOnce(n)
      <3>1. /\ portHoles[n] = <<>> /\ portPtr[n] = FirstPort /\ freePorts[n] = {}
            /\ Range(listening[n]) = {}
        BY <1>1, <1>2
      <3>2. PortsGiven(n)
        BY <2>1, <2>2, <3>1 DEF PortsGiven
      <3>3. QED
        BY <3>1, <3>2 DEF ListenersOnce
    <2>4. QED
      BY <2>3 DEF PortsRight
  <1>10. RequestsOnce
    <2>1. \A r \in Requests : connection[r].status = "none"
      BY <1>2 DEF NoConnection
    <2>2. \A r \in Requests : ~ Opened(r)
      BY <2>1 DEF Opened
    <2>3. QED
      BY <2>1, <2>2 DEF RequestsOnce, Requests
  <1>11. HostsRight
    <2>1. \A a \in Servers \cup Clients \cup Jobs : phase[a] = "idle"
      BY <1>2
    <2>2. \A n \in Nodes : lrep[n] = {}
      BY <1>3
    <2>3. QED
      BY <1>6, <2>1, <2>2 DEF HostsRight, Linked
  <1>12. QED
    BY <1>2, <1>4, <1>5, <1>6, <1>7, <1>8, <1>9, <1>10, <1>11 DEF OpenRight

LEMMA OpenNext ==
    ASSUME PortsSuffice, NetInv, OpenInv, [Next]_vars
    PROVE  OpenInv'
  <1>1. CASE \E m \in Machines : CloseMachine(m)
    <2>1. PICK m \in Machines : CloseMachine(m)
      BY <1>1
    <2>2. attached \subseteq Machines /\ (attached' = attached \/ attached' = attached \ {m})
      BY <2>1 DEF CloseMachine, CloseConnections, network, NetInv, ClientsRight
    <2>3. attached = Machines => attached' # Machines
      BY <2>1, OpenClose DEF OpenInv
    <2>4. attached' # Machines
      BY <2>2, <2>3
    <2>5. QED
      BY <2>4 DEF OpenInv
  <1>2. CASE ~ \E m \in Machines : CloseMachine(m)
    <2>1. ASSUME NEW at, NEW m, NEW v, NEW a, Listens(at, m, v, a) PROVE UNCHANGED attached
      BY <2>1 DEF Listens, network
    <2>2. CASE UNCHANGED attached
      <3> SUFFICES ASSUME attached' = Machines PROVE OpenRight'
        BY DEF OpenInv
      <3>1. attached = Machines /\ OpenRight
        BY <2>2 DEF OpenInv
      <3>2. CASE UNCHANGED vars
        <4>1. /\ UNCHANGED <<phase, fault, apps, pat, listening, connection>>
              /\ UNCHANGED <<storage, io>> /\ UNCHANGED waiting
          BY <3>2 DEF vars, network
        <4>2. PendingRight' /\ StayBegun
          BY <3>1, <4>1 DEF OpenRight, PendingRight, waiting, StayBegun
        <4>3. QED
          BY <3>1, <4>1, <4>2, OpenNetKept DEF OpenRight
      <3>3. CASE Next
        BY <1>2, <3>1, <3>3, OpenNetwork, OpenConnect, OpenOperation, OpenSetRemote, OpenLatency,
           OpenEstablished, OpenResponse DEF Next
      <3>4. QED
        BY <3>2, <3>3
    <2>3. ASSUME NetworkNext PROVE UNCHANGED attached
      BY <2>1, <2>3 DEF NetworkNext, Listen, AskConnection, ClientEstablished, Established, AliasEstablished,
         CheckPendingMessages, Send, Deliver, Answer, ServerEnds, network
    <2>4. ASSUME NEW j \in Jobs, ConnectToStorage(j) \/ Operation(j) PROVE UNCHANGED attached
      BY <2>1, <2>4 DEF ConnectToStorage, Operation, network
    <2>5. ASSUME NEW m \in Machines, SetRemoteData(m) \/ EndOfLatency(m) PROVE UNCHANGED attached
      BY <2>5 DEF SetRemoteData, FirstConnection, NfsReplica, PfsReplica, EndOfLatency, network
    <2>6. ASSUME NEW r \in StorageConnections, StorageEstablished(r) PROVE UNCHANGED attached
      BY <2>6 DEF StorageEstablished, Established
    <2>7. ASSUME NEW sub \in sent, Response(sub) PROVE UNCHANGED attached
      BY <2>7 DEF Response, network
    <2>8. UNCHANGED vars => UNCHANGED attached
      BY DEF vars, network
    <2>9. QED
      BY <1>2, <2>2, <2>3, <2>4, <2>5, <2>6, <2>7, <2>8 DEF Next
  <1>3. QED
    BY <1>1, <1>2

\* While no machine is closed each port in use is of a job or connection that needs one,
\* and of no other; and a machine has ports in each node where it will be closed
\* (PortAddressTranslation::getNewPort, pat_closeVM).
THEOREM PortsInvariant ==
    ASSUME PortsSuffice
    PROVE  Spec => [](NetInv /\ OpenInv)
  <1>1. Init => NetInv /\ OpenInv
    BY NetInit, OpenInit
  <1>2. (NetInv /\ OpenInv) /\ [Next]_vars => (NetInv /\ OpenInv)'
    BY NetNext, OpenNext
  <1>3. QED
    BY <1>1, <1>2, PTL DEF Spec

\* When a node has a port for each job and connection that may need one, nothing but the
\* double deletion of OPEN and CREATE stops the simulation before a machine is closed.
THEOREM NothingStopsBeforeClose ==
    ASSUME PortsSuffice
    PROVE  Spec => []StopsOnlyAfterClose
  <1>1. OpenInv => StopsOnlyAfterClose
    BY DEF OpenInv, OpenRight, StopsOnlyAfterClose
  <1>2. Spec => [](NetInv /\ OpenInv)
    BY PortsInvariant
  <1>3. QED
    BY <1>1, <1>2, PTL
================================================================================
