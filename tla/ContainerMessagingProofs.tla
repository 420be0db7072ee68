----------------------- MODULE ContainerMessagingProofs -----------------------
(* The gates of the containers of a machine agree, and every answer comes  *)
(* back to the container that sent the request, for every number of        *)
(* containers, iterations and clients.                                     *)
EXTENDS ContainerMessaging, FiniteSetTheorems, SequenceTheorems, TLAPS

-------------------------------------------------------------------------------
(* The inductive invariant.                                                *)

Slots == Nat \cup Containers \cup {Free}

\* A gate manager with n positions, of which those in holes are free.
Shaped(g, holes, n) ==
    /\ g \in [gates : Seq(Slots), holes : Seq(Nat)]
    /\ g.holes = holes /\ Len(g.gates) = n
    /\ \A i \in 1 .. n : g.gates[i] = Free <=> i \in ToSet(holes)

\* Positions that are free, once each.
HolesOK(holes, n) ==
    /\ holes \in Seq(1 .. n)
    /\ \A i, j \in DOMAIN holes : holes[i] = holes[j] => i = j

\* The holes and the length of every vector of the machine.
Holes   == mgr["sysTo"].holes
NumGates == Len(mgr["sysTo"].gates)

VectorsShaped ==
    /\ DOMAIN mgr = Managers /\ NumGates \in Nat /\ HolesOK(Holes, NumGates)
    /\ \A v \in Managers : Shaped(mgr[v], Holes, NumGates)

\* What is behind the gate of container c at position i of vector v.
Behind(v, c, i) ==
    CASE v = "engToContainers" -> c
      [] v \in {"engToVm", "vmToEngine", "vmToOS", "sysTo"} -> i
      [] OTHER -> 0

\* Every linked container has one position in all the vectors, and every position that is
\* not free has its container.
PositionsHeld ==
    /\ toOS \in [Containers -> Nat \cup {Free}]
    /\ phase \in [Containers -> {"new", "linked", "running", "ended"}]
    /\ \A c \in Containers : Linked(c) =>
         /\ toOS[c] \in 1 .. NumGates /\ toOS[c] \notin ToSet(Holes)
         /\ \A v \in Managers : mgr[v].gates[toOS[c]] = Behind(v, c, toOS[c])
    /\ \A i \in 1 .. NumGates : i \notin ToSet(Holes) =>
         \E c \in Containers : Linked(c) /\ toOS[c] = i

Entries == [process : Containers, toGateIdx : Nat]

\* The process table has one entry for every linked container.
TableOK ==
    /\ processesRunning \in Seq(Entries)
    /\ \A i \in DOMAIN processesRunning :
         /\ Linked(processesRunning[i].process)
         /\ processesRunning[i].toGateIdx = toOS[processesRunning[i].process]
         /\ \A j \in DOMAIN processesRunning :
              processesRunning[i].process = processesRunning[j].process => i = j
    /\ \A c \in Containers : Linked(c) =>
         \E i \in DOMAIN processesRunning : processesRunning[i].process = c

\* A message whose container is at position p is at the gate of its container, and
\* remembers the gates of the modules it has passed.
OnItsWay(m, p) ==
    \/ ~m.resp /\ m.at = "engine" /\ m.gate = p /\ m.trace = <<>>
    \/ ~m.resp /\ m.at = "vm"     /\ m.gate = p /\ m.trace = <<p>>
    \/ ~m.resp /\ m.at = "sys"    /\ m.gate = p /\ m.trace = <<p, p>>
    \/ ~m.resp /\ m.at = "device" /\ m.gate = 0 /\ m.trace = <<p, p, p>>
    \/ m.resp /\ m.at = "vm"      /\ m.gate = p /\ m.trace = <<p, p>>
    \/ m.resp /\ m.at = "engine"  /\ m.gate = p /\ m.trace = <<p>>
    \/ m.resp /\ m.at = "app"     /\ m.gate = m.job /\ m.trace = <<>>

\* While nothing has failed, every message has a running container, and every chain of
\* requests one message.
MsgsOK ==
    /\ \A m \in msgs : phase[m.job] = "running" /\ OnItsWay(m, toOS[m.job])
    /\ \A m \in msgs : /\ m.job \in Intensive => m.chain = 1
                       /\ m.job \in Servers => m.chain <= hits[m.job]
    /\ \A m1, m2 \in msgs : m1.job = m2.job /\ m1.chain = m2.chain => m1 = m2

TrafficTypeOK ==
    /\ msgs \subseteq Message /\ IsFiniteSet(msgs)
    /\ hits \in [Servers -> 0 .. MaxHits]
    /\ enginePending \in [Kinds -> Int] /\ vmPending \in [Kinds -> Int]

GatesInv == VectorsShaped /\ PositionsHeld /\ TableOK
TrafficInv ==
    /\ TrafficTypeOK /\ CountersExact /\ ResponseReachesSender
    /\ fault = "none" => MsgsOK

IInv == GatesInv /\ TrafficInv

-------------------------------------------------------------------------------
(* The gate managers.                                                      *)

\* The position a vector with these holes and n gates gives to a new gate, and the holes
\* and the length it has afterwards.
NewPos(holes, n) == IF holes # <<>> THEN Head(holes) ELSE n + 1
NewHoles(holes)  == IF holes # <<>> THEN Tail(holes) ELSE <<>>
NewLen(holes, n) == IF holes # <<>> THEN n ELSE n + 1

\* The elements of a sequence after its first.
LEMMA AfterHead ==
    ASSUME NEW S, NEW q \in Seq(S), q # <<>>
    PROVE  /\ Len(q) \in Nat \ {0} /\ Head(q) = q[1] /\ 1 \in DOMAIN q /\ Head(q) \in S
           /\ Tail(q) \in Seq(S) /\ DOMAIN Tail(q) = 1 .. Len(q) - 1
           /\ \A i \in 1 .. Len(q) - 1 : i + 1 \in DOMAIN q /\ Tail(q)[i] = q[i + 1]
  <1>1. Len(q) \in Nat \ {0} /\ DOMAIN q = 1 .. Len(q) /\ Head(q) = q[1]
    OBVIOUS
  <1>2. Tail(q) \in Seq(S) /\ DOMAIN Tail(q) = 1 .. Len(q) - 1
    BY <1>1
  <1>3. \A i \in 1 .. Len(q) - 1 : i + 1 \in DOMAIN q /\ Tail(q)[i] = q[i + 1]
    BY <1>1
  <1>4. QED
    BY <1>1, <1>2, <1>3

\* A sequence with one more element.
LEMMA AfterAppend ==
    ASSUME NEW S, NEW q \in Seq(S), NEW e \in S
    PROVE  /\ Append(q, e) \in Seq(S) /\ Len(q) \in Nat /\ DOMAIN q = 1 .. Len(q)
           /\ DOMAIN Append(q, e) = 1 .. Len(q) + 1 /\ Append(q, e)[Len(q) + 1] = e
           /\ \A i \in 1 .. Len(q) : Append(q, e)[i] = q[i] /\ q[i] \in S
  OBVIOUS

\* A sequence without its element at position k.
LEMMA AfterRemoveAt ==
    ASSUME NEW S, NEW q \in Seq(S), NEW k \in 1 .. Len(q)
    PROVE  /\ RemoveAt(q, k) \in Seq(S) /\ Len(q) \in Nat
           /\ DOMAIN RemoveAt(q, k) = 1 .. Len(q) - 1
           /\ \A i \in 1 .. Len(q) - 1 : RemoveAt(q, k)[i] = IF i < k THEN q[i] ELSE q[i + 1]
  <1>1. PICK l \in Nat \ {0} : l = Len(q) /\ k \in 1 .. l
    OBVIOUS
  <1>2. PICK a : a = SubSeq(q, 1, k - 1)
    OBVIOUS
  <1>3. PICK b : b = SubSeq(q, k + 1, l)
    OBVIOUS
  <1>4. a \in Seq(S) /\ Len(a) = k - 1 /\ \A i \in 1 .. k - 1 : a[i] = q[i]
    BY <1>1, <1>2
  <1>5. b \in Seq(S) /\ Len(b) = l - k /\ \A i \in 1 .. l - k : b[i] = q[i + k]
    BY <1>1, <1>3
  <1>6. PICK r : r = a \o b
    OBVIOUS
  <1>7. r = RemoveAt(q, k)
    BY <1>1, <1>2, <1>3, <1>6 DEF RemoveAt
  <1>8. /\ r \in Seq(S) /\ Len(r) = l - 1
        /\ \A i \in 1 .. l - 1 : r[i] = IF i < k THEN a[i] ELSE b[i - (k - 1)]
    BY <1>1, <1>4, <1>5, <1>6
  <1>9. \A i \in 1 .. l - 1 : r[i] = IF i < k THEN q[i] ELSE q[i + 1]
    <2> TAKE i \in 1 .. l - 1
    <2>1. CASE i < k
      BY <1>1, <1>4, <1>8, <2>1
    <2>2. CASE ~(i < k)
      <3>1. PICK j \in 1 .. l - k : j = i - (k - 1)
        BY <1>1, <2>2
      <3>2. b[j] = q[j + k] /\ j + k = i + 1
        BY <1>1, <1>5, <3>1
      <3>3. QED
        BY <1>8, <2>2, <3>1, <3>2
    <2>3. QED
      BY <2>1, <2>2
  <1>10. QED
    BY <1>1, <1>7, <1>8, <1>9

\* The oldest hole is taken, or the vector grows.
LEMMA HoleTaken ==
    ASSUME NEW n \in Nat, NEW holes, HolesOK(holes, n)
    PROVE  /\ NewLen(holes, n) \in Nat /\ 1 .. n \subseteq 1 .. NewLen(holes, n)
           /\ HolesOK(NewHoles(holes), NewLen(holes, n))
           /\ NewPos(holes, n) \in 1 .. NewLen(holes, n) /\ NewPos(holes, n) \notin ToSet(NewHoles(holes))
           /\ NewPos(holes, n) \in 1 .. n <=> holes # <<>>
           /\ NewPos(holes, n) \in 1 .. n => NewPos(holes, n) \in ToSet(holes)
           /\ \A i \in 1 .. NewLen(holes, n) : i # NewPos(holes, n) =>
                i \in 1 .. n /\ (i \in ToSet(NewHoles(holes)) <=> i \in ToSet(holes))
  <1>a. /\ holes \in Seq(1 .. n)
        /\ \A i, j \in DOMAIN holes : holes[i] = holes[j] => i = j
    BY DEF HolesOK
  <1>1. CASE holes = <<>>
    <2>1. /\ NewPos(holes, n) = n + 1 /\ NewHoles(holes) = <<>> /\ NewLen(holes, n) = n + 1
          /\ ToSet(<<>>) = {}
      BY <1>1 DEF NewPos, NewHoles, NewLen, ToSet
    <2>2. HolesOK(<<>>, n + 1)
      BY DEF HolesOK
    <2>3. QED
      BY <1>1, <2>1, <2>2
  <1>2. CASE holes # <<>>
    <2>1. NewPos(holes, n) = Head(holes) /\ NewHoles(holes) = Tail(holes) /\ NewLen(holes, n) = n
      BY <1>2 DEF NewPos, NewHoles, NewLen
    <2>2. PICK h \in 1 .. n : h = Head(holes)
      BY <1>2, <1>a, AfterHead
    <2>3. PICK t : t = Tail(holes)
      OBVIOUS
    <2>4. PICK l \in Nat \ {0} : l = Len(holes) /\ DOMAIN holes = 1 .. l
      BY <1>2, <1>a
    <2>5. /\ h = holes[1] /\ t \in Seq(1 .. n) /\ DOMAIN t = 1 .. l - 1
          /\ \A i \in 1 .. l - 1 : i + 1 \in 1 .. l /\ t[i] = holes[i + 1]
      BY <1>2, <1>a, <2>2, <2>3, <2>4, AfterHead
    <2>a. \A i, j \in 1 .. l : holes[i] = holes[j] => i = j
      BY <1>a, <2>4
    <2>6. ASSUME NEW i \in 1 .. l - 1 PROVE t[i] # h
      <3>1. i + 1 \in 1 .. l /\ 1 \in 1 .. l /\ i + 1 # 1
        BY <2>4
      <3>2. t[i] = holes[i + 1] /\ h = holes[1]
        BY <2>5
      <3>3. holes[i + 1] # holes[1]
        BY ONLY <2>a, <3>1
      <3>4. QED
        BY <3>2, <3>3
    <2>7. ASSUME NEW i \in 1 .. l - 1, NEW j \in 1 .. l - 1, t[i] = t[j] PROVE i = j
      <3>1. i + 1 \in 1 .. l /\ j + 1 \in 1 .. l
        BY <2>4
      <3>2. holes[i + 1] = holes[j + 1]
        BY <2>5, <2>7
      <3>3. i + 1 = j + 1
        BY ONLY <2>a, <3>1, <3>2
      <3>4. QED
        BY <3>3
    <2>8. h \in ToSet(holes) /\ h \notin ToSet(t)
      <3>1. 1 \in DOMAIN holes /\ h = holes[1]
        BY <2>4, <2>5
      <3>2. h \in ToSet(holes)
        BY ONLY <3>1 DEF ToSet
      <3>3. ASSUME h \in ToSet(t) PROVE FALSE
        <4>1. PICK i \in 1 .. l - 1 : t[i] = h
          BY <2>5, <3>3 DEF ToSet
        <4>2. QED
          BY <2>6, <4>1
      <3>4. QED
        BY <3>2, <3>3
    <2>9. ASSUME NEW i, i # h PROVE i \in ToSet(t) <=> i \in ToSet(holes)
      <3>1. ASSUME i \in ToSet(holes) PROVE i \in ToSet(t)
        <4>1. PICK k \in 1 .. l : i = holes[k]
          BY <2>4, <3>1 DEF ToSet
        <4>2. k - 1 \in 1 .. l - 1 /\ t[k - 1] = holes[k]
          BY <2>5, <2>9, <4>1
        <4>3. QED
          BY <2>5, <4>1, <4>2 DEF ToSet
      <3>2. ASSUME i \in ToSet(t) PROVE i \in ToSet(holes)
        BY <2>4, <2>5, <3>2 DEF ToSet
      <3>3. QED
        BY <3>1, <3>2
    <2>10. HolesOK(t, n)
      BY <2>5, <2>7 DEF HolesOK
    <2>11. QED
      BY <1>2, <2>1, <2>2, <2>3, <2>8, <2>9, <2>10
  <1>3. QED
    BY <1>1, <1>2

\* A gate is linked at the new position.
LEMMA GateLinked ==
    ASSUME NEW n \in Nat, NEW holes, HolesOK(holes, n), NEW g, Shaped(g, holes, n),
           NEW peer \in Nat \cup Containers
    PROVE  /\ NewGate(g) = NewPos(holes, n)
           /\ Shaped(LinkGate(g, peer), NewHoles(holes), NewLen(holes, n))
           /\ LinkGate(g, peer).gates[NewPos(holes, n)] = peer
           /\ \A i \in 1 .. n : i # NewPos(holes, n) => LinkGate(g, peer).gates[i] = g.gates[i]
  <1>1. PICK q \in Seq(Slots) : q = g.gates /\ Len(q) = n
    BY DEF Shaped
  <1>a. g.holes = holes /\ holes \in Seq(1 .. n) /\ \A i \in 1 .. n : q[i] = Free <=> i \in ToSet(holes)
    BY <1>1 DEF Shaped, HolesOK
  <1>b. NewGate(g) = NewPos(holes, n)
    BY <1>1, <1>a DEF NewGate, NewPos
  <1>c. PICK k : k = NewPos(holes, n)
    OBVIOUS
  <1>2. PICK r \in Seq(Slots) : /\ LinkGate(g, peer) = [gates |-> r, holes |-> NewHoles(holes)]
                                /\ Len(r) = NewLen(holes, n) /\ r[k] = peer
                                /\ \A i \in 1 .. n : i # k => r[i] = q[i]
    <2>1. CASE holes # <<>>
      <3>1. k = Head(holes) /\ k \in 1 .. n
        BY <1>a, <1>c, <2>1, AfterHead DEF NewPos
      <3>2. PICK r : r = [q EXCEPT ![k] = peer]
        OBVIOUS
      <3>3. LinkGate(g, peer) = [gates |-> r, holes |-> Tail(holes)]
        BY <1>1, <1>a, <2>1, <3>1, <3>2 DEF LinkGate
      <3>4. r \in Seq(Slots) /\ Len(r) = n /\ r[k] = peer /\ \A i \in 1 .. n : i # k => r[i] = q[i]
        BY <1>1, <3>1, <3>2 DEF Slots
      <3>5. QED
        BY <2>1, <3>3, <3>4 DEF NewHoles, NewLen
    <2>2. CASE holes = <<>>
      <3>1. k = n + 1
        BY <1>c, <2>2 DEF NewPos
      <3>2. PICK r : r = Append(q, peer)
        OBVIOUS
      <3>3. LinkGate(g, peer) = [gates |-> r, holes |-> <<>>]
        BY <1>1, <1>a, <2>2, <3>2 DEF LinkGate
      <3>4. r \in Seq(Slots) /\ Len(r) = n + 1 /\ r[k] = peer /\ \A i \in 1 .. n : i # k => r[i] = q[i]
        BY <1>1, <3>1, <3>2 DEF Slots
      <3>5. QED
        BY <2>2, <3>3, <3>4 DEF NewHoles, NewLen
    <2>3. QED
      BY <2>1, <2>2
  <1>3. /\ HolesOK(NewHoles(holes), NewLen(holes, n)) /\ k \notin ToSet(NewHoles(holes))
        /\ \A i \in 1 .. NewLen(holes, n) : i # k =>
             i \in 1 .. n /\ (i \in ToSet(NewHoles(holes)) <=> i \in ToSet(holes))
        /\ NewLen(holes, n) \in Nat
    BY <1>c, HoleTaken
  <1>4. peer # Free
    BY ContainersAssumption
  <1>5. \A i \in 1 .. NewLen(holes, n) : r[i] = Free <=> i \in ToSet(NewHoles(holes))
    <2> TAKE i \in 1 .. NewLen(holes, n)
    <2>1. CASE i = k
      BY <1>2, <1>3, <1>4, <2>1
    <2>2. CASE i # k
      BY <1>2, <1>3, <1>a, <2>2
    <2>3. QED
      BY <2>1, <2>2
  <1>6. NewHoles(holes) \in Seq(Nat)
    <2>1. NewHoles(holes) \in Seq(1 .. NewLen(holes, n))
      BY <1>3 DEF HolesOK
    <2>2. QED
      BY <1>3, <2>1
  <1>7. Shaped([gates |-> r, holes |-> NewHoles(holes)], NewHoles(holes), NewLen(holes, n))
    BY <1>2, <1>5, <1>6 DEF Shaped
  <1>8. QED
    BY <1>1, <1>2, <1>7, <1>b, <1>c

\* The gate of a position that is not a hole becomes one.
LEMMA GateFreed ==
    ASSUME NEW n \in Nat, NEW holes, HolesOK(holes, n), NEW p \in 1 .. n, p \notin ToSet(holes)
    PROVE  /\ HolesOK(Append(holes, p), n) /\ ToSet(Append(holes, p)) = ToSet(holes) \cup {p}
           /\ \A g : Shaped(g, holes, n) =>
                /\ GateHit(g, p) /\ Shaped(FreeGate(g, p), Append(holes, p), n)
                /\ \A i \in 1 .. n : i # p => FreeGate(g, p).gates[i] = g.gates[i]
  <1>a. /\ holes \in Seq(1 .. n)
        /\ \A i, j \in DOMAIN holes : holes[i] = holes[j] => i = j
    BY DEF HolesOK
  <1>1. PICK l \in Nat : l = Len(holes) /\ DOMAIN holes = 1 .. l
    BY <1>a
  <1>2. PICK h : h = Append(holes, p)
    OBVIOUS
  <1>3. /\ h \in Seq(1 .. n) /\ DOMAIN h = 1 .. l + 1 /\ h[l + 1] = p
        /\ \A i \in 1 .. l : h[i] = holes[i]
    BY <1>a, <1>1, <1>2
  <1>4. \A i \in 1 .. l : holes[i] # p
    BY <1>1 DEF ToSet
  <1>5. ASSUME NEW i \in 1 .. l + 1, NEW j \in 1 .. l + 1, h[i] = h[j] PROVE i = j
    <2>1. CASE i \in 1 .. l /\ j \in 1 .. l
      BY <1>a, <1>1, <1>3, <1>5, <2>1
    <2>2. CASE i = l + 1 /\ j = l + 1
      BY <2>2
    <2>3. CASE (i \in 1 .. l /\ j = l + 1) \/ (i = l + 1 /\ j \in 1 .. l)
      BY <1>3, <1>4, <1>5, <2>3
    <2>4. QED
      BY <2>1, <2>2, <2>3
  <1>6. HolesOK(h, n)
    BY <1>3, <1>5 DEF HolesOK
  <1>7. ToSet(h) = ToSet(holes) \cup {p}
    <2>1. ASSUME NEW x \in ToSet(h) PROVE x \in ToSet(holes) \cup {p}
      BY <1>1, <1>3, <2>1 DEF ToSet
    <2>2. ASSUME NEW x \in ToSet(holes) PROVE x \in ToSet(h)
      BY <1>1, <1>3, <2>2 DEF ToSet
    <2>3. p \in ToSet(h)
      BY <1>3 DEF ToSet
    <2>4. QED
      BY <2>1, <2>2, <2>3
  <1>8. ASSUME NEW g, Shaped(g, holes, n)
        PROVE  /\ GateHit(g, p) /\ Shaped(FreeGate(g, p), h, n)
               /\ \A i \in 1 .. n : i # p => FreeGate(g, p).gates[i] = g.gates[i]
    <2>1. PICK q \in Seq(Slots) : q = g.gates /\ Len(q) = n
      BY <1>8 DEF Shaped
    <2>2. g.holes = holes /\ \A i \in 1 .. n : q[i] = Free <=> i \in ToSet(holes)
      BY <1>8, <2>1 DEF Shaped
    <2>3. GateHit(g, p)
      BY <2>1, <2>2 DEF GateHit
    <2>4. PICK r : r = [q EXCEPT ![p] = Free]
      OBVIOUS
    <2>5. /\ r \in Seq(Slots) /\ Len(r) = n
          /\ \A i \in 1 .. n : r[i] = IF i = p THEN Free ELSE q[i]
      BY <2>1, <2>4 DEF Slots
    <2>6. FreeGate(g, p) = [gates |-> r, holes |-> h]
      BY <1>2, <2>1, <2>2, <2>4 DEF FreeGate
    <2>7. h \in Seq(Nat)
      BY <1>3
    <2>8. \A i \in 1 .. n : r[i] = Free <=> i \in ToSet(h)
      BY <1>7, <2>2, <2>5
    <2>9. Shaped([gates |-> r, holes |-> h], h, n)
      BY <2>5, <2>7, <2>8 DEF Shaped
    <2>10. QED
      BY <2>1, <2>3, <2>5, <2>6, <2>9
  <1>9. QED
    BY <1>2, <1>6, <1>7, <1>8

-------------------------------------------------------------------------------
(* The counters of requests under way.                                     *)

\* A message of kind k has passed module w and is still to come back to it.
InTransit(w, k, m) ==
    /\ Kind(m) = k
    /\ \/ m.at \in {"sys", "device"}
       \/ m.at = "vm" /\ (w = "engine" \/ m.resp)
       \/ m.at = "engine" /\ w = "engine" /\ m.resp

Past(w, k, M) == {m \in M : InTransit(w, k, m)}

\* How much a message adds to a counter.
Share(w, k, m) == IF InTransit(w, k, m) THEN 1 ELSE 0

\* The sets the counters are compared with.
LEMMA CountedSets ==
    ASSUME NEW k \in Kinds
    PROVE  /\ Beyond({"sys", "device"}, k) \cup {m \in Beyond({"vm"}, k) : m.resp} = Past("vm", k, msgs)
           /\ Beyond({"vm", "sys", "device"}, k) \cup {m \in Beyond({"engine"}, k) : m.resp}
                = Past("engine", k, msgs)
  BY DEF Beyond, Past, InTransit

\* A message that is replaced takes its share with it and brings its own.
LEMMA SharesAddUp ==
    ASSUME NEW M, IsFiniteSet(M), NEW m \in M, NEW s, s \notin M \ {m}, NEW w, NEW k
    PROVE  /\ Cardinality(Past(w, k, M)) \in Nat
           /\ Cardinality(Past(w, k, (M \ {m}) \cup {s}))
                = Cardinality(Past(w, k, M)) - Share(w, k, m) + Share(w, k, s)
  <1> DEFINE A == Past(w, k, M)
             B == Past(w, k, M \ {m})
             C == Past(w, k, (M \ {m}) \cup {s})
  <1>1. IsFiniteSet(A) /\ IsFiniteSet(B)
    <2>1. A \subseteq M /\ B \subseteq M
      BY DEF Past
    <2>2. QED
      BY <2>1, FS_Subset
  <1>2. Cardinality(A) = Cardinality(B) + Share(w, k, m)
    <2>1. CASE InTransit(w, k, m)
      <3>1. m \in A /\ B = A \ {m} /\ Share(w, k, m) = 1
        BY <2>1 DEF Past, Share
      <3>2. Cardinality(A) \in Nat /\ Cardinality(A \ {m}) = Cardinality(A) - 1
        BY <1>1, <3>1, FS_RemoveElement, FS_CardinalityType
      <3>3. Cardinality(B) = Cardinality(A) - 1
        BY ONLY <3>1, <3>2
      <3>4. QED
        BY ONLY <3>1, <3>2, <3>3
    <2>2. CASE ~InTransit(w, k, m)
      <3>1. B = A /\ Share(w, k, m) = 0
        BY <2>2 DEF Past, Share
      <3>2. QED
        BY <1>1, <3>1, FS_CardinalityType
    <2>3. QED
      BY <2>1, <2>2
  <1>3. Cardinality(C) = Cardinality(B) + Share(w, k, s)
    <2>1. CASE InTransit(w, k, s)
      <3>1. s \notin B /\ C = B \cup {s} /\ Share(w, k, s) = 1
        BY <2>1 DEF Past, Share
      <3>2. QED
        BY <1>1, <3>1, FS_AddElement, FS_CardinalityType
    <2>2. CASE ~InTransit(w, k, s)
      <3>1. C = B /\ Share(w, k, s) = 0
        BY <2>2 DEF Past, Share
      <3>2. QED
        BY <1>1, <3>1, FS_CardinalityType
    <2>3. QED
      BY <2>1, <2>2
  <1>4. Cardinality(A) \in Nat /\ Cardinality(B) \in Nat /\ Share(w, k, m) \in Nat /\ Share(w, k, s) \in Nat
    BY <1>1, FS_CardinalityType DEF Share
  <1>5. QED
    BY <1>2, <1>3, <1>4

-------------------------------------------------------------------------------
(* The gates, step by step.                                                *)

\* A step that leaves the gates and who is linked alone keeps the agreement of the gates.
LEMMA GatesKept ==
    ASSUME GatesInv, UNCHANGED linkVars,
           phase' \in [Containers -> {"new", "linked", "running", "ended"}],
           \A c \in Containers : Linked(c)' <=> Linked(c)
    PROVE  GatesInv'
  <1>1. mgr' = mgr /\ toOS' = toOS /\ processesRunning' = processesRunning
    BY DEF linkVars
  <1>2. VectorsShaped'
    BY <1>1 DEF GatesInv, VectorsShaped, Holes, NumGates
  <1>3. PositionsHeld'
    BY <1>1 DEF GatesInv, PositionsHeld, Holes, NumGates
  <1>4. TableOK'
    <2>1. /\ processesRunning \in Seq(Entries)
          /\ \A i \in DOMAIN processesRunning : processesRunning[i].process \in Containers
      <3>1. PICK t \in Seq(Entries) : t = processesRunning
        BY DEF GatesInv, TableOK
      <3>2. \A i \in DOMAIN t : t[i] \in Entries
        OBVIOUS
      <3>3. QED
        BY <3>1, <3>2 DEF Entries
    <2>2. QED
      BY <1>1, <2>1 DEF GatesInv, TableOK
  <1>5. QED
    BY <1>2, <1>3, <1>4 DEF GatesInv

\* A new process gets the same position in the ten vectors.
LEMMA ProcessCreated ==
    ASSUME GatesInv, NEW c \in Containers, CreateProcess(c)
    PROVE  GatesInv' /\ \A d \in Containers : d # c => toOS'[d] = toOS[d] /\ phase'[d] = phase[d]
  <1>1. PICK n \in Nat : n = NumGates
    BY DEF GatesInv, VectorsShaped
  <1>2. PICK h : h = Holes
    OBVIOUS
  <1>3. HolesOK(h, n) /\ DOMAIN mgr = Managers /\ \A v \in Managers : Shaped(mgr[v], h, n)
    BY <1>1, <1>2 DEF GatesInv, VectorsShaped
  <1>4. PICK k : k = NewPos(h, n)
    OBVIOUS
  <1>5. PICK h2 : h2 = NewHoles(h)
    OBVIOUS
  <1>6. PICK n2 : n2 = NewLen(h, n)
    OBVIOUS
  <1>7. /\ n2 \in Nat /\ 1 .. n \subseteq 1 .. n2 /\ HolesOK(h2, n2)
        /\ k \in 1 .. n2 /\ k \notin ToSet(h2) /\ (k \in 1 .. n => k \in ToSet(h))
        /\ \A i \in 1 .. n2 : i # k => i \in 1 .. n /\ (i \in ToSet(h2) <=> i \in ToSet(h))
    BY <1>3, <1>4, <1>5, <1>6, HoleTaken
  <1>8. \A v \in Managers : NewGate(mgr[v]) = k
    <2> TAKE v \in Managers
    <2>1. 0 \in Nat \cup Containers
      OBVIOUS
    <2>2. QED
      BY <1>3, <1>4, <2>1, GateLinked
  <1>9. \A v \in Managers : Peer(v, c) = Behind(v, c, k)
    BY <1>8 DEF Peer, Behind, Managers
  <1>10. /\ mgr' = [v \in Managers |-> LinkGate(mgr[v], Peer(v, c))]
         /\ toOS' = [toOS EXCEPT ![c] = NewGate(mgr["engFromContainers"])]
         /\ processesRunning' = Append(processesRunning,
                [process |-> c, toGateIdx |-> NewGate(mgr["sysTo"])])
         /\ phase' = [phase EXCEPT ![c] = "linked"] /\ phase[c] = "new"
    BY Zenon DEF CreateProcess
  <1>11. ASSUME NEW v \in Managers
         PROVE  /\ Shaped(mgr'[v], h2, n2) /\ mgr'[v].gates[k] = Behind(v, c, k)
                /\ \A i \in 1 .. n : i # k => mgr'[v].gates[i] = mgr[v].gates[i]
    <2>1. PICK peer \in Nat \cup Containers : peer = Behind(v, c, k)
      BY <1>7 DEF Behind
    <2>2. PICK g : g = mgr[v]
      OBVIOUS
    <2>3. mgr'[v] = LinkGate(g, peer) /\ Shaped(g, h, n)
      BY <1>3, <1>9, <1>10, <2>1, <2>2
    <2>4. /\ Shaped(LinkGate(g, peer), h2, n2) /\ LinkGate(g, peer).gates[k] = peer
          /\ \A i \in 1 .. n : i # k => LinkGate(g, peer).gates[i] = g.gates[i]
      BY <1>3, <1>4, <1>5, <1>6, <2>3, GateLinked
    <2>5. QED
      BY <2>1, <2>2, <2>3, <2>4
  <1>12. /\ DOMAIN mgr' = Managers /\ Holes' = h2 /\ NumGates' = n2
    <2>1. "sysTo" \in Managers
      BY DEF Managers
    <2>2. Shaped(mgr'["sysTo"], h2, n2)
      BY <1>11, <2>1
    <2>3. QED
      BY <1>10, <2>2 DEF Holes, NumGates, Shaped
  <1>13. VectorsShaped'
    BY <1>7, <1>11, <1>12 DEF VectorsShaped
  <1>14. toOS \in [Containers -> Nat \cup {Free}] /\ phase \in [Containers -> {"new", "linked", "running", "ended"}]
    BY DEF GatesInv, PositionsHeld
  <1>15. NewGate(mgr["engFromContainers"]) = k /\ NewGate(mgr["sysTo"]) = k /\ k \in Nat
    BY <1>7, <1>8 DEF Managers
  <1>16. /\ toOS' \in [Containers -> Nat \cup {Free}]
         /\ toOS'[c] = k /\ \A d \in Containers : d # c => toOS'[d] = toOS[d]
    BY <1>10, <1>14, <1>15
  <1>17. /\ phase' \in [Containers -> {"new", "linked", "running", "ended"}]
         /\ phase'[c] = "linked" /\ \A d \in Containers : d # c => phase'[d] = phase[d]
    BY <1>10, <1>14
  <1>18. /\ Linked(c)' /\ ~Linked(c)
         /\ \A d \in Containers : d # c => (Linked(d)' <=> Linked(d))
    BY <1>10, <1>17 DEF Linked
  <1>19. /\ \A d \in Containers : Linked(d) =>
              /\ toOS[d] \in 1 .. n /\ toOS[d] \notin ToSet(h)
              /\ \A v \in Managers : mgr[v].gates[toOS[d]] = Behind(v, d, toOS[d])
         /\ \A i \in 1 .. n : i \notin ToSet(h) => \E d \in Containers : Linked(d) /\ toOS[d] = i
    BY <1>1, <1>2 DEF GatesInv, PositionsHeld
  <1>20. ASSUME NEW d \in Containers, Linked(d)'
         PROVE  /\ toOS'[d] \in 1 .. n2 /\ toOS'[d] \notin ToSet(h2)
                /\ \A v \in Managers : mgr'[v].gates[toOS'[d]] = Behind(v, d, toOS'[d])
    <2>1. CASE d = c
      BY <1>7, <1>11, <1>16, <2>1
    <2>2. CASE d # c
      <3>1. Linked(d) /\ toOS'[d] = toOS[d]
        BY <1>16, <1>18, <1>20, <2>2
      <3>2. PICK p \in 1 .. n : p = toOS[d]
        BY <1>19, <3>1
      <3>3. p \notin ToSet(h) /\ \A v \in Managers : mgr[v].gates[p] = Behind(v, d, p)
        BY <1>19, <3>1, <3>2
      <3>4. p # k /\ p \in 1 .. n2 /\ p \notin ToSet(h2)
        BY <1>7, <3>3
      <3>5. \A v \in Managers : mgr'[v].gates[p] = Behind(v, d, p)
        BY <1>11, <3>3, <3>4
      <3>6. QED
        BY <3>1, <3>2, <3>4, <3>5
    <2>3. QED
      BY <2>1, <2>2
  <1>21. ASSUME NEW i \in 1 .. n2, i \notin ToSet(h2)
         PROVE  \E d \in Containers : Linked(d)' /\ toOS'[d] = i
    <2>1. CASE i = k
      BY <1>16, <1>18, <2>1
    <2>2. CASE i # k
      <3>1. i \in 1 .. n /\ i \notin ToSet(h)
        BY <1>7, <1>21, <2>2
      <3>2. PICK d \in Containers : Linked(d) /\ toOS[d] = i
        BY <1>19, <3>1
      <3>3. QED
        BY <1>16, <1>18, <3>2
    <2>3. QED
      BY <2>1, <2>2
  <1>22. PositionsHeld'
    BY <1>12, <1>16, <1>17, <1>20, <1>21 DEF PositionsHeld
  <1>23. PICK t \in Seq(Entries) : t = processesRunning
    BY DEF GatesInv, TableOK
  <1>24. PICK e \in Entries : e = [process |-> c, toGateIdx |-> k]
    BY <1>15 DEF Entries
  <1>25. PICK t2 : t2 = Append(t, e)
    OBVIOUS
  <1>26. PICK l \in Nat : l = Len(t) /\ DOMAIN t = 1 .. l
    OBVIOUS
  <1>27. /\ t2 \in Seq(Entries) /\ DOMAIN t2 = 1 .. l + 1
         /\ t2[l + 1] = e /\ \A i \in 1 .. l : t2[i] = t[i] /\ t[i].process \in Containers
    <2>1. /\ t2 \in Seq(Entries) /\ DOMAIN t2 = 1 .. l + 1
          /\ t2[l + 1] = e /\ \A i \in 1 .. l : t2[i] = t[i] /\ t[i] \in Entries
      BY ONLY <1>25, <1>26, t \in Seq(Entries), e \in Entries, AfterAppend
    <2>2. QED
      BY <2>1 DEF Entries
  <1>28. processesRunning' = t2
    BY <1>10, <1>15, <1>23, <1>24, <1>25
  <1>29. /\ \A i \in 1 .. l : Linked(t[i].process) /\ t[i].toGateIdx = toOS[t[i].process]
         /\ \A i, j \in 1 .. l : t[i].process = t[j].process => i = j
         /\ \A d \in Containers : Linked(d) => \E i \in 1 .. l : t[i].process = d
    BY <1>23, <1>26 DEF GatesInv, TableOK
  <1>30. \A i \in 1 .. l : t[i].process # c
    BY <1>18, <1>29
  <1>31. \A i \in 1 .. l + 1 : Linked(t2[i].process)' /\ t2[i].toGateIdx = toOS'[t2[i].process]
    <2> TAKE i \in 1 .. l + 1
    <2>1. CASE i = l + 1
      BY <1>16, <1>18, <1>24, <1>27, <2>1
    <2>2. CASE i \in 1 .. l
      BY <1>16, <1>18, <1>27, <1>29, <1>30, <2>2
    <2>3. QED
      BY <2>1, <2>2
  <1>32. \A i, j \in 1 .. l + 1 : t2[i].process = t2[j].process => i = j
    <2> TAKE i, j \in 1 .. l + 1
    <2>1. CASE i \in 1 .. l /\ j \in 1 .. l
      BY <1>27, <1>29, <2>1
    <2>2. CASE i = l + 1 /\ j = l + 1
      BY <2>2
    <2>3. CASE (i \in 1 .. l /\ j = l + 1) \/ (i = l + 1 /\ j \in 1 .. l)
      BY <1>24, <1>27, <1>30, <2>3
    <2>4. QED
      BY <2>1, <2>2, <2>3
  <1>33. \A d \in Containers : Linked(d)' => \E i \in 1 .. l + 1 : t2[i].process = d
    <2> TAKE d \in Containers
    <2>1. CASE d = c
      BY <1>24, <1>27, <2>1
    <2>2. CASE d # c
      BY <1>18, <1>27, <1>29, <2>2
    <2>3. QED
      BY <2>1, <2>2
  <1>34. TableOK'
    BY <1>27, <1>28, <1>31, <1>32, <1>33 DEF TableOK
  <1>35. QED
    BY <1>13, <1>16, <1>17, <1>22, <1>34 DEF GatesInv

\* A process that ends leaves its position in the ten vectors, and no gate that is free
\* already is freed.
LEMMA ProcessRemoved ==
    ASSUME GatesInv, NEW c \in Containers, Linked(c), RemoveProcess(c),
           phase' = [phase EXCEPT ![c] = "ended"]
    PROVE  /\ GatesInv' /\ RemovalFault(c) = fault
           /\ \A d \in Containers : d # c => toOS'[d] = toOS[d] /\ phase'[d] = phase[d]
           /\ phase'[c] = "ended"
  <1>1. PICK n \in Nat : n = NumGates
    BY DEF GatesInv, VectorsShaped
  <1>2. PICK h : h = Holes
    OBVIOUS
  <1>3. HolesOK(h, n) /\ DOMAIN mgr = Managers /\ \A v \in Managers : Shaped(mgr[v], h, n)
    BY <1>1, <1>2 DEF GatesInv, VectorsShaped
  <1>4. /\ \A d \in Containers : Linked(d) =>
             /\ toOS[d] \in 1 .. n /\ toOS[d] \notin ToSet(h)
             /\ \A v \in Managers : mgr[v].gates[toOS[d]] = Behind(v, d, toOS[d])
        /\ \A i \in 1 .. n : i \notin ToSet(h) => \E d \in Containers : Linked(d) /\ toOS[d] = i
    BY <1>1, <1>2 DEF GatesInv, PositionsHeld
  <1>5. PICK p \in 1 .. n : p = toOS[c]
    BY <1>4
  <1>6. p \notin ToSet(h) /\ \A v \in Managers : mgr[v].gates[p] = Behind(v, c, p)
    BY <1>4, <1>5
  <1>7. \A d \in Containers : Linked(d) /\ d # c => toOS[d] # p
    <2> SUFFICES ASSUME NEW d \in Containers, Linked(d), d # c, toOS[d] = p PROVE FALSE
      OBVIOUS
    <2>1. mgr["engToContainers"].gates[p] = Behind("engToContainers", d, p)
      BY <1>4 DEF Managers
    <2>2. mgr["engToContainers"].gates[p] = Behind("engToContainers", c, p)
      BY <1>6 DEF Managers
    <2>3. QED
      BY <2>1, <2>2 DEF Behind
  <1>8. Position(c) = p
    <2>1. "engToContainers" \in Managers
      BY DEF Managers
    <2>2. PICK g \in [gates : Seq(Slots), holes : Seq(Nat)] : g = mgr["engToContainers"]
      BY <1>3, <2>1 DEF Shaped
    <2>3. DOMAIN g.gates = 1 .. n /\ \A i \in 1 .. n : g.gates[i] = Free <=> i \in ToSet(h)
      BY <1>3, <2>1, <2>2 DEF Shaped
    <2>4. g.gates[p] = c
      BY <1>6, <2>1, <2>2 DEF Behind
    <2>5. \A i \in 1 .. n : g.gates[i] = c => i = p
      <3> SUFFICES ASSUME NEW i \in 1 .. n, g.gates[i] = c PROVE i = p
        OBVIOUS
      <3>1. i \notin ToSet(h)
        BY <2>3, ContainersAssumption
      <3>2. PICK d \in Containers : Linked(d) /\ toOS[d] = i
        BY <1>4, <3>1
      <3>3. g.gates[i] = Behind("engToContainers", d, i)
        BY <1>4, <2>1, <2>2, <3>2
      <3>4. QED
        BY <1>5, <3>2, <3>3 DEF Behind
    <2>6. (CHOOSE i \in 1 .. n : g.gates[i] = c) = p
      BY <2>4, <2>5
    <2>7. Position(c) = CHOOSE i \in DOMAIN g.gates : g.gates[i] = c
      BY <2>2 DEF Position
    <2>8. QED
      BY <2>3, <2>6, <2>7
  <1>9. PICK h2 : h2 = Append(h, p)
    OBVIOUS
  <1>10. /\ HolesOK(h2, n) /\ ToSet(h2) = ToSet(h) \cup {p}
         /\ \A v \in Managers : /\ GateHit(mgr[v], p) /\ Shaped(FreeGate(mgr[v], p), h2, n)
                                /\ \A i \in 1 .. n : i # p => FreeGate(mgr[v], p).gates[i] = mgr[v].gates[i]
    BY <1>3, <1>6, <1>9, GateFreed
  <1>11. RemovalFault(c) = fault
    BY <1>8, <1>10 DEF RemovalFault
  <1>12. /\ mgr' = [v \in Managers |-> FreeGate(mgr[v], p)]
         /\ toOS' = [toOS EXCEPT ![c] = Free]
         /\ processesRunning' = RemoveAt(processesRunning, Entry(c))
    BY <1>8 DEF RemoveProcess, Unlinked
  <1>13. \A v \in Managers : /\ Shaped(mgr'[v], h2, n)
                             /\ \A i \in 1 .. n : i # p => mgr'[v].gates[i] = mgr[v].gates[i]
    BY <1>10, <1>12
  <1>14. /\ DOMAIN mgr' = Managers /\ Holes' = h2 /\ NumGates' = n
    <2>1. "sysTo" \in Managers
      BY DEF Managers
    <2>2. Shaped(mgr'["sysTo"], h2, n)
      BY <1>13, <2>1
    <2>3. QED
      BY <1>12, <2>2 DEF Holes, NumGates, Shaped
  <1>15. VectorsShaped'
    BY <1>10, <1>13, <1>14 DEF VectorsShaped
  <1>16. toOS \in [Containers -> Nat \cup {Free}] /\ phase \in [Containers -> {"new", "linked", "running", "ended"}]
    BY DEF GatesInv, PositionsHeld
  <1>17. /\ toOS' \in [Containers -> Nat \cup {Free}]
         /\ \A d \in Containers : d # c => toOS'[d] = toOS[d]
    BY <1>12, <1>16
  <1>18. /\ phase' \in [Containers -> {"new", "linked", "running", "ended"}]
         /\ phase'[c] = "ended" /\ \A d \in Containers : d # c => phase'[d] = phase[d]
    BY <1>16
  <1>19. ~Linked(c)' /\ \A d \in Containers : d # c => (Linked(d)' <=> Linked(d))
    BY <1>18 DEF Linked
  <1>20. ASSUME NEW d \in Containers, Linked(d)'
         PROVE  /\ toOS'[d] \in 1 .. n /\ toOS'[d] \notin ToSet(h2)
                /\ \A v \in Managers : mgr'[v].gates[toOS'[d]] = Behind(v, d, toOS'[d])
    <2>1. d # c /\ Linked(d) /\ toOS'[d] = toOS[d]
      BY <1>17, <1>19, <1>20
    <2>2. PICK i \in 1 .. n : i = toOS[d]
      BY <1>4, <2>1
    <2>3. i # p /\ i \notin ToSet(h) /\ \A v \in Managers : mgr[v].gates[i] = Behind(v, d, i)
      BY <1>4, <1>7, <2>1, <2>2
    <2>4. QED
      BY <1>10, <1>13, <2>1, <2>2, <2>3
  <1>21. ASSUME NEW i \in 1 .. n, i \notin ToSet(h2)
         PROVE  \E d \in Containers : Linked(d)' /\ toOS'[d] = i
    <2>1. i # p /\ i \notin ToSet(h)
      BY <1>10, <1>21
    <2>2. PICK d \in Containers : Linked(d) /\ toOS[d] = i
      BY <1>4, <2>1
    <2>3. QED
      BY <1>5, <1>17, <1>19, <2>1, <2>2
  <1>22. PositionsHeld'
    BY <1>14, <1>17, <1>18, <1>20, <1>21 DEF PositionsHeld
  <1>23. PICK t \in Seq(Entries) : t = processesRunning
    BY DEF GatesInv, TableOK
  <1>24. PICK l \in Nat : l = Len(t) /\ DOMAIN t = 1 .. l
    OBVIOUS
  <1>25. /\ \A i \in 1 .. l : Linked(t[i].process) /\ t[i].toGateIdx = toOS[t[i].process]
         /\ \A i, j \in 1 .. l : t[i].process = t[j].process => i = j
         /\ \A d \in Containers : Linked(d) => \E i \in 1 .. l : t[i].process = d
    BY <1>23, <1>24 DEF GatesInv, TableOK
  <1>26. PICK k \in 1 .. l : k = Entry(c) /\ t[k].process = c
    <2>1. \E i \in 1 .. l : t[i].process = c
      BY <1>25
    <2>2. Entry(c) = CHOOSE i \in DOMAIN t : t[i].process = c
      BY <1>23 DEF Entry
    <2>3. QED
      BY <1>24, <2>1, <2>2
  <1>27. PICK t2 : t2 = RemoveAt(t, k)
    OBVIOUS
  <1>28. /\ t2 \in Seq(Entries) /\ DOMAIN t2 = 1 .. l - 1
         /\ \A i \in 1 .. l - 1 : t2[i] = IF i < k THEN t[i] ELSE t[i + 1]
    BY <1>24, <1>27, AfterRemoveAt
  <1>29. processesRunning' = t2
    BY <1>12, <1>23, <1>26, <1>27
  <1>30. PICK f \in [1 .. l - 1 -> 1 .. l] : f = [i \in 1 .. l - 1 |-> IF i < k THEN i ELSE i + 1]
    <2>1. \A i \in 1 .. l - 1 : (IF i < k THEN i ELSE i + 1) \in 1 .. l
      BY <1>24
    <2>2. QED
      BY <2>1
  <1>31. /\ \A i \in 1 .. l - 1 : t2[i] = t[f[i]] /\ f[i] \in 1 .. l /\ f[i] # k
         /\ \A i, j \in 1 .. l - 1 : f[i] = f[j] => i = j
         /\ \A j \in 1 .. l : j # k => \E i \in 1 .. l - 1 : f[i] = j
    <2>1. \A i \in 1 .. l - 1 : t2[i] = t[f[i]] /\ f[i] \in 1 .. l /\ f[i] # k
      BY <1>28, <1>30
    <2>2. \A i, j \in 1 .. l - 1 : f[i] = f[j] => i = j
      BY <1>30
    <2>3. ASSUME NEW j \in 1 .. l, j # k PROVE \E i \in 1 .. l - 1 : f[i] = j
      <3>1. CASE j < k
        <4>1. j \in 1 .. l - 1 /\ f[j] = j
          BY <1>30, <3>1
        <4>2. QED
          BY <4>1
      <3>2. CASE j > k
        <4>1. j - 1 \in 1 .. l - 1 /\ f[j - 1] = j
          BY <1>30, <3>2
        <4>2. QED
          BY <4>1
      <3>3. QED
        BY <2>3, <3>1, <3>2
    <2>4. QED
      BY <2>1, <2>2, <2>3
  <1>32. \A i \in 1 .. l : i # k => t[i].process # c /\ t[i].process \in Containers
    <2>1. \A i \in 1 .. l : t[i] \in Entries
      BY <1>24
    <2>2. QED
      BY <1>25, <1>26, <2>1 DEF Entries
  <1>33. ASSUME NEW i \in 1 .. l - 1
         PROVE  Linked(t2[i].process)' /\ t2[i].toGateIdx = toOS'[t2[i].process]
    <2>1. PICK j \in 1 .. l : t2[i] = t[j] /\ j # k
      BY <1>31
    <2>2. PICK d \in Containers : d = t[j].process /\ d # c
      BY <1>32, <2>1
    <2>3. Linked(d) /\ t[j].toGateIdx = toOS[d]
      BY <1>25, <2>2
    <2>4. Linked(d)' /\ t[j].toGateIdx = toOS'[d]
      BY <1>17, <1>19, <2>2, <2>3
    <2>5. QED
      BY <2>1, <2>2, <2>4
  <1>34. ASSUME NEW i \in 1 .. l - 1, NEW j \in 1 .. l - 1, t2[i].process = t2[j].process
         PROVE  i = j
    <2>1. PICK a \in 1 .. l : a = f[i]
      BY <1>30
    <2>2. PICK b \in 1 .. l : b = f[j]
      BY <1>30
    <2>3. t[a].process = t[b].process
      BY <1>31, <1>34, <2>1, <2>2
    <2>4. a = b
      BY <1>25, <2>3
    <2>5. QED
      BY <1>31, <2>1, <2>2, <2>4
  <1>35. ASSUME NEW d \in Containers, Linked(d)' PROVE \E i \in 1 .. l - 1 : t2[i].process = d
    <2>1. Linked(d) /\ d # c
      BY <1>19, <1>35
    <2>2. PICK j \in 1 .. l : t[j].process = d
      BY <1>25, <2>1
    <2>3. j # k
      BY <1>26, <2>1, <2>2
    <2>4. PICK i \in 1 .. l - 1 : f[i] = j
      BY <1>31, <2>3
    <2>5. t2[i] = t[j]
      BY <1>31, <2>4
    <2>6. QED
      BY <2>2, <2>5
  <1>36. TableOK'
    BY <1>28, <1>29, <1>33, <1>34, <1>35 DEF TableOK
  <1>37. QED
    BY <1>11, <1>15, <1>17, <1>18, <1>22, <1>36 DEF GatesInv

-------------------------------------------------------------------------------
(* The messages, step by step.                                             *)

Places == {"engine", "vm", "sys", "device", "app"}

\* Message s is the next one after m: at place next, through a gate linked with gate.
Follows(s, m, next, gate, trace) ==
    /\ s \in Message /\ s.job = m.job /\ s.chain = m.chain /\ s.op = m.op /\ s.resp = m.resp
    /\ s.at = next /\ s.gate = gate /\ s.trace = trace

\* The message a module passes on to the module next.
LEMMA Forwarded ==
    ASSUME NEW m \in Message, NEW out, NEW next \in Places, NEW p \in Nat, m.gate = p,
           NEW g \in Slots, mgr[out].gates[p] = g
    PROVE  Follows(Forward(m, out, next), m, next, g, Append(m.trace, p))
  <1>0. PICK u \in Seq(Nat) : u = m.trace
    BY DEF Message
  <1>1. PICK t \in Seq(Nat) : t = Append(m.trace, p)
    BY <1>0, AfterAppend
  <1>2. PICK m1 \in Message : m1 = [m EXCEPT !.at = next]
    BY DEF Message, Places
  <1>3. PICK m2 \in Message : m2 = [m1 EXCEPT !.gate = g]
    BY DEF Message, Slots
  <1>4. PICK m3 \in Message : m3 = [m2 EXCEPT !.trace = t]
    BY DEF Message
  <1>5. m3 = Forward(m, out, next)
    BY <1>1, <1>2, <1>3, <1>4 DEF Forward, Message
  <1>6. /\ m3.job = m.job /\ m3.chain = m.chain /\ m3.op = m.op /\ m3.resp = m.resp
        /\ m3.at = next /\ m3.gate = g /\ m3.trace = t
    BY <1>2, <1>3, <1>4 DEF Message
  <1>7. QED
    BY <1>1, <1>5, <1>6 DEF Follows

\* The message a module sends back to the module next.
LEMMA Returned ==
    ASSUME NEW m \in Message, NEW back, NEW next \in Places,
           mgr[back].gates[Last(m.trace)] \in Slots, Front(m.trace) \in Seq(Nat)
    PROVE  Follows(Return(m, back, next), m, next, mgr[back].gates[Last(m.trace)], Front(m.trace))
  <1>1. PICK g \in Slots : g = mgr[back].gates[Last(m.trace)]
    OBVIOUS
  <1>2. PICK t \in Seq(Nat) : t = Front(m.trace)
    OBVIOUS
  <1>3. PICK m1 \in Message : m1 = [m EXCEPT !.at = next]
    BY DEF Message, Places
  <1>4. PICK m2 \in Message : m2 = [m1 EXCEPT !.gate = g]
    BY DEF Message, Slots
  <1>5. PICK m3 \in Message : m3 = [m2 EXCEPT !.trace = t]
    BY DEF Message
  <1>6. m3 = Return(m, back, next)
    BY <1>1, <1>2, <1>3, <1>4, <1>5 DEF Return, Message
  <1>7. /\ m3.job = m.job /\ m3.chain = m.chain /\ m3.op = m.op /\ m3.resp = m.resp
        /\ m3.at = next /\ m3.gate = g /\ m3.trace = t
    BY <1>3, <1>4, <1>5 DEF Message
  <1>8. QED
    BY <1>1, <1>2, <1>6, <1>7 DEF Follows

\* The way back undoes the way there.
LEMMA LastAndFront ==
    ASSUME NEW p \in Nat, NEW q \in Seq(Nat)
    PROVE  Last(Append(q, p)) = p /\ Front(Append(q, p)) = q
  <1>1. PICK l \in Nat : l = Len(q)
    OBVIOUS
  <1>2. PICK t \in Seq(Nat) : t = Append(q, p)
    BY AppendProperties
  <1>3. Len(t) = l + 1 /\ t[l + 1] = p /\ \A i \in 1 .. l : t[i] = q[i] /\ t[i] \in Nat
    BY <1>1, <1>2, AppendProperties
  <1>4. Last(t) = p
    BY <1>3 DEF Last
  <1>5. PICK f \in Seq(Nat) : f = SubSeq(t, 1, l)
    <2>1. \A i \in 1 .. l : t[i] \in Nat
      BY <1>3
    <2>2. SubSeq(t, 1, l) \in Seq(Nat)
      BY ONLY <2>1, l \in Nat, SubSeqProperties
    <2>3. QED
      BY <2>2
  <1>6. Len(f) = l /\ \A i \in 1 .. l : f[i] = t[i]
    BY <1>3, <1>5
  <1>7. Len(f) = Len(q) /\ \A i \in 1 .. Len(f) : f[i] = q[i]
    BY <1>1, <1>3, <1>6
  <1>8. f = q
    BY <1>7, SeqEqual
  <1>9. Front(t) = f
    BY <1>3, <1>5 DEF Front
  <1>10. QED
    BY <1>2, <1>4, <1>8, <1>9

\* The same for the traces of up to three positions.
LEMMA TraceEnds ==
    ASSUME NEW p \in Nat
    PROVE  /\ Last(<<p>>) = p /\ Front(<<p>>) = <<>> /\ Append(<<>>, p) = <<p>>
           /\ Last(<<p, p>>) = p /\ Front(<<p, p>>) = <<p>> /\ Append(<<p>>, p) = <<p, p>>
           /\ Last(<<p, p, p>>) = p /\ Front(<<p, p, p>>) = <<p, p>>
           /\ Append(<<p, p>>, p) = <<p, p, p>>
           /\ <<>> \in Seq(Nat) /\ <<p>> \in Seq(Nat) /\ <<p, p>> \in Seq(Nat) /\ <<p, p, p>> \in Seq(Nat)
  <1>1. <<>> \in Seq(Nat) /\ <<p>> \in Seq(Nat) /\ <<p, p>> \in Seq(Nat) /\ <<p, p, p>> \in Seq(Nat)
    OBVIOUS
  <1>2. Append(<<>>, p) = <<p>> /\ Append(<<p>>, p) = <<p, p>> /\ Append(<<p, p>>, p) = <<p, p, p>>
    <2>1. Append(<<>>, p) = <<p>>
      OBVIOUS
    <2>2. Append(<<p>>, p) = <<p, p>>
      <3>1. PICK a \in Seq(Nat) : a = <<p>> /\ Len(a) = 1 /\ a[1] = p
        BY <1>1
      <3>2. PICK b \in Seq(Nat) : b = Append(a, p)
        BY AppendProperties
      <3>3. PICK c \in Seq(Nat) : c = <<p, p>> /\ Len(c) = 2 /\ c[1] = p /\ c[2] = p
        BY <1>1
      <3>4. Len(b) = Len(c) /\ \A i \in 1 .. Len(b) : b[i] = c[i]
        BY <3>1, <3>2, <3>3
      <3>5. QED
        BY <3>1, <3>2, <3>3, <3>4, SeqEqual
    <2>3. Append(<<p, p>>, p) = <<p, p, p>>
      <3>1. PICK a \in Seq(Nat) : a = <<p, p>> /\ Len(a) = 2 /\ a[1] = p /\ a[2] = p
        BY <1>1
      <3>2. PICK b \in Seq(Nat) : b = Append(a, p)
        BY AppendProperties
      <3>3. PICK c \in Seq(Nat) : c = <<p, p, p>> /\ Len(c) = 3 /\ c[1] = p /\ c[2] = p /\ c[3] = p
        BY <1>1
      <3>4. Len(b) = Len(c) /\ \A i \in 1 .. Len(b) : b[i] = c[i]
        BY <3>1, <3>2, <3>3
      <3>5. QED
        BY <3>1, <3>2, <3>3, <3>4, SeqEqual
    <2>4. QED
      BY <2>1, <2>2, <2>3
  <1>3. Last(Append(<<>>, p)) = p /\ Front(Append(<<>>, p)) = <<>>
    BY <1>1, LastAndFront
  <1>4. Last(Append(<<p>>, p)) = p /\ Front(Append(<<p>>, p)) = <<p>>
    BY <1>1, LastAndFront
  <1>5. Last(Append(<<p, p>>, p)) = p /\ Front(Append(<<p, p>>, p)) = <<p, p>>
    BY <1>1, LastAndFront
  <1>6. QED
    BY <1>1, <1>2, <1>3, <1>4, <1>5

\* How a counter changes.
LEMMA CountedFacts ==
    ASSUME NEW pending \in [Kinds -> Int], NEW m \in Message, NEW quantity \in Int
    PROVE  /\ Counted(pending, m, quantity) \in [Kinds -> Int]
           /\ \A k \in Kinds : Counted(pending, m, quantity)[k]
                                 = pending[k] + (IF Kind(m) = k THEN quantity ELSE 0)
  <1>1. Kind(m) \in Kinds
    BY DEF Kind, Kinds
  <1>2. QED
    BY <1>1 DEF Counted

\* A message is on its way to or from a linked container, whose gates are at its position.
LEMMA MessageFacts ==
    ASSUME GatesInv, TrafficInv, fault = "none", NEW m \in msgs
    PROVE  /\ m \in Message /\ m.job \in Containers /\ phase[m.job] = "running"
           /\ Linked(m.job) /\ toOS[m.job] \in Nat /\ OnItsWay(m, toOS[m.job])
           /\ \A v \in Managers : mgr[v].gates[toOS[m.job]] = Behind(v, m.job, toOS[m.job])
  <1>1. m \in Message /\ m.job \in Containers
    BY DEF TrafficInv, TrafficTypeOK, Message
  <1>2. phase[m.job] = "running" /\ OnItsWay(m, toOS[m.job])
    BY DEF TrafficInv, MsgsOK
  <1>3. Linked(m.job)
    BY <1>2 DEF Linked
  <1>4. /\ toOS[m.job] \in 1 .. NumGates
        /\ \A v \in Managers : mgr[v].gates[toOS[m.job]] = Behind(v, m.job, toOS[m.job])
    BY <1>1, <1>3 DEF GatesInv, PositionsHeld
  <1>5. NumGates \in Nat
    BY DEF GatesInv, VectorsShaped
  <1>6. QED
    BY <1>1, <1>2, <1>3, <1>4, <1>5

\* A step that replaces message m by s, the next one of its chain, when the counters change by
\* what the two messages add to them.
Replaces(m, s) ==
    /\ fault = "none" /\ m \in msgs /\ s \in Message
    /\ s.job = m.job /\ s.chain = m.chain /\ OnItsWay(s, toOS[s.job])
    /\ msgs' = (msgs \ {m}) \cup {s}
    /\ toOS' = toOS /\ phase' = phase /\ hits' = hits /\ fault' = fault
    /\ enginePending' \in [Kinds -> Int] /\ vmPending' \in [Kinds -> Int]
    /\ \A k \in Kinds :
        /\ vmPending'[k] = vmPending[k] - Share("vm", k, m) + Share("vm", k, s)
        /\ enginePending'[k] = enginePending[k] - Share("engine", k, m) + Share("engine", k, s)

\* Such a step keeps the invariant.
LEMMA MessageReplaced ==
    ASSUME GatesInv, TrafficInv, NEW m, NEW s, Replaces(m, s)
    PROVE  TrafficInv'
  <1> USE DEF Replaces
  <1>1. /\ msgs \subseteq Message /\ IsFiniteSet(msgs) /\ hits \in [Servers -> 0 .. MaxHits]
    BY DEF TrafficInv, TrafficTypeOK
  <1>2. TrafficTypeOK'
    <2>1. IsFiniteSet(msgs \ {m})
      BY <1>1, FS_RemoveElement
    <2>2. IsFiniteSet((msgs \ {m}) \cup {s})
      BY <2>1, FS_AddElement
    <2>3. QED
      BY <1>1, <2>2 DEF TrafficTypeOK
  <1>3. /\ \A x \in msgs : phase[x.job] = "running" /\ OnItsWay(x, toOS[x.job])
        /\ \A x \in msgs : /\ x.job \in Intensive => x.chain = 1
                           /\ x.job \in Servers => x.chain <= hits[x.job]
        /\ \A m1, m2 \in msgs : m1.job = m2.job /\ m1.chain = m2.chain => m1 = m2
    BY DEF TrafficInv, MsgsOK
  <1>4. \A x \in msgs : x # m => ~(x.job = s.job /\ x.chain = s.chain)
    BY <1>3
  <1>5. s \notin msgs \ {m}
    BY <1>4
  <1>6. MsgsOK'
    <2>1. \A x \in msgs' : phase[x.job] = "running" /\ OnItsWay(x, toOS[x.job])
      BY <1>3
    <2>2. \A x \in msgs' : /\ x.job \in Intensive => x.chain = 1
                           /\ x.job \in Servers => x.chain <= hits[x.job]
      BY <1>3
    <2>3. \A m1, m2 \in msgs' : m1.job = m2.job /\ m1.chain = m2.chain => m1 = m2
      BY <1>3, <1>4
    <2>4. QED
      BY <2>1, <2>2, <2>3 DEF MsgsOK
  <1>7. ResponseReachesSender'
    <2>1. \A x \in msgs' : x.at = "app" => x.gate = x.job /\ phase[x.job] = "running"
      BY <1>3 DEF OnItsWay
    <2>2. QED
      BY <2>1 DEF ResponseReachesSender
  <1>8. CountersExact'
    <2>1. ASSUME NEW k \in Kinds
          PROVE  /\ vmPending'[k] = Cardinality(Beyond({"sys", "device"}, k)'
                                      \cup {x \in Beyond({"vm"}, k)' : x.resp})
                 /\ enginePending'[k] = Cardinality(Beyond({"vm", "sys", "device"}, k)'
                                          \cup {x \in Beyond({"engine"}, k)' : x.resp})
      <3>1. /\ vmPending[k] = Cardinality(Past("vm", k, msgs))
            /\ enginePending[k] = Cardinality(Past("engine", k, msgs))
        BY CountedSets DEF TrafficInv, CountersExact
      <3>2. /\ Cardinality(Past("vm", k, (msgs \ {m}) \cup {s}))
                 = Cardinality(Past("vm", k, msgs)) - Share("vm", k, m) + Share("vm", k, s)
            /\ Cardinality(Past("engine", k, (msgs \ {m}) \cup {s}))
                 = Cardinality(Past("engine", k, msgs)) - Share("engine", k, m) + Share("engine", k, s)
        BY <1>1, <1>5, SharesAddUp
      <3>3. /\ vmPending'[k] = Cardinality(Past("vm", k, msgs'))
            /\ enginePending'[k] = Cardinality(Past("engine", k, msgs'))
        BY <3>1, <3>2
      <3>4. /\ Beyond({"sys", "device"}, k)' \cup {x \in Beyond({"vm"}, k)' : x.resp} = Past("vm", k, msgs')
            /\ Beyond({"vm", "sys", "device"}, k)' \cup {x \in Beyond({"engine"}, k)' : x.resp}
                 = Past("engine", k, msgs')
        BY DEF Beyond, Past, InTransit
      <3>5. QED
        BY <3>3, <3>4
    <2>2. QED
      BY <2>1 DEF CountersExact
  <1>9. QED
    BY <1>2, <1>6, <1>7, <1>8 DEF TrafficInv

\* The engine counts a request and sends it to the machine.
LEMMA EngineRequestKept ==
    ASSUME GatesInv, TrafficInv, NEW m \in msgs, EngineRequest(m)
    PROVE  TrafficInv' /\ UNCHANGED <<linkVars, phase>>
  <1>1. /\ fault = "none" /\ m.at = "engine" /\ m.resp = FALSE
        /\ msgs' = (msgs \ {m}) \cup {Forward(m, "engToVm", "vm")}
        /\ fault' = IF Forward(m, "engToVm", "vm").gate = Free THEN "gate not connected" ELSE fault
        /\ enginePending' = Counted(enginePending, m, 1) /\ vmPending' = vmPending
        /\ linkVars' = linkVars /\ appVars' = appVars
    BY Zenon DEF EngineRequest, At, Send
  <1>2. toOS' = toOS /\ phase' = phase /\ hits' = hits
    BY <1>1 DEF linkVars, appVars
  <1>3. /\ m \in Message /\ m.job \in Containers /\ toOS[m.job] \in Nat /\ OnItsWay(m, toOS[m.job])
        /\ \A v \in Managers : mgr[v].gates[toOS[m.job]] = Behind(v, m.job, toOS[m.job])
    BY <1>1, MessageFacts
  <1>4. PICK p \in Nat : p = toOS[m.job]
    BY <1>3
  <1>5. PICK c \in Containers : c = m.job
    BY <1>3
  <1>6. m.gate = p /\ m.trace = <<>>
    BY <1>1, <1>3, <1>4 DEF OnItsWay
  <1>7. mgr["engToVm"].gates[p] = p
    BY <1>3, <1>4, <1>5 DEF Behind, Managers
  <1>8. p \in Slots /\ p # Free /\ "vm" \in Places
    BY ContainersAssumption DEF Slots, Places
  <1>9. PICK s : s = Forward(m, "engToVm", "vm")
    OBVIOUS
  <1>10. /\ s \in Message /\ s.job = m.job /\ s.chain = m.chain /\ s.op = m.op /\ s.resp = m.resp
         /\ s.at = "vm" /\ s.gate = p /\ s.trace = <<p>>
    <2>1. Append(<<>>, p) = <<p>>
      BY TraceEnds
    <2>2. m \in Message /\ "vm" \in Places /\ p \in Slots
      BY <1>3, <1>8
    <2>3. Follows(s, m, "vm", p, Append(<<>>, p))
      BY <1>6, <1>7, <1>9, <2>2, Forwarded
    <2>4. QED
      BY <2>1, <2>3 DEF Follows
  <1>11. fault' = fault
    BY <1>1, <1>8, <1>9, <1>10
  <1>12. OnItsWay(s, toOS[s.job])
    BY <1>1, <1>4, <1>5, <1>10 DEF OnItsWay
  <1>13. enginePending \in [Kinds -> Int] /\ vmPending \in [Kinds -> Int]
    BY DEF TrafficInv, TrafficTypeOK
  <1>14. 1 \in Int
    OBVIOUS
  <1>15. /\ enginePending' \in [Kinds -> Int]
         /\ \A k \in Kinds : enginePending'[k] = enginePending[k] + (IF Kind(m) = k THEN 1 ELSE 0)
    <2>1. enginePending' = Counted(enginePending, m, 1) /\ m \in Message
      BY <1>1, <1>3
    <2>2. /\ Counted(enginePending, m, 1) \in [Kinds -> Int]
          /\ \A k \in Kinds : Counted(enginePending, m, 1)[k]
                                 = enginePending[k] + (IF Kind(m) = k THEN 1 ELSE 0)
      BY ONLY <1>13, <1>14, <2>1, CountedFacts
    <2>3. QED
      BY ONLY <2>1, <2>2
  <1>16. ASSUME NEW k \in Kinds
         PROVE  /\ vmPending'[k] = vmPending[k] - Share("vm", k, m) + Share("vm", k, s)
                /\ enginePending'[k] = enginePending[k] - Share("engine", k, m) + Share("engine", k, s)
    <2>1. Kind(s) = Kind(m)
      BY <1>10 DEF Kind
    <2>2. vmPending[k] \in Int /\ enginePending[k] \in Int
      BY <1>13
    <2>3. /\ Share("vm", k, m) = 0 /\ Share("engine", k, m) = 0
          /\ Share("vm", k, s) = 0 /\ Share("engine", k, s) = (IF Kind(m) = k THEN 1 ELSE 0)
      BY <1>1, <1>10, <2>1 DEF Share, InTransit
    <2>4. /\ enginePending'[k] = enginePending[k] + (IF Kind(m) = k THEN 1 ELSE 0)
          /\ vmPending'[k] = vmPending[k]
      BY <1>1, <1>15
    <2>5. QED
      BY ONLY <2>2, <2>3, <2>4
  <1>17. msgs' = (msgs \ {m}) \cup {s}
    BY <1>1, <1>9
  <1>18. TrafficInv'
    <2>1. Replaces(m, s)
      BY <1>1, <1>2, <1>10, <1>11, <1>12, <1>13, <1>15, <1>16, <1>17 DEF Replaces
    <2>2. QED
      BY <1>1, <1>2, <2>1, MessageReplaced
  <1>19. QED
    BY <1>1, <1>2, <1>18

\* The machine counts a request and sends it to its system calls.
LEMMA VmRequestKept ==
    ASSUME GatesInv, TrafficInv, NEW m \in msgs, VmRequest(m)
    PROVE  TrafficInv' /\ UNCHANGED <<linkVars, phase>>
  <1>1. /\ fault = "none" /\ m.at = "vm" /\ m.resp = FALSE
        /\ msgs' = (msgs \ {m}) \cup {Forward(m, "vmToOS", "sys")}
        /\ fault' = IF Forward(m, "vmToOS", "sys").gate = Free THEN "gate not connected" ELSE fault
        /\ vmPending' = Counted(vmPending, m, 1) /\ enginePending' = enginePending
        /\ linkVars' = linkVars /\ appVars' = appVars
    BY Zenon DEF VmRequest, At, Send
  <1>2. toOS' = toOS /\ phase' = phase /\ hits' = hits
    BY <1>1 DEF linkVars, appVars
  <1>3. /\ m \in Message /\ m.job \in Containers /\ toOS[m.job] \in Nat /\ OnItsWay(m, toOS[m.job])
        /\ \A v \in Managers : mgr[v].gates[toOS[m.job]] = Behind(v, m.job, toOS[m.job])
    BY <1>1, MessageFacts
  <1>4. PICK p \in Nat : p = toOS[m.job]
    BY <1>3
  <1>5. PICK c \in Containers : c = m.job
    BY <1>3
  <1>6. m.gate = p /\ m.trace = <<p>>
    BY <1>1, <1>3, <1>4 DEF OnItsWay
  <1>7. mgr["vmToOS"].gates[p] = p
    BY <1>3, <1>4, <1>5 DEF Behind, Managers
  <1>8. p \in Slots /\ p # Free /\ "sys" \in Places
    BY ContainersAssumption DEF Slots, Places
  <1>9. PICK s : s = Forward(m, "vmToOS", "sys")
    OBVIOUS
  <1>10. /\ s \in Message /\ s.job = m.job /\ s.chain = m.chain /\ s.op = m.op /\ s.resp = m.resp
         /\ s.at = "sys" /\ s.gate = p /\ s.trace = <<p, p>>
    <2>1. Append(<<p>>, p) = <<p, p>>
      BY TraceEnds
    <2>2. m \in Message /\ "sys" \in Places /\ p \in Slots
      BY <1>3, <1>8
    <2>3. Follows(s, m, "sys", p, Append(<<p>>, p))
      BY <1>6, <1>7, <1>9, <2>2, Forwarded
    <2>4. QED
      BY <2>1, <2>3 DEF Follows
  <1>11. fault' = fault
    BY <1>1, <1>8, <1>9, <1>10
  <1>12. OnItsWay(s, toOS[s.job])
    BY <1>1, <1>4, <1>5, <1>10 DEF OnItsWay
  <1>13. enginePending \in [Kinds -> Int] /\ vmPending \in [Kinds -> Int]
    BY DEF TrafficInv, TrafficTypeOK
  <1>14. 1 \in Int
    OBVIOUS
  <1>15. /\ vmPending' \in [Kinds -> Int]
         /\ \A k \in Kinds : vmPending'[k] = vmPending[k] + (IF Kind(m) = k THEN 1 ELSE 0)
    <2>1. vmPending' = Counted(vmPending, m, 1) /\ m \in Message
      BY <1>1, <1>3
    <2>2. /\ Counted(vmPending, m, 1) \in [Kinds -> Int]
          /\ \A k \in Kinds : Counted(vmPending, m, 1)[k]
                                 = vmPending[k] + (IF Kind(m) = k THEN 1 ELSE 0)
      BY ONLY <1>13, <1>14, <2>1, CountedFacts
    <2>3. QED
      BY ONLY <2>1, <2>2
  <1>16. ASSUME NEW k \in Kinds
         PROVE  /\ vmPending'[k] = vmPending[k] - Share("vm", k, m) + Share("vm", k, s)
                /\ enginePending'[k] = enginePending[k] - Share("engine", k, m) + Share("engine", k, s)
    <2>1. Kind(s) = Kind(m)
      BY <1>10 DEF Kind
    <2>2. vmPending[k] \in Int /\ enginePending[k] \in Int
      BY <1>13
    <2>3. /\ Share("vm", k, m) = 0 /\ Share("engine", k, m) = (IF Kind(m) = k THEN 1 ELSE 0)
          /\ Share("vm", k, s) = (IF Kind(m) = k THEN 1 ELSE 0) /\ Share("engine", k, s) = (IF Kind(m) = k THEN 1 ELSE 0)
      BY <1>1, <1>10, <2>1 DEF Share, InTransit
    <2>4. /\ vmPending'[k] = vmPending[k] + (IF Kind(m) = k THEN 1 ELSE 0)
          /\ enginePending'[k] = enginePending[k]
      BY <1>1, <1>15
    <2>5. QED
      BY ONLY <2>2, <2>3, <2>4
  <1>17. msgs' = (msgs \ {m}) \cup {s}
    BY <1>1, <1>9
  <1>18. TrafficInv'
    <2>1. Replaces(m, s)
      BY <1>1, <1>2, <1>10, <1>11, <1>12, <1>13, <1>15, <1>16, <1>17 DEF Replaces
    <2>2. QED
      BY <1>1, <1>2, <2>1, MessageReplaced
  <1>19. QED
    BY <1>1, <1>2, <1>18

\* The machine counts a response and sends it to the engine.
LEMMA VmResponseKept ==
    ASSUME GatesInv, TrafficInv, NEW m \in msgs, VmResponse(m)
    PROVE  TrafficInv' /\ UNCHANGED <<linkVars, phase>>
  <1>1. /\ fault = "none" /\ m.at = "vm" /\ m.resp = TRUE
        /\ msgs' = (msgs \ {m}) \cup {Return(m, "vmToEngine", "engine")}
        /\ fault' = IF Return(m, "vmToEngine", "engine").gate = Free THEN "gate not connected" ELSE fault
        /\ vmPending' = Counted(vmPending, m, -1) /\ enginePending' = enginePending
        /\ linkVars' = linkVars /\ appVars' = appVars
    BY Zenon DEF VmResponse, At, Send
  <1>2. toOS' = toOS /\ phase' = phase /\ hits' = hits
    BY <1>1 DEF linkVars, appVars
  <1>3. /\ m \in Message /\ m.job \in Containers /\ toOS[m.job] \in Nat /\ OnItsWay(m, toOS[m.job])
        /\ \A v \in Managers : mgr[v].gates[toOS[m.job]] = Behind(v, m.job, toOS[m.job])
    BY <1>1, MessageFacts
  <1>4. PICK p \in Nat : p = toOS[m.job]
    BY <1>3
  <1>5. PICK c \in Containers : c = m.job
    BY <1>3
  <1>6. m.trace = <<p, p>>
    BY <1>1, <1>3, <1>4 DEF OnItsWay
  <1>7. mgr["vmToEngine"].gates[p] = p
    BY <1>3, <1>4, <1>5 DEF Behind, Managers
  <1>8. p \in Slots /\ p # Free /\ "engine" \in Places
    BY ContainersAssumption DEF Slots, Places
  <1>9. PICK s : s = Return(m, "vmToEngine", "engine")
    OBVIOUS
  <1>10. /\ s \in Message /\ s.job = m.job /\ s.chain = m.chain /\ s.op = m.op /\ s.resp = m.resp
         /\ s.at = "engine" /\ s.gate = p /\ s.trace = <<p>>
    <2>1. Last(<<p, p>>) = p /\ Front(<<p, p>>) = <<p>> /\ <<p>> \in Seq(Nat)
      BY TraceEnds
    <2>2. mgr["vmToEngine"].gates[Last(m.trace)] = p /\ Front(m.trace) = <<p>>
      BY <1>6, <1>7, <2>1
    <2>3. mgr["vmToEngine"].gates[Last(m.trace)] \in Slots /\ Front(m.trace) \in Seq(Nat)
      BY <1>8, <2>1, <2>2
    <2>4. m \in Message /\ "engine" \in Places
      BY <1>3, <1>8
    <2>5. Follows(Return(m, "vmToEngine", "engine"), m, "engine",
                  mgr["vmToEngine"].gates[Last(m.trace)], Front(m.trace))
      BY ONLY <2>3, <2>4, Returned
    <2>6. QED
      BY <1>9, <2>2, <2>5 DEF Follows
  <1>11. fault' = fault
    BY <1>1, <1>8, <1>9, <1>10
  <1>12. OnItsWay(s, toOS[s.job])
    BY <1>1, <1>4, <1>5, <1>10 DEF OnItsWay
  <1>13. enginePending \in [Kinds -> Int] /\ vmPending \in [Kinds -> Int]
    BY DEF TrafficInv, TrafficTypeOK
  <1>14. -1 \in Int
    OBVIOUS
  <1>15. /\ vmPending' \in [Kinds -> Int]
         /\ \A k \in Kinds : vmPending'[k] = vmPending[k] + (IF Kind(m) = k THEN -1 ELSE 0)
    <2>1. vmPending' = Counted(vmPending, m, -1) /\ m \in Message
      BY <1>1, <1>3
    <2>2. /\ Counted(vmPending, m, -1) \in [Kinds -> Int]
          /\ \A k \in Kinds : Counted(vmPending, m, -1)[k]
                                 = vmPending[k] + (IF Kind(m) = k THEN -1 ELSE 0)
      BY ONLY <1>13, <1>14, <2>1, CountedFacts
    <2>3. QED
      BY ONLY <2>1, <2>2
  <1>16. ASSUME NEW k \in Kinds
         PROVE  /\ vmPending'[k] = vmPending[k] - Share("vm", k, m) + Share("vm", k, s)
                /\ enginePending'[k] = enginePending[k] - Share("engine", k, m) + Share("engine", k, s)
    <2>1. Kind(s) = Kind(m)
      BY <1>10 DEF Kind
    <2>2. vmPending[k] \in Int /\ enginePending[k] \in Int
      BY <1>13
    <2>3. /\ Share("vm", k, m) = (IF Kind(m) = k THEN 1 ELSE 0) /\ Share("engine", k, m) = (IF Kind(m) = k THEN 1 ELSE 0)
          /\ Share("vm", k, s) = 0 /\ Share("engine", k, s) = (IF Kind(m) = k THEN 1 ELSE 0)
      BY <1>1, <1>10, <2>1 DEF Share, InTransit
    <2>4. /\ vmPending'[k] = vmPending[k] + (IF Kind(m) = k THEN -1 ELSE 0)
          /\ enginePending'[k] = enginePending[k]
      BY <1>1, <1>15
    <2>5. QED
      BY ONLY <2>2, <2>3, <2>4
  <1>17. msgs' = (msgs \ {m}) \cup {s}
    BY <1>1, <1>9
  <1>18. TrafficInv'
    <2>1. Replaces(m, s)
      BY <1>1, <1>2, <1>10, <1>11, <1>12, <1>13, <1>15, <1>16, <1>17 DEF Replaces
    <2>2. QED
      BY <1>1, <1>2, <2>1, MessageReplaced
  <1>19. QED
    BY <1>1, <1>2, <1>18

\* The engine counts a response and sends it to the container.
LEMMA EngineResponseKept ==
    ASSUME GatesInv, TrafficInv, NEW m \in msgs, EngineResponse(m)
    PROVE  TrafficInv' /\ UNCHANGED <<linkVars, phase>>
  <1>1. /\ fault = "none" /\ m.at = "engine" /\ m.resp = TRUE
        /\ msgs' = (msgs \ {m}) \cup {Return(m, "engToContainers", "app")}
        /\ fault' = IF Return(m, "engToContainers", "app").gate = Free THEN "gate not connected" ELSE fault
        /\ enginePending' = Counted(enginePending, m, -1) /\ vmPending' = vmPending
        /\ linkVars' = linkVars /\ appVars' = appVars
    BY Zenon DEF EngineResponse, At, Send
  <1>2. toOS' = toOS /\ phase' = phase /\ hits' = hits
    BY <1>1 DEF linkVars, appVars
  <1>3. /\ m \in Message /\ m.job \in Containers /\ toOS[m.job] \in Nat /\ OnItsWay(m, toOS[m.job])
        /\ \A v \in Managers : mgr[v].gates[toOS[m.job]] = Behind(v, m.job, toOS[m.job])
    BY <1>1, MessageFacts
  <1>4. PICK p \in Nat : p = toOS[m.job]
    BY <1>3
  <1>5. PICK c \in Containers : c = m.job
    BY <1>3
  <1>6. m.trace = <<p>>
    BY <1>1, <1>3, <1>4 DEF OnItsWay
  <1>7. mgr["engToContainers"].gates[p] = c
    BY <1>3, <1>4, <1>5 DEF Behind, Managers
  <1>8. c \in Slots /\ c # Free /\ "app" \in Places
    BY ContainersAssumption DEF Slots, Places
  <1>9. PICK s : s = Return(m, "engToContainers", "app")
    OBVIOUS
  <1>10. /\ s \in Message /\ s.job = m.job /\ s.chain = m.chain /\ s.op = m.op /\ s.resp = m.resp
         /\ s.at = "app" /\ s.gate = c /\ s.trace = <<>>
    <2>1. Last(<<p>>) = p /\ Front(<<p>>) = <<>> /\ <<>> \in Seq(Nat)
      BY TraceEnds
    <2>2. mgr["engToContainers"].gates[Last(m.trace)] = c /\ Front(m.trace) = <<>>
      BY <1>6, <1>7, <2>1
    <2>3. mgr["engToContainers"].gates[Last(m.trace)] \in Slots /\ Front(m.trace) \in Seq(Nat)
      BY <1>8, <2>1, <2>2
    <2>4. m \in Message /\ "app" \in Places
      BY <1>3, <1>8
    <2>5. Follows(Return(m, "engToContainers", "app"), m, "app",
                  mgr["engToContainers"].gates[Last(m.trace)], Front(m.trace))
      BY ONLY <2>3, <2>4, Returned
    <2>6. QED
      BY <1>9, <2>2, <2>5 DEF Follows
  <1>11. fault' = fault
    BY <1>1, <1>8, <1>9, <1>10
  <1>12. OnItsWay(s, toOS[s.job])
    BY <1>1, <1>4, <1>5, <1>10 DEF OnItsWay
  <1>13. enginePending \in [Kinds -> Int] /\ vmPending \in [Kinds -> Int]
    BY DEF TrafficInv, TrafficTypeOK
  <1>14. -1 \in Int
    OBVIOUS
  <1>15. /\ enginePending' \in [Kinds -> Int]
         /\ \A k \in Kinds : enginePending'[k] = enginePending[k] + (IF Kind(m) = k THEN -1 ELSE 0)
    <2>1. enginePending' = Counted(enginePending, m, -1) /\ m \in Message
      BY <1>1, <1>3
    <2>2. /\ Counted(enginePending, m, -1) \in [Kinds -> Int]
          /\ \A k \in Kinds : Counted(enginePending, m, -1)[k]
                                 = enginePending[k] + (IF Kind(m) = k THEN -1 ELSE 0)
      BY ONLY <1>13, <1>14, <2>1, CountedFacts
    <2>3. QED
      BY ONLY <2>1, <2>2
  <1>16. ASSUME NEW k \in Kinds
         PROVE  /\ vmPending'[k] = vmPending[k] - Share("vm", k, m) + Share("vm", k, s)
                /\ enginePending'[k] = enginePending[k] - Share("engine", k, m) + Share("engine", k, s)
    <2>1. Kind(s) = Kind(m)
      BY <1>10 DEF Kind
    <2>2. vmPending[k] \in Int /\ enginePending[k] \in Int
      BY <1>13
    <2>3. /\ Share("vm", k, m) = 0 /\ Share("engine", k, m) = (IF Kind(m) = k THEN 1 ELSE 0)
          /\ Share("vm", k, s) = 0 /\ Share("engine", k, s) = 0
      BY <1>1, <1>10, <2>1 DEF Share, InTransit
    <2>4. /\ enginePending'[k] = enginePending[k] + (IF Kind(m) = k THEN -1 ELSE 0)
          /\ vmPending'[k] = vmPending[k]
      BY <1>1, <1>15
    <2>5. QED
      BY ONLY <2>2, <2>3, <2>4
  <1>17. msgs' = (msgs \ {m}) \cup {s}
    BY <1>1, <1>9
  <1>18. TrafficInv'
    <2>1. Replaces(m, s)
      BY <1>1, <1>2, <1>10, <1>11, <1>12, <1>13, <1>15, <1>16, <1>17 DEF Replaces
    <2>2. QED
      BY <1>1, <1>2, <2>1, MessageReplaced
  <1>19. QED
    BY <1>1, <1>2, <1>18

\* The system calls give a request to the device.
LEMMA SysRequestKept ==
    ASSUME GatesInv, TrafficInv, NEW m \in msgs, SysRequest(m)
    PROVE  TrafficInv' /\ UNCHANGED <<linkVars, phase>>
  <1> DEFINE sent == [m EXCEPT !.at = "device", !.gate = 0, !.trace = Append(@, m.gate)]
  <1>1. /\ fault = "none" /\ m.at = "sys" /\ m.resp = FALSE
        /\ msgs' = (msgs \ {m}) \cup {sent}
        /\ fault' = fault /\ enginePending' = enginePending /\ vmPending' = vmPending
        /\ linkVars' = linkVars /\ appVars' = appVars
    BY Zenon DEF SysRequest, At
  <1>2. toOS' = toOS /\ phase' = phase /\ hits' = hits
    BY <1>1 DEF linkVars, appVars
  <1>3. m \in Message /\ m.job \in Containers /\ toOS[m.job] \in Nat /\ OnItsWay(m, toOS[m.job])
    BY <1>1, MessageFacts
  <1>4. PICK p \in Nat : p = toOS[m.job]
    BY <1>3
  <1>5. m.gate = p /\ m.trace = <<p, p>>
    BY <1>1, <1>3, <1>4 DEF OnItsWay
  <1>6. PICK t \in Seq(Nat) : t = <<p, p, p>> /\ t = Append(m.trace, m.gate)
    <2>1. Append(<<p, p>>, p) = <<p, p, p>> /\ <<p, p, p>> \in Seq(Nat)
      BY TraceEnds
    <2>2. Append(m.trace, m.gate) = Append(<<p, p>>, p)
      BY <1>5
    <2>3. QED
      BY ONLY <2>1, <2>2
  <1>7. PICK m1 \in Message : m1 = [m EXCEPT !.at = "device"]
    BY <1>3 DEF Message
  <1>8. PICK m2 \in Message : m2 = [m1 EXCEPT !.gate = 0]
    BY DEF Message
  <1>9. PICK s \in Message : s = [m2 EXCEPT !.trace = t]
    BY DEF Message
  <1>10. s = sent
    BY <1>3, <1>6, <1>7, <1>8, <1>9 DEF Message
  <1>11. /\ s.job = m.job /\ s.chain = m.chain /\ s.op = m.op /\ s.resp = m.resp
         /\ s.at = "device" /\ s.gate = 0 /\ s.trace = <<p, p, p>>
    <2>1. /\ s.job = m.job /\ s.chain = m.chain /\ s.op = m.op /\ s.resp = m.resp
          /\ s.at = "device" /\ s.gate = 0 /\ s.trace = t
      <3>1. m \in Message
        BY <1>3
      <3>2. QED
        BY ONLY <1>7, <1>8, <1>9, <3>1 DEF Message
    <2>2. QED
      BY ONLY <1>6, <2>1
  <1> HIDE DEF sent
  <1>12. OnItsWay(s, toOS[s.job])
    BY <1>1, <1>4, <1>11 DEF OnItsWay
  <1>13. enginePending \in [Kinds -> Int] /\ vmPending \in [Kinds -> Int]
    BY DEF TrafficInv, TrafficTypeOK
  <1>14. ASSUME NEW k \in Kinds
         PROVE  /\ vmPending'[k] = vmPending[k] - Share("vm", k, m) + Share("vm", k, s)
                /\ enginePending'[k] = enginePending[k] - Share("engine", k, m) + Share("engine", k, s)
    <2>1. Kind(s) = Kind(m)
      BY <1>11 DEF Kind
    <2>2. vmPending[k] \in Int /\ enginePending[k] \in Int
      BY <1>13
    <2>3. /\ Share("vm", k, m) = Share("vm", k, s) /\ Share("engine", k, m) = Share("engine", k, s)
          /\ Share("vm", k, m) \in Int /\ Share("engine", k, m) \in Int
      BY <1>1, <1>11, <2>1 DEF Share, InTransit
    <2>4. vmPending'[k] = vmPending[k] /\ enginePending'[k] = enginePending[k]
      BY <1>1
    <2>5. QED
      BY ONLY <2>2, <2>3, <2>4
  <1>15. msgs' = (msgs \ {m}) \cup {s}
    BY <1>1, <1>10
  <1>16. TrafficInv'
    <2>1. Replaces(m, s)
      BY <1>1, <1>2, <1>11, <1>12, <1>13, <1>14, <1>15 DEF Replaces
    <2>2. QED
      BY <1>1, <1>2, <2>1, MessageReplaced
  <1>17. QED
    BY <1>1, <1>2, <1>16

\* The answer of the device is sent to the machine.
LEMMA SysResponseKept ==
    ASSUME GatesInv, TrafficInv, NEW m \in msgs, SysResponse(m)
    PROVE  TrafficInv' /\ UNCHANGED <<linkVars, phase>>
  <1> DEFINE sent == [Return(m, "sysTo", "vm") EXCEPT !.resp = TRUE]
  <1>1. /\ fault = "none" /\ m.at = "device" /\ m.resp = FALSE
        /\ msgs' = (msgs \ {m}) \cup {sent}
        /\ fault' = IF sent.gate = Free THEN "gate not connected" ELSE fault
        /\ enginePending' = enginePending /\ vmPending' = vmPending
        /\ linkVars' = linkVars /\ appVars' = appVars
    BY Zenon DEF SysResponse, At, Send
  <1>2. toOS' = toOS /\ phase' = phase /\ hits' = hits
    BY <1>1 DEF linkVars, appVars
  <1>3. /\ m \in Message /\ m.job \in Containers /\ toOS[m.job] \in Nat /\ OnItsWay(m, toOS[m.job])
        /\ \A v \in Managers : mgr[v].gates[toOS[m.job]] = Behind(v, m.job, toOS[m.job])
    BY <1>1, MessageFacts
  <1>4. PICK p \in Nat : p = toOS[m.job]
    BY <1>3
  <1>5. m.trace = <<p, p, p>>
    BY <1>1, <1>3, <1>4 DEF OnItsWay
  <1>6. mgr["sysTo"].gates[p] = p
    BY <1>3, <1>4 DEF Behind, Managers
  <1>7. p \in Slots /\ p # Free /\ "vm" \in Places
    BY ContainersAssumption DEF Slots, Places
  <1>8. PICK r : r = Return(m, "sysTo", "vm")
    OBVIOUS
  <1>9. Follows(r, m, "vm", p, <<p, p>>)
    <2>1. Last(<<p, p, p>>) = p /\ Front(<<p, p, p>>) = <<p, p>> /\ <<p, p>> \in Seq(Nat)
      BY TraceEnds
    <2>2. mgr["sysTo"].gates[Last(m.trace)] = p /\ Front(m.trace) = <<p, p>>
      BY <1>5, <1>6, <2>1
    <2>3. mgr["sysTo"].gates[Last(m.trace)] \in Slots /\ Front(m.trace) \in Seq(Nat)
      BY <1>7, <2>1, <2>2
    <2>4. m \in Message /\ "vm" \in Places
      BY <1>3, <1>7
    <2>5. Follows(Return(m, "sysTo", "vm"), m, "vm", mgr["sysTo"].gates[Last(m.trace)], Front(m.trace))
      BY ONLY <2>3, <2>4, Returned
    <2>6. QED
      BY <1>8, <2>2, <2>5
  <1>10. PICK s \in Message : s = [r EXCEPT !.resp = TRUE]
    BY <1>9 DEF Follows, Message
  <1>11. s = sent
    BY <1>8, <1>10
  <1>12. /\ s.job = m.job /\ s.chain = m.chain /\ s.op = m.op /\ s.resp = TRUE
         /\ s.at = "vm" /\ s.gate = p /\ s.trace = <<p, p>>
    BY <1>9, <1>10 DEF Follows, Message
  <1> HIDE DEF sent
  <1>13. fault' = fault
    BY <1>1, <1>7, <1>11, <1>12
  <1>14. OnItsWay(s, toOS[s.job])
    BY <1>4, <1>12 DEF OnItsWay
  <1>15. enginePending \in [Kinds -> Int] /\ vmPending \in [Kinds -> Int]
    BY DEF TrafficInv, TrafficTypeOK
  <1>16. ASSUME NEW k \in Kinds
         PROVE  /\ vmPending'[k] = vmPending[k] - Share("vm", k, m) + Share("vm", k, s)
                /\ enginePending'[k] = enginePending[k] - Share("engine", k, m) + Share("engine", k, s)
    <2>1. Kind(s) = Kind(m)
      BY <1>12 DEF Kind
    <2>2. vmPending[k] \in Int /\ enginePending[k] \in Int
      BY <1>15
    <2>3. /\ Share("vm", k, m) = Share("vm", k, s) /\ Share("engine", k, m) = Share("engine", k, s)
          /\ Share("vm", k, m) \in Int /\ Share("engine", k, m) \in Int
      <3>1. /\ InTransit("vm", k, m) <=> Kind(m) = k
            /\ InTransit("engine", k, m) <=> Kind(m) = k
        BY ONLY <1>1 DEF InTransit
      <3>2. /\ InTransit("vm", k, s) <=> Kind(m) = k
            /\ InTransit("engine", k, s) <=> Kind(m) = k
        BY ONLY <1>12, <2>1 DEF InTransit
      <3>3. QED
        BY ONLY <3>1, <3>2 DEF Share
    <2>4. vmPending'[k] = vmPending[k] /\ enginePending'[k] = enginePending[k]
      BY <1>1
    <2>5. QED
      BY ONLY <2>2, <2>3, <2>4
  <1>17. msgs' = (msgs \ {m}) \cup {s}
    BY <1>1, <1>11
  <1>18. TrafficInv'
    <2>1. Replaces(m, s)
      BY <1>1, <1>2, <1>12, <1>13, <1>14, <1>15, <1>16, <1>17 DEF Replaces
    <2>2. QED
      BY <1>1, <1>2, <2>1, MessageReplaced
  <1>19. QED
    BY <1>1, <1>2, <1>18

\* A step that changes neither the counters nor the messages they count keeps them exact.
LEMMA CountersKept ==
    ASSUME CountersExact, enginePending' = enginePending, vmPending' = vmPending,
           \A k \in Kinds : /\ Past("vm", k, msgs') = Past("vm", k, msgs)
                            /\ Past("engine", k, msgs') = Past("engine", k, msgs)
    PROVE  CountersExact'
  <1>1. ASSUME NEW k \in Kinds
        PROVE  /\ vmPending'[k] = Cardinality(Beyond({"sys", "device"}, k)'
                                    \cup {x \in Beyond({"vm"}, k)' : x.resp})
               /\ enginePending'[k] = Cardinality(Beyond({"vm", "sys", "device"}, k)'
                                        \cup {x \in Beyond({"engine"}, k)' : x.resp})
    <2>1. /\ vmPending[k] = Cardinality(Past("vm", k, msgs))
          /\ enginePending[k] = Cardinality(Past("engine", k, msgs))
      BY CountedSets DEF CountersExact
    <2>2. /\ Beyond({"sys", "device"}, k)' \cup {x \in Beyond({"vm"}, k)' : x.resp} = Past("vm", k, msgs')
          /\ Beyond({"vm", "sys", "device"}, k)' \cup {x \in Beyond({"engine"}, k)' : x.resp}
               = Past("engine", k, msgs')
      BY DEF Beyond, Past, InTransit
    <2>3. QED
      BY <2>1, <2>2
  <1>2. QED
    BY <1>1 DEF CountersExact

\* What MsgsOK says of one message and of two.
LEMMA MsgsFacts ==
    ASSUME TrafficInv, fault = "none"
    PROVE  /\ msgs \subseteq Message /\ IsFiniteSet(msgs) /\ hits \in [Servers -> 0 .. MaxHits]
           /\ \A x \in msgs : phase[x.job] = "running" /\ OnItsWay(x, toOS[x.job])
           /\ \A x \in msgs : /\ x.job \in Intensive => x.chain = 1
                              /\ x.job \in Servers => x.chain <= hits[x.job]
           /\ \A m1, m2 \in msgs : m1.job = m2.job /\ m1.chain = m2.chain => m1 = m2
  BY DEF TrafficInv, TrafficTypeOK, MsgsOK

\* A step that leaves the messages and their containers alone.
LEMMA MessagesKept ==
    ASSUME TrafficInv, fault = "none", fault' = fault, msgs' = msgs, hits' = hits,
           enginePending' = enginePending, vmPending' = vmPending,
           \A x \in msgs : toOS'[x.job] = toOS[x.job] /\ phase'[x.job] = phase[x.job]
    PROVE  TrafficInv'
  <1>1. TrafficTypeOK'
    BY DEF TrafficInv, TrafficTypeOK
  <1>2. MsgsOK'
    BY MsgsFacts DEF MsgsOK
  <1>3. CountersExact'
    BY CountersKept DEF TrafficInv
  <1>4. ResponseReachesSender'
    BY MsgsFacts DEF ResponseReachesSender, OnItsWay
  <1>5. QED
    BY <1>1, <1>2, <1>3, <1>4 DEF TrafficInv

\* A container starts a chain with message r.
Starts(r) ==
    /\ fault = "none" /\ fault' = fault /\ toOS' = toOS
    /\ enginePending' = enginePending /\ vmPending' = vmPending
    /\ r \in Message /\ r.at = "engine" /\ r.resp = FALSE /\ OnItsWay(r, toOS[r.job])
    /\ msgs' = msgs \cup {r}
    /\ hits' \in [Servers -> 0 .. MaxHits] /\ \A c \in Servers : hits[c] <= hits'[c]
    /\ phase'[r.job] = "running" /\ \A x \in msgs : phase'[x.job] = phase[x.job]
    /\ \A x \in msgs : ~(x.job = r.job /\ x.chain = r.chain)
    /\ r.job \in Intensive => r.chain = 1
    /\ r.job \in Servers => r.chain <= hits'[r.job]

\* Such a step keeps the invariant.
LEMMA MessageAdded ==
    ASSUME TrafficInv, NEW r, Starts(r)
    PROVE  TrafficInv'
  <1> USE DEF Starts
  <1>1. /\ msgs \subseteq Message /\ IsFiniteSet(msgs) /\ hits \in [Servers -> 0 .. MaxHits]
        /\ \A x \in msgs : phase[x.job] = "running" /\ OnItsWay(x, toOS[x.job])
        /\ \A x \in msgs : /\ x.job \in Intensive => x.chain = 1
                           /\ x.job \in Servers => x.chain <= hits[x.job]
        /\ \A m1, m2 \in msgs : m1.job = m2.job /\ m1.chain = m2.chain => m1 = m2
    BY MsgsFacts
  <1>2. TrafficTypeOK'
    <2>1. IsFiniteSet(msgs \cup {r})
      BY <1>1, FS_AddElement
    <2>2. QED
      BY <1>1, <2>1 DEF TrafficInv, TrafficTypeOK
  <1>3. MsgsOK'
    <2>1. \A x \in msgs' : phase'[x.job] = "running" /\ OnItsWay(x, toOS'[x.job])
      BY <1>1
    <2>2. ASSUME NEW x \in msgs'
          PROVE  /\ x.job \in Intensive => x.chain = 1
                 /\ x.job \in Servers => x.chain <= hits'[x.job]
      <3>1. CASE x = r
        BY <3>1
      <3>2. CASE x \in msgs
        <4>1. x.job \in Intensive => x.chain = 1
          BY <1>1, <3>2
        <4>2. ASSUME x.job \in Servers PROVE x.chain <= hits'[x.job]
          <5>1. x.chain <= hits[x.job] /\ hits[x.job] <= hits'[x.job]
            BY <1>1, <3>2, <4>2
          <5>2. x.chain \in Int /\ hits[x.job] \in Int /\ hits'[x.job] \in Int
            BY <1>1, <3>2, <4>2, ContainersAssumption DEF Message, Chains, MaxHits
          <5>3. QED
            BY ONLY <5>1, <5>2
        <4>3. QED
          BY <4>1, <4>2
      <3>3. QED
        BY <3>1, <3>2
    <2>3. \A m1, m2 \in msgs' : m1.job = m2.job /\ m1.chain = m2.chain => m1 = m2
      BY <1>1
    <2>4. QED
      BY <2>1, <2>2, <2>3 DEF MsgsOK
  <1>4. CountersExact'
    <2>1. \A k \in Kinds : /\ Past("vm", k, msgs') = Past("vm", k, msgs)
                           /\ Past("engine", k, msgs') = Past("engine", k, msgs)
      BY DEF Past, InTransit
    <2>2. QED
      BY <2>1, CountersKept DEF TrafficInv
  <1>5. ResponseReachesSender'
    <2>1. \A x \in msgs' : x.at = "app" => x.gate = x.job /\ phase'[x.job] = "running"
      BY <1>1 DEF OnItsWay
    <2>2. QED
      BY <2>1 DEF ResponseReachesSender
  <1>6. QED
    BY <1>2, <1>3, <1>4, <1>5 DEF TrafficInv

\* Message r is a new request of container c, which is at position p.
NewRequest(r, c, h, op, p) ==
    /\ r \in Message /\ r.job = c /\ r.chain = h /\ r.op = op
    /\ r.at = "engine" /\ r.resp = FALSE /\ OnItsWay(r, p)

\* A request of a running container.
LEMMA RequestFacts ==
    ASSUME NEW c \in Containers, NEW h \in Chains, NEW op \in {"read", "write", "cpu"},
           toOS[c] \in Nat
    PROVE  NewRequest(Request(c, h, op), c, h, op, toOS[c])
  BY DEF Request, Message, OnItsWay, NewRequest

-------------------------------------------------------------------------------
(* The steps of the containers.                                            *)

\* A process that is created is not the container of any message.
LEMMA CreateProcessKept ==
    ASSUME IInv, NEW c \in Containers, CreateProcess(c)
    PROVE  IInv'
  <1>1. /\ fault = "none" /\ fault' = fault /\ phase[c] = "new" /\ msgs' = msgs /\ hits' = hits
        /\ enginePending' = enginePending /\ vmPending' = vmPending
    BY Zenon DEF CreateProcess
  <1>2. GatesInv /\ TrafficInv
    BY DEF IInv
  <1>3. /\ GatesInv'
        /\ \A d \in Containers : d # c => toOS'[d] = toOS[d] /\ phase'[d] = phase[d]
    BY <1>2, ProcessCreated
  <1>4. \A x \in msgs : x.job \in Containers /\ x.job # c
    BY <1>1, <1>2, MessageFacts
  <1>5. TrafficInv'
    BY <1>1, <1>2, <1>3, <1>4, MessagesKept
  <1>6. QED
    BY <1>3, <1>5 DEF IInv

\* A container that starts has no request on its way yet.
LEMMA StartKept ==
    ASSUME IInv, NEW c \in Containers, Start(c)
    PROVE  IInv'
  <1>1. /\ fault = "none" /\ fault' = fault /\ phase[c] = "linked"
        /\ phase' = [phase EXCEPT ![c] = "running"]
        /\ msgs' = IF c \in Intensive THEN msgs \cup {Request(c, 1, "write")} ELSE msgs
        /\ linkVars' = linkVars /\ hits' = hits
        /\ enginePending' = enginePending /\ vmPending' = vmPending
    BY Zenon DEF Start
  <1>2. GatesInv /\ TrafficInv
    BY DEF IInv
  <1>3. phase \in [Containers -> {"new", "linked", "running", "ended"}]
    BY <1>2 DEF GatesInv, PositionsHeld
  <1>4. /\ phase' \in [Containers -> {"new", "linked", "running", "ended"}]
        /\ phase'[c] = "running" /\ \A d \in Containers : d # c => phase'[d] = phase[d]
    BY <1>1, <1>3
  <1>5. \A d \in Containers : Linked(d)' <=> Linked(d)
    BY <1>1, <1>4 DEF Linked
  <1>6. GatesInv'
    BY <1>1, <1>2, <1>4, <1>5, GatesKept
  <1>7. toOS' = toOS
    BY <1>1 DEF linkVars
  <1>8. \A x \in msgs : x.job \in Containers /\ x.job # c
    BY <1>1, <1>2, MessageFacts
  <1>9. CASE c \notin Intensive
    <2>1. msgs' = msgs
      BY <1>1, <1>9
    <2>2. TrafficInv'
      BY <1>1, <1>2, <1>4, <1>7, <1>8, <2>1, MessagesKept
    <2>3. QED
      BY <1>6, <2>2 DEF IInv
  <1>10. CASE c \in Intensive
    <2>1. toOS[c] \in Nat
      <3>1. Linked(c)
        BY <1>1 DEF Linked
      <3>2. toOS[c] \in 1 .. NumGates /\ NumGates \in Nat
        BY <1>2, <3>1 DEF GatesInv, PositionsHeld, VectorsShaped
      <3>3. QED
        BY <3>2
    <2>2. 1 \in Chains
      BY ContainersAssumption DEF Chains, MaxHits
    <2>3. PICK r : r = Request(c, 1, "write")
      OBVIOUS
    <2>4. /\ r \in Message /\ r.job = c /\ r.chain = 1
          /\ r.at = "engine" /\ r.resp = FALSE /\ OnItsWay(r, toOS[c])
      <3>1. NewRequest(r, c, 1, "write", toOS[c])
        BY <2>1, <2>2, <2>3, RequestFacts
      <3>2. QED
        BY <3>1 DEF NewRequest
    <2>5. hits \in [Servers -> 0 .. MaxHits] /\ MaxHits \in Nat
      BY <1>2, ContainersAssumption DEF TrafficInv, TrafficTypeOK, MaxHits
    <2>6. \A d \in Servers : hits[d] <= hits'[d]
      BY <1>1, <2>5
    <2>7. c \notin Servers
      BY <1>10, ContainersAssumption
    <2>8. TrafficInv'
      <3>1. msgs' = msgs \cup {r} /\ hits' \in [Servers -> 0 .. MaxHits]
        BY <1>1, <1>10, <2>3, <2>5
      <3>2. \A x \in msgs : phase'[x.job] = phase[x.job] /\ ~(x.job = r.job /\ x.chain = r.chain)
        BY <1>4, <1>8, <2>4
      <3>3. Starts(r)
        BY <1>1, <1>4, <1>7, <2>4, <2>6, <2>7, <3>1, <3>2 DEF Starts
      <3>4. QED
        BY <1>2, <3>3, MessageAdded
    <2>9. QED
      BY <1>6, <2>8 DEF IInv
  <1>11. QED
    BY <1>9, <1>10

\* Each hit of a server starts a chain of its own.
LEMMA HitKept ==
    ASSUME IInv, NEW c \in Servers, Hit(c)
    PROVE  IInv'
  <1>1. /\ fault = "none" /\ fault' = fault /\ phase[c] = "running" /\ ~UptimeOver(c)
        /\ hits' = [hits EXCEPT ![c] = @ + 1]
        /\ msgs' = msgs \cup {Request(c, hits[c] + 1, "read")}
        /\ linkVars' = linkVars /\ phase' = phase
        /\ enginePending' = enginePending /\ vmPending' = vmPending
    BY Zenon DEF Hit
  <1>2. GatesInv /\ TrafficInv /\ c \in Containers
    BY DEF IInv, Containers
  <1>3. GatesInv'
    <2>1. phase' \in [Containers -> {"new", "linked", "running", "ended"}]
      BY <1>1, <1>2 DEF GatesInv, PositionsHeld
    <2>2. QED
      BY <1>1, <1>2, <2>1, GatesKept DEF Linked
  <1>4. toOS' = toOS
    BY <1>1 DEF linkVars
  <1>5. toOS[c] \in Nat
    <2>1. Linked(c)
      BY <1>1 DEF Linked
    <2>2. toOS[c] \in 1 .. NumGates /\ NumGates \in Nat
      BY <1>2, <2>1 DEF GatesInv, PositionsHeld, VectorsShaped
    <2>3. QED
      BY <2>2
  <1>6. hits \in [Servers -> 0 .. MaxHits] /\ MaxHits \in Nat
    BY <1>2, ContainersAssumption DEF TrafficInv, TrafficTypeOK, MaxHits
  <1>7. PICK h \in Chains : h = hits[c] + 1
    BY <1>1, <1>6, ContainersAssumption DEF UptimeOver, Chains, MaxHits
  <1>8. PICK r : r = Request(c, h, "read")
    OBVIOUS
  <1>9. /\ r \in Message /\ r.job = c /\ r.chain = h
        /\ r.at = "engine" /\ r.resp = FALSE /\ OnItsWay(r, toOS[c])
    <2>1. NewRequest(r, c, h, "read", toOS[c])
      BY <1>2, <1>5, <1>8, RequestFacts
    <2>2. QED
      BY <2>1 DEF NewRequest
  <1>10. /\ hits' \in [Servers -> 0 .. MaxHits] /\ hits'[c] = h
         /\ \A d \in Servers : hits[d] <= hits'[d]
    <2>1. hits[c] \in 0 .. MaxHits /\ h \in 1 .. MaxHits
      BY <1>6 DEF Chains
    <2>2. hits' = [hits EXCEPT ![c] = h]
      BY <1>1, <1>7
    <2>3. \A d \in Servers : hits[d] \in Int
      BY <1>6
    <2>4. QED
      BY <1>6, <1>7, <2>1, <2>2, <2>3
  <1>11. \A x \in msgs : ~(x.job = c /\ x.chain = h)
    <2> SUFFICES ASSUME NEW x \in msgs, x.job = c, x.chain = h PROVE FALSE
      OBVIOUS
    <2>1. h <= hits[c]
      BY <1>1, <1>2, MsgsFacts
    <2>2. hits[c] \in Int
      BY <1>6
    <2>3. QED
      BY <1>7, <2>1, <2>2
  <1>12. c \notin Intensive /\ h <= h
    BY ContainersAssumption DEF Chains, MaxHits
  <1>13. TrafficInv'
    <2>1. msgs' = msgs \cup {r}
      BY <1>1, <1>7, <1>8
    <2>2. phase'[c] = "running" /\ \A x \in msgs : phase'[x.job] = phase[x.job]
      BY <1>1
    <2>3. Starts(r)
      BY <1>1, <1>4, <1>9, <1>10, <1>11, <1>12, <2>1, <2>2 DEF Starts
    <2>4. QED
      BY <1>2, <2>3, MessageAdded
  <1>14. QED
    BY <1>3, <1>13 DEF IInv

\* A response at a container: it is at the container that sent the request, which runs.
LEMMA ResponseAtSender ==
    ASSUME IInv, fault = "none", NEW m \in msgs, m.at = "app"
    PROVE  /\ m \in Message /\ m.gate = m.job /\ m.gate \in Containers /\ phase[m.gate] = "running"
           /\ Linked(m.gate) /\ toOS[m.gate] \in Nat
  <1>1. GatesInv /\ TrafficInv
    BY DEF IInv
  <1>2. /\ m \in Message /\ m.job \in Containers /\ phase[m.job] = "running" /\ Linked(m.job)
        /\ toOS[m.job] \in Nat /\ OnItsWay(m, toOS[m.job])
    BY <1>1, MessageFacts
  <1>3. m.gate = m.job
    BY <1>2 DEF OnItsWay
  <1>4. QED
    BY <1>2, <1>3

\* A container that answers a response with the next request of the chain.
LEMMA NextRequestKept ==
    ASSUME IInv, fault = "none", NEW m \in msgs, m.at = "app",
           NEW op \in {"read", "write", "cpu"},
           msgs' = (msgs \ {m}) \cup {Request(m.gate, m.chain, op)},
           linkVars' = linkVars, phase' = phase, hits' = hits, fault' = fault,
           enginePending' = enginePending, vmPending' = vmPending
    PROVE  IInv'
  <1>1. GatesInv /\ TrafficInv
    BY DEF IInv
  <1>2. PICK c \in Containers : c = m.gate /\ c = m.job /\ phase[c] = "running" /\ toOS[c] \in Nat
    BY ResponseAtSender
  <1>3. m \in Message
    BY ResponseAtSender
  <1>4. PICK h \in Chains : h = m.chain
    BY <1>3 DEF Message
  <1>5. PICK s : s = Request(c, h, op)
    OBVIOUS
  <1>6. /\ s \in Message /\ s.job = c /\ s.chain = h
        /\ s.at = "engine" /\ s.resp = FALSE /\ OnItsWay(s, toOS[c])
    <2>1. NewRequest(s, c, h, op, toOS[c])
      BY <1>2, <1>5, RequestFacts
    <2>2. QED
      BY <2>1 DEF NewRequest
  <1>7. GatesInv'
    <2>1. phase' \in [Containers -> {"new", "linked", "running", "ended"}]
      BY <1>1 DEF GatesInv, PositionsHeld
    <2>2. QED
      BY <1>1, <2>1, GatesKept DEF Linked
  <1>8. toOS' = toOS
    BY DEF linkVars
  <1>9. enginePending \in [Kinds -> Int] /\ vmPending \in [Kinds -> Int]
    BY <1>1 DEF TrafficInv, TrafficTypeOK
  <1>10. ASSUME NEW k \in Kinds
         PROVE  /\ vmPending'[k] = vmPending[k] - Share("vm", k, m) + Share("vm", k, s)
                /\ enginePending'[k] = enginePending[k] - Share("engine", k, m) + Share("engine", k, s)
    <2>1. /\ Share("vm", k, m) = 0 /\ Share("engine", k, m) = 0
          /\ Share("vm", k, s) = 0 /\ Share("engine", k, s) = 0
      BY <1>6 DEF Share, InTransit
    <2>2. vmPending[k] \in Int /\ enginePending[k] \in Int
      BY <1>9
    <2>3. QED
      BY <2>1, <2>2
  <1>11. msgs' = (msgs \ {m}) \cup {s}
    BY <1>2, <1>4, <1>5
  <1>12. s.job = m.job /\ s.chain = m.chain /\ OnItsWay(s, toOS[s.job])
    BY <1>2, <1>4, <1>6
  <1>13. TrafficInv'
    <2>1. Replaces(m, s)
      BY <1>1, <1>6, <1>8, <1>9, <1>10, <1>11, <1>12 DEF Replaces
    <2>2. QED
      BY <1>1, <1>2, <2>1, MessageReplaced
  <1>14. QED
    BY <1>7, <1>13 DEF IInv

\* The answers of a container that computes: the next operation, or the end of its process,
\* of which no other message is on its way.
LEMMA IntensiveResponseKept ==
    ASSUME IInv, NEW m \in msgs, IntensiveResponse(m)
    PROVE  IInv'
  <1>1. /\ fault = "none" /\ m.at = "app" /\ m.gate \in Intensive
        /\ \/ /\ ~LastWrite(m.gate, m)
              /\ msgs' = (msgs \ {m}) \cup {Request(m.gate, m.chain, NextOp(m.op))}
              /\ UNCHANGED <<linkVars, phase, fault>>
           \/ /\ LastWrite(m.gate, m)
              /\ phase' = [phase EXCEPT ![m.gate] = "ended"]
              /\ RemoveProcess(m.gate)
              /\ fault' = RemovalFault(m.gate)
              /\ msgs' = msgs \ {m}
        /\ hits' = hits /\ enginePending' = enginePending /\ vmPending' = vmPending
    BY Zenon DEF IntensiveResponse
  <1>2. GatesInv /\ TrafficInv
    BY DEF IInv
  <1>3. CASE ~LastWrite(m.gate, m)
    <2>1. m.op \in {"read", "write", "cpu"}
      BY <1>1, ResponseAtSender DEF Message
    <2>2. PICK op \in {"read", "write", "cpu"} : op = NextOp(m.op)
      BY <2>1 DEF NextOp
    <2>3. /\ msgs' = (msgs \ {m}) \cup {Request(m.gate, m.chain, op)}
          /\ linkVars' = linkVars /\ phase' = phase /\ fault' = fault
      BY <1>1, <1>3, <2>2
    <2>4. QED
      BY <1>1, <2>3, NextRequestKept
  <1>4. CASE LastWrite(m.gate, m)
    <2>1. PICK c \in Containers : c = m.gate /\ c = m.job /\ Linked(c)
      BY <1>1, ResponseAtSender
    <2>2. /\ phase' = [phase EXCEPT ![c] = "ended"] /\ RemoveProcess(c)
          /\ fault' = RemovalFault(c) /\ msgs' = msgs \ {m} /\ c \in Intensive
      BY <1>1, <1>4, <2>1
    <2>3. /\ GatesInv' /\ RemovalFault(c) = fault
          /\ \A d \in Containers : d # c => toOS'[d] = toOS[d] /\ phase'[d] = phase[d]
      BY <1>2, <2>1, <2>2, ProcessRemoved
    <2>4. /\ msgs \subseteq Message /\ IsFiniteSet(msgs) /\ hits \in [Servers -> 0 .. MaxHits]
          /\ \A x \in msgs : phase[x.job] = "running" /\ OnItsWay(x, toOS[x.job])
          /\ \A x \in msgs : /\ x.job \in Intensive => x.chain = 1
                             /\ x.job \in Servers => x.chain <= hits[x.job]
          /\ \A m1, m2 \in msgs : m1.job = m2.job /\ m1.chain = m2.chain => m1 = m2
      BY <1>1, <1>2, MsgsFacts
    <2>5. \A x \in msgs' : x \in msgs /\ x.job \in Containers /\ x.job # c
      <3>1. \A x \in msgs : x.job \in Containers
        BY <2>4 DEF Message
      <3>2. \A x \in msgs : x.job = c => x.chain = m.chain
        BY <2>1, <2>2, <2>4
      <3>3. QED
        BY <2>1, <2>2, <2>4, <3>1, <3>2
    <2>6. TrafficTypeOK'
      <3>1. IsFiniteSet(msgs \ {m})
        BY <2>4, FS_RemoveElement
      <3>2. QED
        BY <1>1, <1>2, <2>2, <2>4, <3>1 DEF TrafficInv, TrafficTypeOK
    <2>7. \A x \in msgs' : phase'[x.job] = "running" /\ OnItsWay(x, toOS'[x.job])
      BY <2>3, <2>4, <2>5
    <2>8. MsgsOK'
      <3>1. \A x \in msgs' : /\ x.job \in Intensive => x.chain = 1
                             /\ x.job \in Servers => x.chain <= hits'[x.job]
        BY <1>1, <2>4, <2>5
      <3>2. \A m1, m2 \in msgs' : m1.job = m2.job /\ m1.chain = m2.chain => m1 = m2
        BY <2>4, <2>5
      <3>3. QED
        BY <2>7, <3>1, <3>2 DEF MsgsOK
    <2>9. CountersExact'
      <3>1. \A k \in Kinds : /\ Past("vm", k, msgs') = Past("vm", k, msgs)
                             /\ Past("engine", k, msgs') = Past("engine", k, msgs)
        BY <1>1, <2>2 DEF Past, InTransit
      <3>2. QED
        BY <1>1, <1>2, <3>1, CountersKept DEF TrafficInv
    <2>10. ResponseReachesSender'
      <3>1. \A x \in msgs' : x.at = "app" => x.gate = x.job /\ phase'[x.job] = "running"
        BY <2>7 DEF OnItsWay
      <3>2. fault' = "none"
        BY <1>1, <2>2, <2>3
      <3>3. QED
        BY <3>1, <3>2 DEF ResponseReachesSender
    <2>11. QED
      BY <2>3, <2>6, <2>8, <2>9, <2>10 DEF IInv, TrafficInv
  <1>5. QED
    BY <1>3, <1>4

\* The answers of a server: the request that follows every response, which after the end of
\* the process stops the simulation.
LEMMA ServerResponseKept ==
    ASSUME IInv, NEW m \in msgs, ServerResponse(m)
    PROVE  IInv'
  <1>1. /\ fault = "none" /\ m.at = "app" /\ m.gate \in Servers
        /\ \/ /\ msgs' = (msgs \ {m}) \cup {Request(m.gate, m.chain, "cpu")}
              /\ UNCHANGED <<linkVars, phase, fault>>
           \/ /\ phase' = [phase EXCEPT ![m.gate] = "ended"]
              /\ RemoveProcess(m.gate)
              /\ msgs' = msgs \ {m}
              /\ fault' = "gate not connected"
        /\ hits' = hits /\ enginePending' = enginePending /\ vmPending' = vmPending
    BY Zenon DEF ServerResponse
  <1>2. GatesInv /\ TrafficInv
    BY DEF IInv
  <1>3. CASE /\ msgs' = (msgs \ {m}) \cup {Request(m.gate, m.chain, "cpu")}
             /\ UNCHANGED <<linkVars, phase, fault>>
    <2>1. PICK op \in {"read", "write", "cpu"} : op = "cpu"
      OBVIOUS
    <2>2. msgs' = (msgs \ {m}) \cup {Request(m.gate, m.chain, op)}
      BY <1>3, <2>1
    <2>3. linkVars' = linkVars /\ phase' = phase /\ fault' = fault
      BY <1>3
    <2>4. QED
      BY <1>1, <2>2, <2>3, NextRequestKept
  <1>4. CASE /\ phase' = [phase EXCEPT ![m.gate] = "ended"] /\ RemoveProcess(m.gate)
             /\ msgs' = msgs \ {m} /\ fault' = "gate not connected"
    <2>1. PICK c \in Servers : c = m.gate /\ c \in Containers /\ Linked(c)
      BY <1>1, ResponseAtSender
    <2>2. /\ phase' = [phase EXCEPT ![c] = "ended"] /\ RemoveProcess(c) /\ c \in Containers
      BY <1>4, <2>1
    <2>3. GatesInv' /\ phase'[c] = "ended"
      BY <1>2, <2>1, <2>2, ProcessRemoved
    <2>4. msgs \subseteq Message /\ IsFiniteSet(msgs)
      BY <1>1, <1>2, MsgsFacts
    <2>5. TrafficTypeOK'
      <3>1. IsFiniteSet(msgs \ {m})
        BY <2>4, FS_RemoveElement
      <3>2. QED
        BY <1>1, <1>2, <1>4, <2>4, <3>1 DEF TrafficInv, TrafficTypeOK
    <2>6. CountersExact'
      <3>1. \A k \in Kinds : /\ Past("vm", k, msgs') = Past("vm", k, msgs)
                             /\ Past("engine", k, msgs') = Past("engine", k, msgs)
        BY <1>1, <1>4 DEF Past, InTransit
      <3>2. QED
        BY <1>1, <1>2, <3>1, CountersKept DEF TrafficInv
    <2>7. \A x \in msgs' : x.gate # Free
      <3> SUFFICES ASSUME NEW x \in msgs PROVE x.gate # Free
        BY <1>4
      <3>1. x.job \in Containers /\ toOS[x.job] \in Nat /\ OnItsWay(x, toOS[x.job])
        BY <1>1, <1>2, MessageFacts
      <3>2. x.gate \in Nat \cup Containers
        BY <3>1 DEF OnItsWay
      <3>3. QED
        BY <3>2, ContainersAssumption
    <2>8. ResponseReachesSender'
      BY <1>4, <2>1, <2>3, <2>7 DEF ResponseReachesSender
    <2>9. fault' # "none"
      BY <1>4
    <2>10. QED
      BY <2>3, <2>5, <2>6, <2>8, <2>9 DEF IInv, TrafficInv
  <1>5. QED
    BY <1>1, <1>3, <1>4

-------------------------------------------------------------------------------
(* The theorems.                                                           *)

\* At the start there is no gate, no process and no message.
LEMMA InitIInv == Init => IInv
  <1> SUFFICES ASSUME Init PROVE IInv
    OBVIOUS
  <1>1. /\ mgr = [v \in Managers |-> NoGates] /\ toOS = [c \in Containers |-> Free]
        /\ processesRunning = <<>> /\ phase = [c \in Containers |-> "new"]
        /\ hits = [c \in Servers |-> 0] /\ msgs = {}
        /\ enginePending = [k \in Kinds |-> 0] /\ vmPending = [k \in Kinds |-> 0]
        /\ fault = "none"
    BY DEF Init
  <1>2. \A v \in Managers : mgr[v] = [gates |-> <<>>, holes |-> <<>>]
    BY <1>1 DEF NoGates
  <1>3. Holes = <<>> /\ NumGates = 0
    BY <1>2 DEF Holes, NumGates, Managers
  <1>4. HolesOK(<<>>, 0) /\ ToSet(<<>>) = {}
    BY DEF HolesOK, ToSet
  <1>5. Shaped([gates |-> <<>>, holes |-> <<>>], <<>>, 0)
    BY DEF Shaped
  <1>6. VectorsShaped
    BY <1>1, <1>2, <1>3, <1>4, <1>5 DEF VectorsShaped
  <1>7. \A c \in Containers : ~Linked(c)
    BY <1>1 DEF Linked
  <1>8. PositionsHeld
    BY <1>1, <1>3, <1>7 DEF PositionsHeld
  <1>9. TableOK
    BY <1>1, <1>7 DEF TableOK
  <1>10. TrafficTypeOK
    <2>1. MaxHits \in Nat
      BY ContainersAssumption DEF MaxHits
    <2>2. IsFiniteSet({})
      BY FS_EmptySet
    <2>3. QED
      BY <1>1, <2>1, <2>2 DEF TrafficTypeOK
  <1>11. CountersExact
    <2>1. ASSUME NEW k \in Kinds
          PROVE  /\ vmPending[k] = Cardinality(Beyond({"sys", "device"}, k)
                                     \cup {x \in Beyond({"vm"}, k) : x.resp})
                 /\ enginePending[k] = Cardinality(Beyond({"vm", "sys", "device"}, k)
                                         \cup {x \in Beyond({"engine"}, k) : x.resp})
      <3>1. Past("vm", k, msgs) = {} /\ Past("engine", k, msgs) = {}
        BY <1>1 DEF Past
      <3>2. vmPending[k] = 0 /\ enginePending[k] = 0
        BY <1>1
      <3>3. Cardinality({}) = 0
        BY FS_EmptySet
      <3>4. QED
        BY <3>1, <3>2, <3>3, CountedSets
    <2>2. QED
      BY <2>1 DEF CountersExact
  <1>12. ResponseReachesSender /\ MsgsOK
    BY <1>1 DEF ResponseReachesSender, MsgsOK
  <1>13. QED
    BY <1>6, <1>8, <1>9, <1>10, <1>11, <1>12 DEF IInv, GatesInv, TrafficInv

\* Every step keeps the invariant.
LEMMA NextIInv == IInv /\ [Next]_vars => IInv'
  <1> SUFFICES ASSUME IInv, [Next]_vars PROVE IInv'
    OBVIOUS
  <1>1. ASSUME UNCHANGED vars PROVE IInv'
    <2>1. /\ linkVars' = linkVars /\ phase' = phase /\ hits' = hits /\ msgs' = msgs
          /\ enginePending' = enginePending /\ vmPending' = vmPending /\ fault' = fault
      BY <1>1 DEF vars, appVars
    <2>2. GatesInv'
      <3>1. GatesInv /\ phase' \in [Containers -> {"new", "linked", "running", "ended"}]
        BY <2>1 DEF IInv, GatesInv, PositionsHeld
      <3>2. QED
        BY <2>1, <3>1, GatesKept DEF Linked
    <2>3. toOS' = toOS
      BY <2>1 DEF linkVars
    <2>4. TrafficTypeOK' /\ ResponseReachesSender' /\ (fault' = "none" => MsgsOK')
      BY <2>1, <2>3 DEF IInv, TrafficInv, TrafficTypeOK, ResponseReachesSender, MsgsOK
    <2>5. CountersExact'
      BY <2>1, CountersKept DEF IInv, TrafficInv
    <2>6. QED
      BY <2>2, <2>4, <2>5 DEF IInv, TrafficInv
  <1>2. ASSUME NEW c \in Containers, CreateProcess(c) PROVE IInv'
    BY <1>2, CreateProcessKept
  <1>3. ASSUME NEW c \in Containers, Start(c) PROVE IInv'
    BY <1>3, StartKept
  <1>4. ASSUME NEW c \in Servers, Hit(c) PROVE IInv'
    BY <1>4, HitKept
  <1>5. ASSUME NEW m \in msgs, TrafficInv', UNCHANGED <<linkVars, phase>> PROVE IInv'
    <2>1. GatesInv /\ phase' \in [Containers -> {"new", "linked", "running", "ended"}]
      BY <1>5 DEF IInv, GatesInv, PositionsHeld
    <2>2. GatesInv'
      BY <1>5, <2>1, GatesKept DEF Linked
    <2>3. QED
      BY <1>5, <2>2 DEF IInv
  <1>6. GatesInv /\ TrafficInv
    BY DEF IInv
  <1>7. ASSUME NEW m \in msgs, Deliver(m) PROVE IInv'
    <2>1. CASE EngineRequest(m)
      BY <1>5, <1>6, <2>1, EngineRequestKept
    <2>2. CASE VmRequest(m)
      BY <1>5, <1>6, <2>2, VmRequestKept
    <2>3. CASE SysRequest(m)
      BY <1>5, <1>6, <2>3, SysRequestKept
    <2>4. CASE SysResponse(m)
      BY <1>5, <1>6, <2>4, SysResponseKept
    <2>5. CASE VmResponse(m)
      BY <1>5, <1>6, <2>5, VmResponseKept
    <2>6. CASE EngineResponse(m)
      BY <1>5, <1>6, <2>6, EngineResponseKept
    <2>7. CASE IntensiveResponse(m)
      BY <2>7, IntensiveResponseKept
    <2>8. CASE ServerResponse(m)
      BY <2>8, ServerResponseKept
    <2>9. QED
      BY <1>7, <2>1, <2>2, <2>3, <2>4, <2>5, <2>6, <2>7, <2>8 DEF Deliver
  <1>8. QED
    BY <1>1, <1>2, <1>3, <1>4, <1>7 DEF Next, Stopped

\* The gates, the processes and the messages satisfy the invariant in every behaviour.
THEOREM MessagingInvariant == Spec => []IInv
  BY InitIInv, NextIInv, PTL DEF Spec

\* The ten gate vectors and the process table agree on who is at which position, and the
\* holes of every vector are its free positions, once each (GatesAgree).
THEOREM VectorsAgree == Spec => []GatesAgree
  <1>1. IInv => GatesAgree
    <2> SUFFICES ASSUME IInv PROVE GatesAgree
      OBVIOUS
    <2>1. PICK n \in Nat : n = NumGates
      BY DEF IInv, GatesInv, VectorsShaped
    <2>2. PICK h : h = Holes
      OBVIOUS
    <2>3. HolesOK(h, n) /\ \A v \in Managers : Shaped(mgr[v], h, n)
      BY <2>1, <2>2 DEF IInv, GatesInv, VectorsShaped
    <2>4. \A c \in Containers : Linked(c) =>
            /\ toOS[c] \in 1 .. n /\ \A v \in Managers : mgr[v].gates[toOS[c]] = Behind(v, c, toOS[c])
      BY <2>1 DEF IInv, GatesInv, PositionsHeld
    <2>5. PICK t \in Seq(Entries) : t = processesRunning
      BY DEF IInv, GatesInv, TableOK
    <2>6. /\ \A i \in DOMAIN t : Linked(t[i].process) /\ t[i].toGateIdx = toOS[t[i].process]
          /\ \A c \in Containers : Linked(c) => \E i \in DOMAIN t : t[i].process = c
      BY <2>5 DEF IInv, GatesInv, TableOK
    <2>7. ASSUME NEW c \in Containers, Linked(c)
          PROVE  \E p \in ToSet(processesRunning) :
                   /\ p.process = c /\ toOS[c] = p.toGateIdx
                   /\ mgr["engToContainers"].gates[p.toGateIdx] = c
                   /\ \A v \in Managers : mgr[v].gates[p.toGateIdx] \in {p.toGateIdx, 0, c}
      <3>1. PICK i \in DOMAIN t : t[i].process = c
        BY <2>6, <2>7
      <3>2. PICK p : p = t[i]
        OBVIOUS
      <3>3. p \in ToSet(processesRunning)
        BY <2>5, <3>2 DEF ToSet
      <3>4. p.process = c /\ p.toGateIdx = toOS[c]
        BY <2>6, <3>1, <3>2
      <3>5. \A v \in Managers : mgr[v].gates[toOS[c]] = Behind(v, c, toOS[c])
        BY <2>4, <2>7
      <3>6. mgr["engToContainers"].gates[toOS[c]] = c
        BY <3>5 DEF Behind, Managers
      <3>7. \A v \in Managers : mgr[v].gates[toOS[c]] \in {toOS[c], 0, c}
        BY <3>5 DEF Behind
      <3>8. QED
        BY <3>3, <3>4, <3>6, <3>7
    <2>8. ASSUME NEW c \in Containers, NEW p \in ToSet(processesRunning), p.process = c PROVE Linked(c)
      <3>1. PICK i \in DOMAIN t : p = t[i]
        BY <2>5 DEF ToSet
      <3>2. QED
        BY <2>6, <2>8, <3>1
    <2>9. /\ \A v \in Managers : mgr[v].holes = h /\ DOMAIN mgr[v].gates = 1 .. n
          /\ mgr["sysTo"].holes = h /\ DOMAIN mgr["sysTo"].gates = 1 .. n
      BY <2>3 DEF Shaped, Managers
    <2>10. IsInjective(h) /\ ToSet(h) \subseteq 1 .. n
      BY <2>3 DEF HolesOK, IsInjective, ToSet
    <2>11. \A v \in Managers : ToSet(h) = {i \in 1 .. n : mgr[v].gates[i] = Free}
      BY <2>3, <2>10 DEF Shaped
    <2>12. QED
      BY <2>7, <2>8, <2>9, <2>10, <2>11 DEF GatesAgree
  <1>2. QED
    BY <1>1, MessagingInvariant, PTL

\* A response is handed to the running container that sent the request, and nothing meets a
\* gate that has been freed but the request a server sends after its end.
THEOREM ResponsesReachSenders == Spec => []ResponseReachesSender
  <1>1. IInv => ResponseReachesSender
    BY DEF IInv, TrafficInv
  <1>2. QED
    BY <1>1, MessagingInvariant, PTL

\* The counters the migration waits for are the requests under way.
THEOREM CountersAreExact == Spec => []CountersExact
  <1>1. IInv => CountersExact
    BY DEF IInv, TrafficInv
  <1>2. QED
    BY <1>1, MessagingInvariant, PTL
===============================================================================
