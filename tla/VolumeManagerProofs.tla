--------------------------- MODULE VolumeManagerProofs ---------------------------
(***************************************************************************)
(* For all requests, strides and numbers of disks, and with either volume  *)
(* manager: what StorageManager keeps about its disks is true, every       *)
(* stripe is accounted for, and the volume does what AbstractVolume        *)
(* promises.                                                               *)
(***************************************************************************)
EXTENDS VolumeManager, FiniteSetTheorems, SequenceTheorems, TLAPS

-------------------------------------------------------------------------------
(* Division.                                                               *)

\* Quotient and remainder.
LEMMA Division ==
    ASSUME NEW a \in Nat, NEW b \in Nat \ {0}
    PROVE  /\ a \div b \in Nat /\ a % b \in 0 .. b - 1
           /\ a = b * (a \div b) + (a % b)
  OBVIOUS

\* They are the only numbers of their kind.
LEMMA DivisionUnique ==
    ASSUME NEW b \in Nat \ {0}, NEW q \in Nat, NEW m \in 0 .. b - 1
    PROVE  (m + q * b) \div b = q /\ (m + q * b) % b = m
  OBVIOUS

\* The multiples of b below x are those of the numbers below the quotient, rounded up.
LEMMA RoundedUp ==
    ASSUME NEW x \in Int, NEW b \in Nat \ {0}, x + b - 1 \in Nat, NEW i \in Nat
    PROVE  i < (x + b - 1) \div b <=> i * b < x
  <1>1. PICK q \in Nat, m \in 0 .. b - 1 : q = (x + b - 1) \div b /\ x + b - 1 = b * q + m
    BY Division
  <1>2. CASE i < q
    <2>1. q - 1 - i \in Nat /\ b * (q - 1 - i) \in Nat
      BY <1>2
    <2>2. b * (q - 1 - i) = b * q - b - i * b
      OBVIOUS
    <2>3. b * q \in Int /\ i * b \in Int
      OBVIOUS
    <2>4. i * b < x
      BY <1>1, <2>1, <2>2, <2>3
    <2>5. QED
      BY <1>1, <1>2, <2>4
  <1>3. CASE i >= q
    <2>1. i - q \in Nat /\ b * (i - q) \in Nat
      BY <1>3
    <2>2. b * (i - q) = i * b - b * q
      OBVIOUS
    <2>3. b * q \in Int /\ i * b \in Int
      OBVIOUS
    <2>4. i * b >= x
      BY <1>1, <2>1, <2>2, <2>3
    <2>5. QED
      BY <1>1, <1>3, <2>3, <2>4
  <1>4. QED
    BY <1>2, <1>3

-------------------------------------------------------------------------------
(* The stripes of a request.                                               *)

Blocks(r) == 0 .. SectorsOf[r] - 1

Piece == [parent : Requests, first : Nat, size : Nat, disk : Disks]

\* There are as many stripes as begin within the request.
LEMMA StripeNumber ==
    ASSUME NEW r \in Requests
    PROVE  /\ NumSubRequest(r) \in Nat
           /\ \A i \in Nat : i < NumSubRequest(r) <=> i * BlocksPerRequest < SectorsOf[r]
  <1>1. SectorsOf[r] \in Nat /\ BlocksPerRequest \in Nat \ {0}
    BY VolumeAssumption
  <1>2. SectorsOf[r] + BlocksPerRequest - 1 \in Nat /\ SectorsOf[r] \in Int
    BY <1>1
  <1>3. NumSubRequest(r) \in Nat
    BY <1>1, <1>2, Division DEF NumSubRequest
  <1>4. \A i \in Nat : i < NumSubRequest(r) <=> i * BlocksPerRequest < SectorsOf[r]
    BY <1>1, <1>2, RoundedUp DEF NumSubRequest
  <1>5. QED
    BY <1>3, <1>4

\* A stripe has blocks of its request, at its own place.
LEMMA StripeFacts ==
    ASSUME NEW r \in Requests, NEW i \in 0 .. NumSubRequest(r) - 1
    PROVE  /\ SubRequest(r, i) \in Piece
           /\ SubRequest(r, i).parent = r /\ SubRequest(r, i).first = i * BlocksPerRequest
           /\ SubRequest(r, i).disk = i % NumStorageSystems
           /\ BlocksOf(SubRequest(r, i))
                = {b \in Blocks(r) : i * BlocksPerRequest <= b /\ b < (i + 1) * BlocksPerRequest}
  <1>1. SectorsOf[r] \in Nat /\ BlocksPerRequest \in Nat \ {0} /\ NumStorageSystems \in Nat \ {0}
    BY VolumeAssumption
  <1>2. i \in Nat /\ i * BlocksPerRequest < SectorsOf[r]
    BY StripeNumber
  <1>3. PICK offset \in Nat, sectors \in Nat, B \in Nat \ {0} :
            /\ offset = i * BlocksPerRequest /\ sectors = SectorsOf[r] /\ B = BlocksPerRequest
    BY <1>1, <1>2
  <1>4. /\ SubRequest(r, i).parent = r /\ SubRequest(r, i).first = offset
        /\ SubRequest(r, i).disk = i % NumStorageSystems
        /\ SubRequest(r, i).size = IF sectors - offset >= B THEN B ELSE sectors - offset
        /\ SubRequest(r, i) = [parent |-> r, first |-> SubRequest(r, i).first,
                               disk |-> SubRequest(r, i).disk, size |-> SubRequest(r, i).size]
    BY <1>3 DEF SubRequest
  <1>5. offset < sectors
    BY <1>2, <1>3
  <1>6. SubRequest(r, i).size \in Nat
    BY <1>4, <1>5
  <1>7. i % NumStorageSystems \in Disks
    BY <1>1, <1>2, Division DEF Disks
  <1>8. SubRequest(r, i) \in Piece
    BY <1>4, <1>6, <1>7 DEF Piece
  <1>9. (i + 1) * BlocksPerRequest = offset + B
    BY <1>1, <1>2, <1>3
  <1>10. BlocksOf(SubRequest(r, i)) = {b \in Blocks(r) : offset <= b /\ b < offset + B}
    BY <1>4, <1>3, <1>5, <1>6 DEF BlocksOf, Blocks
  <1>11. QED
    BY <1>3, <1>4, <1>8, <1>9, <1>10

\* The stripes of a request are different, and each of its blocks is in one of them.
LEMMA StripesCover ==
    ASSUME NEW r \in Requests
    PROVE  /\ \A i, j \in 0 .. NumSubRequest(r) - 1 : SubRequest(r, i) = SubRequest(r, j) => i = j
           /\ \A b \in Blocks(r) : \E i \in 0 .. NumSubRequest(r) - 1 : b \in BlocksOf(SubRequest(r, i))
  <1>1. SectorsOf[r] \in Nat /\ BlocksPerRequest \in Nat \ {0} /\ NumSubRequest(r) \in Nat
    BY VolumeAssumption, StripeNumber
  <1>2. ASSUME NEW i \in 0 .. NumSubRequest(r) - 1, NEW j \in 0 .. NumSubRequest(r) - 1,
               SubRequest(r, i) = SubRequest(r, j)
        PROVE  i = j
    <2>1. i * BlocksPerRequest = j * BlocksPerRequest
      BY <1>2, StripeFacts
    <2>2. (0 + i * BlocksPerRequest) \div BlocksPerRequest = i
      BY <1>1, DivisionUnique
    <2>3. (0 + j * BlocksPerRequest) \div BlocksPerRequest = j
      BY <1>1, DivisionUnique
    <2>4. QED
      BY <2>1, <2>2, <2>3
  <1>3. ASSUME NEW b \in Blocks(r)
        PROVE  \E i \in 0 .. NumSubRequest(r) - 1 : b \in BlocksOf(SubRequest(r, i))
    <2>1. b \in Nat /\ b < SectorsOf[r]
      BY <1>1 DEF Blocks
    <2>2. PICK q \in Nat, m \in 0 .. BlocksPerRequest - 1 : b = BlocksPerRequest * q + m
      <3>1. /\ b \div BlocksPerRequest \in Nat /\ b % BlocksPerRequest \in 0 .. BlocksPerRequest - 1
            /\ b = BlocksPerRequest * (b \div BlocksPerRequest) + (b % BlocksPerRequest)
        BY ONLY <1>1, <2>1, Division
      <3>2. QED
        BY ONLY <3>1
    <2>3. /\ q * BlocksPerRequest = BlocksPerRequest * q
          /\ (q + 1) * BlocksPerRequest = BlocksPerRequest * q + BlocksPerRequest
          /\ BlocksPerRequest * q \in Int
      BY <1>1
    <2>4. q * BlocksPerRequest <= b /\ b < (q + 1) * BlocksPerRequest
      BY <1>1, <2>1, <2>2, <2>3
    <2>5. q * BlocksPerRequest < SectorsOf[r]
      BY <1>1, <2>1, <2>3, <2>4
    <2>6. q \in 0 .. NumSubRequest(r) - 1
      BY <1>1, <2>5, StripeNumber
    <2>7. QED
      BY <2>4, <2>6, StripeFacts
  <1>4. QED
    BY <1>2, <1>3

\* A request has finitely many stripes, as many as are counted.
LEMMA StripesCounted ==
    ASSUME NEW r \in Requests
    PROVE  IsFiniteSet(SubRequests(r)) /\ Cardinality(SubRequests(r)) = NumSubRequest(r)
  <1>1. NumSubRequest(r) \in Nat
    BY StripeNumber
  <1> DEFINE I == 0 .. NumSubRequest(r) - 1
             f == [i \in I |-> SubRequest(r, i)]
  <1>2. IsFiniteSet(I) /\ Cardinality(I) = NumSubRequest(r)
    BY <1>1, FS_Interval
  <1>3. f \in Bijection(I, SubRequests(r))
    <2>1. f \in [I -> SubRequests(r)]
      BY DEF SubRequests
    <2>2. \A i, j \in I : f[i] = f[j] => i = j
      BY StripesCover
    <2>3. \A s \in SubRequests(r) : \E i \in I : f[i] = s
      BY DEF SubRequests
    <2>4. QED
      BY <2>1, <2>2, <2>3 DEF Bijection, Injection, Surjection, IsInjective
  <1>4. ExistsBijection(I, SubRequests(r))
    BY <1>3 DEF ExistsBijection
  <1>5. QED
    BY <1>2, <1>4, FS_Bijection

\* No two positions of a sequence hold the same.
NoTwice(q) == \A i, j \in DOMAIN q : q[i] = q[j] => i = j

\* The stripes for one disk: those of the request that belong there, once each.
LEMMA StripesOfDisk ==
    ASSUME NEW r \in Requests, NEW d \in Disks
    PROVE  /\ SubRequestsOn(r, d) \in Seq(Piece) /\ NoTwice(SubRequestsOn(r, d))
           /\ Range(SubRequestsOn(r, d)) = {s \in SubRequests(r) : s.disk = d}
  <1>1. PICK N \in Nat \ {0} : N = NumStorageSystems
    BY VolumeAssumption
  <1>2. PICK m \in Nat : m = NumSubRequest(r)
    BY StripeNumber
  <1>3. d \in 0 .. N - 1
    BY <1>1 DEF Disks
  <1>4. PICK n \in Nat : n = (m + N - 1 - d) \div N
    <2>1. m + N - 1 - d \in Nat /\ N \in Nat \ {0}
      BY <1>3
    <2>2. (m + N - 1 - d) \div N \in Nat
      BY ONLY <2>1, Division
    <2>3. QED
      BY <2>2
  <1>5. \A i \in Nat : i < n <=> d + i * N < m
    <2>1. m - d \in Int /\ (m - d) + N - 1 \in Nat /\ (m - d) + N - 1 = m + N - 1 - d
      BY <1>3
    <2>2. \A i \in Nat : i < ((m - d) + N - 1) \div N <=> i * N < m - d
      BY <2>1, RoundedUp
    <2>3. TAKE i \in Nat
    <2>4. i * N \in Int
      OBVIOUS
    <2>5. i < n <=> i * N < m - d
      BY <1>4, <2>1, <2>2
    <2>6. QED
      BY <1>3, <2>4, <2>5
  <1>6. PICK q : q = SubRequestsOn(r, d)
    OBVIOUS
  <1>7. PICK place : place = [k \in 1 .. n |-> d + (k - 1) * N]
    OBVIOUS
  <1>8. \A k \in 1 .. n : /\ place[k] \in 0 .. NumSubRequest(r) - 1
                          /\ place[k] % N = d /\ place[k] \div N = k - 1
    <2> TAKE k \in 1 .. n
    <2>1. PICK i \in Nat : i = k - 1 /\ i < n
      OBVIOUS
    <2>2. place[k] = d + i * N
      BY <1>7, <2>1
    <2>3. d + i * N < m /\ i * N \in Nat
      <3>1. d + i * N < m
        BY <1>5, <2>1
      <3>2. QED
        BY <3>1
    <2>4. (d + i * N) % N = d /\ (d + i * N) \div N = i
      BY <1>3, DivisionUnique
    <2>5. QED
      BY <1>2, <1>3, <2>1, <2>2, <2>3, <2>4
  <1>9. /\ DOMAIN q = 1 .. n /\ q = [k \in 1 .. n |-> q[k]]
        /\ \A k \in 1 .. n : q[k] = SubRequest(r, place[k])
    BY <1>1, <1>2, <1>4, <1>6, <1>7 DEF SubRequestsOn
  <1>10. \A k \in 1 .. n : q[k] \in Piece /\ q[k] \in SubRequests(r) /\ q[k].disk = d
    <2> TAKE k \in 1 .. n
    <2>1. place[k] \in 0 .. NumSubRequest(r) - 1 /\ place[k] % NumStorageSystems = d
      BY <1>1, <1>8
    <2>2. SubRequest(r, place[k]) \in Piece /\ SubRequest(r, place[k]).disk = d
      BY <2>1, StripeFacts
    <2>3. SubRequest(r, place[k]) \in SubRequests(r)
      BY <2>1 DEF SubRequests
    <2>4. QED
      BY <1>9, <2>2, <2>3
  <1>11. q \in Seq(Piece)
    BY ONLY <1>9, <1>10, n \in Nat
  <1>12. NoTwice(q)
    <2> SUFFICES ASSUME NEW i \in 1 .. n, NEW j \in 1 .. n, q[i] = q[j] PROVE i = j
      BY <1>9 DEF NoTwice
    <2>1. SubRequest(r, place[i]) = SubRequest(r, place[j])
      BY <1>9
    <2>2. place[i] = place[j]
      BY <1>8, <2>1, StripesCover
    <2>3. i - 1 = j - 1
      BY <1>8, <2>2
    <2>4. QED
      BY <2>3
  <1>13. ASSUME NEW s \in SubRequests(r), s.disk = d PROVE s \in Range(q)
    <2>1. PICK j \in 0 .. m - 1 : s = SubRequest(r, j)
      BY <1>2 DEF SubRequests
    <2>2. j % N = d
      BY <1>1, <1>2, <1>13, <2>1, StripeFacts
    <2>3. j \in Nat /\ N \in Nat \ {0}
      OBVIOUS
    <2>4. j \div N \in Nat /\ j = N * (j \div N) + (j % N)
      BY ONLY <2>3, Division
    <2>5. PICK i \in Nat : i = j \div N
      BY <2>4
    <2>6. j = d + i * N
      BY <1>3, <2>2, <2>4, <2>5
    <2>7. i < n
      BY <1>5, <2>6
    <2>8. i + 1 \in 1 .. n /\ (i + 1) - 1 = i
      BY <2>7
    <2>9. q[i + 1] = s
      BY <1>7, <1>9, <2>1, <2>6, <2>8
    <2>10. QED
      BY <1>9, <2>8, <2>9 DEF Range
  <1>14. Range(q) = {s \in SubRequests(r) : s.disk = d}
    <2>1. \A s \in Range(q) : s \in SubRequests(r) /\ s.disk = d
      BY <1>9, <1>10 DEF Range
    <2>2. QED
      BY <1>13, <2>1
  <1>15. QED
    BY <1>6, <1>11, <1>12, <1>14

-------------------------------------------------------------------------------
(* Queues.                                                                 *)

\* A sequence whose elements are different, and one more.
LEMMA QueueAppend ==
    ASSUME NEW S, NEW q \in Seq(S), NEW e \in S
    PROVE  /\ Append(q, e) \in Seq(S) /\ Range(Append(q, e)) = Range(q) \cup {e}
           /\ NoTwice(q) /\ e \notin Range(q) => NoTwice(Append(q, e))
  <1>1. /\ Append(q, e) \in Seq(S) /\ DOMAIN q = 1 .. Len(q) /\ Len(q) \in Nat
        /\ DOMAIN Append(q, e) = 1 .. Len(q) + 1
        /\ \A i \in 1 .. Len(q) : Append(q, e)[i] = q[i]
        /\ Append(q, e)[Len(q) + 1] = e
    OBVIOUS
  <1>2. PICK p : p = Append(q, e)
    OBVIOUS
  <1>3. Range(p) = Range(q) \cup {e}
    BY <1>1, <1>2 DEF Range
  <1>4. NoTwice(q) /\ e \notin Range(q) => NoTwice(p)
    BY <1>1, <1>2 DEF Range, NoTwice
  <1>5. QED
    BY <1>1, <1>2, <1>3, <1>4

\* Its first element and the others.
LEMMA QueueTail ==
    ASSUME NEW S, NEW q \in Seq(S), q # <<>>, NoTwice(q)
    PROVE  /\ Tail(q) \in Seq(S) /\ NoTwice(Tail(q)) /\ Head(q) \in S /\ Head(q) \in Range(q)
           /\ Range(Tail(q)) = Range(q) \ {Head(q)}
  <1>1. /\ Tail(q) \in Seq(S) /\ DOMAIN q = 1 .. Len(q) /\ Len(q) \in Nat /\ 1 \in DOMAIN q
        /\ DOMAIN Tail(q) = 1 .. Len(q) - 1
        /\ \A i \in 1 .. Len(q) - 1 : Tail(q)[i] = q[i + 1]
        /\ Head(q) = q[1]
    OBVIOUS
  <1>2. PICK p : p = Tail(q)
    OBVIOUS
  <1>3. NoTwice(p)
    <2> SUFFICES ASSUME NEW i \in DOMAIN p, NEW j \in DOMAIN p, p[i] = p[j] PROVE i = j
      BY DEF NoTwice
    <2>1. i + 1 \in DOMAIN q /\ j + 1 \in DOMAIN q /\ q[i + 1] = q[j + 1]
      BY <1>1, <1>2
    <2>2. i + 1 = j + 1
      BY <2>1 DEF NoTwice
    <2>3. QED
      BY <1>1, <1>2, <2>2
  <1>4. Range(p) = Range(q) \ {q[1]}
    <2>1. ASSUME NEW i \in DOMAIN p PROVE p[i] \in Range(q) /\ p[i] # q[1]
      <3>1. i + 1 \in DOMAIN q /\ i + 1 # 1 /\ p[i] = q[i + 1]
        BY <1>1, <1>2
      <3>2. QED
        BY <1>1, <3>1 DEF Range, NoTwice
    <2>2. ASSUME NEW i \in DOMAIN q, q[i] # q[1] PROVE q[i] \in Range(p)
      <3>1. i # 1 /\ i - 1 \in DOMAIN p /\ (i - 1) + 1 = i
        BY <1>1, <1>2, <2>2
      <3>2. p[i - 1] = q[i]
        BY <1>1, <1>2, <3>1
      <3>3. QED
        BY <3>1, <3>2 DEF Range
    <2>3. QED
      BY <2>1, <2>2 DEF Range
  <1>5. q[1] \in S /\ q[1] \in Range(q)
    BY <1>1 DEF Range
  <1>6. NoTwice(Tail(q)) /\ Range(Tail(q)) = Range(q) \ {Head(q)}
    BY ONLY <1>1, <1>2, <1>3, <1>4
  <1>7. QED
    BY ONLY <1>1, <1>5, <1>6

\* A sequence without elements.
LEMMA EmptyQueue ==
    ASSUME NEW S, NEW q \in Seq(S), Range(q) = {}
    PROVE  q = <<>>
  <1>1. Len(q) \in Nat /\ DOMAIN q = 1 .. Len(q)
    OBVIOUS
  <1>2. DOMAIN q = {}
    BY DEF Range
  <1>3. Len(q) = 0
    BY <1>1, <1>2
  <1>4. QED
    BY <1>3

\* Two sequences, one after the other.
LEMMA QueueConcat ==
    ASSUME NEW S, NEW p \in Seq(S), NEW q \in Seq(S)
    PROVE  /\ p \o q \in Seq(S) /\ Range(p \o q) = Range(p) \cup Range(q)
           /\ NoTwice(p) /\ NoTwice(q) /\ Range(p) \cap Range(q) = {} => NoTwice(p \o q)
  <1>1. /\ p \o q \in Seq(S) /\ DOMAIN p = 1 .. Len(p) /\ DOMAIN q = 1 .. Len(q)
        /\ Len(p) \in Nat /\ Len(q) \in Nat /\ DOMAIN (p \o q) = 1 .. Len(p) + Len(q)
        /\ \A i \in 1 .. Len(p) + Len(q) : (p \o q)[i] = IF i <= Len(p) THEN p[i] ELSE q[i - Len(p)]
    OBVIOUS
  <1>2. PICK s : s = p \o q
    OBVIOUS
  <1>3. \A i \in DOMAIN p : i \in DOMAIN s /\ s[i] = p[i]
    BY <1>1, <1>2
  <1>4. \A i \in DOMAIN q : Len(p) + i \in DOMAIN s /\ s[Len(p) + i] = q[i]
    BY <1>1, <1>2
  <1>5. \A i \in DOMAIN s : \/ i \in DOMAIN p /\ s[i] = p[i]
                            \/ i - Len(p) \in DOMAIN q /\ s[i] = q[i - Len(p)]
    BY <1>1, <1>2
  <1>6. Range(s) = Range(p) \cup Range(q)
    BY <1>3, <1>4, <1>5 DEF Range
  <1>7. ASSUME NoTwice(p), NoTwice(q), Range(p) \cap Range(q) = {} PROVE NoTwice(s)
    <2> SUFFICES ASSUME NEW i \in DOMAIN s, NEW j \in DOMAIN s, s[i] = s[j] PROVE i = j
      BY DEF NoTwice
    <2>1. CASE i \in DOMAIN p /\ s[i] = p[i] /\ j \in DOMAIN p /\ s[j] = p[j]
      BY <1>7, <2>1 DEF NoTwice
    <2>2. CASE /\ i - Len(p) \in DOMAIN q /\ s[i] = q[i - Len(p)]
               /\ j - Len(p) \in DOMAIN q /\ s[j] = q[j - Len(p)]
      <3>1. i - Len(p) = j - Len(p)
        BY <1>7, <2>2 DEF NoTwice
      <3>2. i \in Int /\ j \in Int
        BY <1>1, <1>2
      <3>3. QED
        BY <1>1, <3>1, <3>2
    <2>3. CASE i \in DOMAIN p /\ s[i] = p[i] /\ j - Len(p) \in DOMAIN q /\ s[j] = q[j - Len(p)]
      BY <1>7, <2>3 DEF Range
    <2>4. CASE j \in DOMAIN p /\ s[j] = p[j] /\ i - Len(p) \in DOMAIN q /\ s[i] = q[i - Len(p)]
      BY <1>7, <2>4 DEF Range
    <2>5. QED
      BY <1>5, <2>1, <2>2, <2>3, <2>4
  <1>8. QED
    BY <1>1, <1>2, <1>6, <1>7

\* Disks that are visited in their order are visited once each.
LEMMA VisitsAll ==
    ASSUME NEW ready \in SUBSET Disks, NEW order \in Visits(ready)
    PROVE  /\ Cardinality(ready) \in Nat /\ order \in [1 .. Cardinality(ready) -> ready]
           /\ \A i, j \in 1 .. Cardinality(ready) : order[i] = order[j] => i = j
           /\ \A d \in ready : \E i \in 1 .. Cardinality(ready) : order[i] = d
  <1>1. IsFiniteSet(ready)
    <2>1. 0 \in Int /\ NumStorageSystems - 1 \in Int
      BY VolumeAssumption
    <2>2. IsFiniteSet(Disks)
      BY ONLY <2>1, FS_Interval DEF Disks
    <2>3. ready \in SUBSET Disks
      OBVIOUS
    <2>4. QED
      BY ONLY <2>2, <2>3, FS_Subset
  <1>2. PICK n \in Nat : n = Cardinality(ready)
    BY <1>1, FS_CardinalityType
  <1>3. /\ order \in [1 .. n -> ready]
        /\ \A i, j \in 1 .. n : i < j => order[i] < order[j]
    BY <1>2 DEF Visits
  <1>4. \A i, j \in 1 .. n : order[i] = order[j] => i = j
    <2> SUFFICES ASSUME NEW i \in 1 .. n, NEW j \in 1 .. n, order[i] = order[j], i # j PROVE FALSE
      OBVIOUS
    <2>1. order[i] < order[j] \/ order[j] < order[i]
      BY <1>3
    <2>2. order[i] \in Disks
      BY <1>3
    <2>3. order[i] \in Int
      BY <2>2, VolumeAssumption DEF Disks
    <2>4. QED
      BY <2>1, <2>3
  <1>5. order \in Injection(1 .. n, ready)
    BY <1>3, <1>4 DEF Injection, IsInjective
  <1>6. Cardinality(1 .. n) = n
    BY FS_Interval
  <1>7. order \in Surjection(1 .. n, ready)
    BY <1>1, <1>2, <1>5, <1>6, FS_Injection
  <1>8. QED
    BY <1>2, <1>3, <1>4, <1>7 DEF Surjection

\* The first elements of the queues of some disks, and their sequence in some order.
Firsts(queues, ready) == {Head(queues[d]) : d \in ready}
InOrder(queues, order, n) == [i \in 1 .. n |-> Head(queues[order[i]])]

\* The sequence in the order of the disks has all of them, once each.
LEMMA FirstsSent ==
    ASSUME NEW ready \in SUBSET Disks, NEW order \in Visits(ready),
           NEW queues \in [Disks -> Seq(Piece)], NEW n, n = Cardinality(ready),
           \A d \in ready : Head(queues[d]) \in Piece /\ Head(queues[d]).disk = d
    PROVE  /\ InOrder(queues, order, n) \in Seq(Piece) /\ NoTwice(InOrder(queues, order, n))
           /\ Range(InOrder(queues, order, n)) = Firsts(queues, ready)
  <1>1. n \in Nat
    BY VisitsAll
  <1>2. /\ order \in [1 .. n -> ready]
        /\ \A i, j \in 1 .. n : order[i] = order[j] => i = j
        /\ \A d \in ready : \E i \in 1 .. n : order[i] = d
    BY VisitsAll
  <1>3. PICK sent : sent = InOrder(queues, order, n) /\ sent = [i \in 1 .. n |-> Head(queues[order[i]])]
    BY DEF InOrder
  <1>4. \A i \in 1 .. n : sent[i] \in Piece /\ sent[i].disk = order[i]
    BY <1>2, <1>3
  <1>5. sent \in Seq(Piece)
    BY ONLY <1>1, <1>3, <1>4
  <1>6. NoTwice(sent)
    <2>1. DOMAIN sent = 1 .. n
      BY <1>3
    <2>2. ASSUME NEW i \in 1 .. n, NEW j \in 1 .. n, sent[i] = sent[j] PROVE i = j
      <3>1. order[i] = order[j]
        BY <1>4, <2>2
      <3>2. QED
        BY <1>2, <3>1
    <2>3. QED
      BY <2>1, <2>2 DEF NoTwice
  <1>7. Range(sent) = Firsts(queues, ready)
    BY <1>2, <1>3 DEF Range, Firsts
  <1>8. QED
    BY <1>3, <1>5, <1>6, <1>7

-------------------------------------------------------------------------------
(* The inductive invariant.                                                *)

VolumeTypeOK ==
    /\ kind \in {"null", "raid"} /\ asked \subseteq Requests /\ answered \subseteq asked
    /\ isStorageSystemIdle \in [Disks -> BOOLEAN]
    /\ requestsQueue \in [Disks -> Seq(Piece)]
    /\ arrivedSubRequests \in [Requests -> Nat]
    /\ disk \in Seq(Piece) /\ delayed \subseteq Piece
    /\ transferred \in [Requests -> SUBSET Nat]

\* What a request becomes below the volume manager.
Pieces(r) == IF kind = "null" THEN {WholeRequest(r)} ELSE SubRequests(r)

Waiting   == UNION {Range(requestsQueue[d]) : d \in Disks}
Held      == Waiting \cup Outstanding
HeldOf(r) == {s \in Held : s.parent = r}

\* What is held is part of a request that waits for its answer, and is at one place.
PiecesPlaced ==
    /\ \A s \in Held : s.parent \in asked \ answered /\ s \in Pieces(s.parent)
    /\ NoTwice(disk) /\ Range(disk) \cap delayed = {} /\ Waiting \cap Outstanding = {}

\* The blocks of what has left the disk have been transferred, and no others.
BlocksServed ==
    /\ \A r \in Requests : transferred[r] \subseteq Blocks(r)
    /\ \A r \in asked : \A s \in Pieces(r) :
          s \notin Waiting \cup Range(disk) => BlocksOf(s) \subseteq transferred[r]

\* NullStorageManager has no queues.
NothingQueued == kind = "null" => \A d \in Disks : requestsQueue[d] = <<>>

\* StorageManager: a disk is busy with one stripe of its own, or is idle and has no queue.
DisksServe ==
    kind = "raid" =>
        /\ \A d \in Disks : /\ NoTwice(requestsQueue[d])
                            /\ \A s \in Range(requestsQueue[d]) : s.disk = d
                            /\ isStorageSystemIdle[d] => requestsQueue[d] = <<>>
                            /\ ~isStorageSystemIdle[d] => \E s \in Outstanding : s.disk = d
        /\ \A s \in Outstanding : ~isStorageSystemIdle[s.disk]
        /\ \A s, t \in Outstanding : s.disk = t.disk => s = t

\* Every stripe of a request is held or has been counted.
StripesHeld ==
    kind = "raid" =>
        \A r \in asked : arrivedSubRequests[r] + Cardinality(HeldOf(r)) = NumSubRequest(r)

NoneArrivedYet == \A r \in Requests \ asked : arrivedSubRequests[r] = 0

FlightInv == PiecesPlaced /\ BlocksServed /\ NothingQueued /\ DisksServe /\ StripesHeld

IInv == VolumeTypeOK /\ NoneArrivedYet /\ (fault # "branch" => FlightInv)

-------------------------------------------------------------------------------
(* What follows from it.                                                   *)

\* A request that is not split is a piece with all its blocks.
LEMMA WholeFacts ==
    ASSUME NEW r \in Requests
    PROVE  /\ WholeRequest(r) \in Piece /\ WholeRequest(r).parent = r
           /\ BlocksOf(WholeRequest(r)) = Blocks(r)
  <1>1. SectorsOf[r] \in Nat /\ 0 \in Disks
    BY VolumeAssumption DEF Disks
  <1>2. QED
    BY <1>1 DEF WholeRequest, Piece, BlocksOf, Blocks

\* The pieces of a request have its blocks, and no others.
LEMMA PieceFacts ==
    ASSUME kind \in {"null", "raid"}, NEW r \in Requests
    PROVE  /\ \A s \in Pieces(r) : s \in Piece /\ s.parent = r /\ BlocksOf(s) \subseteq Blocks(r)
           /\ \A b \in Blocks(r) : \E s \in Pieces(r) : b \in BlocksOf(s)
  <1>1. CASE kind = "null"
    BY <1>1, WholeFacts DEF Pieces
  <1>2. CASE kind # "null"
    <2>1. Pieces(r) = SubRequests(r)
      BY <1>2 DEF Pieces
    <2>2. ASSUME NEW i \in 0 .. NumSubRequest(r) - 1
          PROVE  /\ SubRequest(r, i) \in Piece /\ SubRequest(r, i).parent = r
                 /\ BlocksOf(SubRequest(r, i)) \subseteq Blocks(r)
      BY StripeFacts
    <2>3. \A b \in Blocks(r) : \E i \in 0 .. NumSubRequest(r) - 1 : b \in BlocksOf(SubRequest(r, i))
      BY StripesCover
    <2>4. QED
      BY <2>1, <2>2, <2>3 DEF SubRequests
  <1>3. QED
    BY <1>1, <1>2

\* When no other piece of a request is held, the blocks of this one are the last.
LEMMA LastBlocks ==
    ASSUME VolumeTypeOK, FlightInv, NEW sub \in Held, HeldOf(sub.parent) \subseteq {sub}
    PROVE  transferred[sub.parent] \cup BlocksOf(sub) = Blocks(sub.parent)
  <1>1. PICK r \in Requests : r = sub.parent /\ r \in asked /\ sub \in Pieces(r)
    BY DEF FlightInv, PiecesPlaced, VolumeTypeOK
  <1>2. /\ \A s \in Pieces(r) : s.parent = r /\ BlocksOf(s) \subseteq Blocks(r)
        /\ \A b \in Blocks(r) : \E s \in Pieces(r) : b \in BlocksOf(s)
    BY PieceFacts DEF VolumeTypeOK
  <1>3. ASSUME NEW s \in Pieces(r), s # sub PROVE BlocksOf(s) \subseteq transferred[r]
    <2>1. s \notin Held
      BY <1>1, <1>2, <1>3 DEF HeldOf
    <2>2. s \notin Waiting \cup Range(disk)
      BY <2>1 DEF Held, Outstanding
    <2>3. QED
      BY <1>1, <2>2 DEF FlightInv, BlocksServed
  <1>4. transferred[r] \subseteq Blocks(r)
    BY DEF FlightInv, BlocksServed
  <1>5. QED
    BY <1>1, <1>2, <1>3, <1>4

\* The stripes of a request that are held are finitely many.
LEMMA HeldFinite ==
    ASSUME VolumeTypeOK, PiecesPlaced, kind = "raid", NEW r \in Requests
    PROVE  HeldOf(r) \subseteq SubRequests(r) /\ IsFiniteSet(HeldOf(r))
  <1>1. HeldOf(r) \subseteq SubRequests(r)
    BY DEF PiecesPlaced, HeldOf, Pieces
  <1>2. IsFiniteSet(SubRequests(r))
    BY StripesCounted
  <1>3. QED
    BY <1>1, <1>2, FS_Subset

-------------------------------------------------------------------------------
(* Responses.                                                              *)

\* Piece sub has been served and leaves, and queue is at the disk.
Leaves(sub, queue) ==
    /\ sub \in Outstanding /\ fault = "none"
    /\ queue \in Seq(Piece) /\ NoTwice(queue) /\ Range(queue) \cap delayed' = {}
    /\ Range(queue) \cup delayed' = Outstanding \ {sub}
    /\ Range(disk) \subseteq Range(queue) \cup {sub}
    /\ transferred' = [transferred EXCEPT ![sub.parent] = @ \cup BlocksOf(sub)]
    /\ kind' = kind /\ asked' = asked

\* So it does at the end of its service, and at the end of its delay.
LEMMA LeavesDisk ==
    ASSUME IInv, EndOfService, ~overhead
    PROVE  Leaves(Head(disk), Tail(disk))
  <1>1. /\ fault = "none" /\ disk # <<>> /\ delayed' = delayed /\ kind' = kind /\ asked' = asked
        /\ transferred' = [transferred EXCEPT ![Head(disk).parent] = @ \cup BlocksOf(Head(disk))]
    BY Zenon DEF EndOfService
  <1>2. disk \in Seq(Piece) /\ NoTwice(disk) /\ Range(disk) \cap delayed = {}
    BY <1>1 DEF IInv, VolumeTypeOK, FlightInv, PiecesPlaced
  <1>3. /\ Tail(disk) \in Seq(Piece) /\ NoTwice(Tail(disk)) /\ Head(disk) \in Range(disk)
        /\ Range(Tail(disk)) = Range(disk) \ {Head(disk)}
    BY <1>1, <1>2, QueueTail
  <1>4. QED
    BY <1>1, <1>2, <1>3 DEF Leaves, Outstanding

LEMMA LeavesHypervisor ==
    ASSUME IInv, NEW sub, EndOfOverhead(sub)
    PROVE  Leaves(sub, disk)
  <1>1. /\ fault = "none" /\ sub \in delayed /\ delayed' = delayed \ {sub}
        /\ kind' = kind /\ asked' = asked /\ transferred' = transferred
    BY Zenon DEF EndOfOverhead
  <1>2. VolumeTypeOK /\ PiecesPlaced /\ BlocksServed
    BY <1>1 DEF IInv, FlightInv
  <1>3. /\ disk \in Seq(Piece) /\ NoTwice(disk) /\ Range(disk) \cap delayed = {}
        /\ transferred \in [Requests -> SUBSET Nat]
    BY <1>2 DEF VolumeTypeOK, PiecesPlaced
  <1>4. sub \in Outstanding
    BY <1>1 DEF Outstanding
  <1>5. sub \notin Waiting \cup Range(disk)
    BY <1>1, <1>2, <1>4 DEF PiecesPlaced
  <1>6. sub.parent \in asked /\ sub \in Pieces(sub.parent)
    BY <1>2, <1>4 DEF PiecesPlaced, Held
  <1>7. BlocksOf(sub) \subseteq transferred[sub.parent]
    BY <1>2, <1>5, <1>6 DEF BlocksServed
  <1>8. transferred' = [transferred EXCEPT ![sub.parent] = @ \cup BlocksOf(sub)]
    BY <1>1, <1>3, <1>7
  <1>9. QED
    BY <1>1, <1>3, <1>4, <1>8 DEF Leaves, Outstanding

\* What leaves is part of a request that waits for its answer.
LEMMA LeavesFacts ==
    ASSUME IInv, NEW sub, NEW queue, Leaves(sub, queue)
    PROVE  /\ VolumeTypeOK /\ FlightInv /\ NoneArrivedYet /\ fault = "none"
           /\ sub \in Piece /\ sub \in Held /\ sub \in Outstanding /\ sub \notin Waiting
           /\ sub.parent \in Requests /\ sub.parent \in asked /\ sub.parent \notin answered
           /\ sub \in Pieces(sub.parent)
           /\ delayed' \subseteq Piece /\ transferred' \in [Requests -> SUBSET Nat]
           /\ \A r \in Requests : transferred[r] \subseteq transferred'[r] /\ transferred'[r] \subseteq Blocks(r)
           /\ BlocksOf(sub) \subseteq transferred'[sub.parent]
  <1>1. VolumeTypeOK /\ FlightInv /\ NoneArrivedYet /\ fault = "none"
    BY DEF IInv, Leaves
  <1>2. sub \in Outstanding /\ sub \in Held
    BY DEF Leaves, Held
  <1>3. Outstanding \subseteq Piece
    BY <1>1 DEF VolumeTypeOK, Outstanding, Range
  <1>4. /\ sub.parent \in asked /\ sub.parent \notin answered /\ sub \in Pieces(sub.parent)
        /\ sub \notin Waiting
    BY <1>1, <1>2 DEF FlightInv, PiecesPlaced
  <1>5. PICK p \in Requests : p = sub.parent
    BY <1>1, <1>4 DEF VolumeTypeOK
  <1>6. BlocksOf(sub) \subseteq Blocks(p) /\ BlocksOf(sub) \subseteq Nat
    <2>1. BlocksOf(sub) \subseteq Blocks(p)
      BY <1>1, <1>4, <1>5, PieceFacts DEF VolumeTypeOK
    <2>2. Blocks(p) \subseteq Nat
      BY VolumeAssumption DEF Blocks
    <2>3. QED
      BY <2>1, <2>2
  <1>7. /\ transferred \in [Requests -> SUBSET Nat]
        /\ transferred' = [transferred EXCEPT ![p] = @ \cup BlocksOf(sub)]
        /\ \A r \in Requests : transferred[r] \subseteq Blocks(r)
    BY <1>1, <1>5 DEF VolumeTypeOK, Leaves, FlightInv, BlocksServed
  <1>8. /\ transferred' \in [Requests -> SUBSET Nat]
        /\ \A r \in Requests : transferred[r] \subseteq transferred'[r] /\ transferred'[r] \subseteq Blocks(r)
        /\ BlocksOf(sub) \subseteq transferred'[p]
    BY ONLY <1>6, <1>7, p \in Requests
  <1>9. delayed' \subseteq Piece
    BY <1>3 DEF Leaves
  <1>10. QED
    BY <1>1, <1>2, <1>3, <1>4, <1>5, <1>8, <1>9

\* Whatever takes its place, its blocks have been transferred.
LEMMA ServedKept ==
    ASSUME IInv, NEW sub, NEW queue, Leaves(sub, queue),
           Waiting \cup Range(disk) \subseteq (Waiting \cup Range(disk))' \cup {sub}
    PROVE  BlocksServed'
  <1>1. /\ \A r \in Requests : transferred[r] \subseteq transferred'[r] /\ transferred'[r] \subseteq Blocks(r)
        /\ BlocksOf(sub) \subseteq transferred'[sub.parent]
        /\ VolumeTypeOK /\ FlightInv
    BY LeavesFacts
  <1>2. kind' = kind /\ asked' = asked /\ asked \subseteq Requests
    BY <1>1 DEF Leaves, VolumeTypeOK
  <1>3. ASSUME NEW r \in asked, NEW s \in Pieces(r), s \notin (Waiting \cup Range(disk))'
        PROVE  BlocksOf(s) \subseteq transferred'[r]
    <2>1. CASE s = sub
      <3>1. s.parent = r
        BY <1>1, <1>2, PieceFacts DEF VolumeTypeOK
      <3>2. QED
        BY <1>1, <2>1, <3>1
    <2>2. CASE s # sub
      <3>1. s \notin Waiting \cup Range(disk)
        BY <1>3, <2>2
      <3>2. QED
        BY <1>1, <1>2, <3>1 DEF FlightInv, BlocksServed
    <2>3. QED
      BY <2>1, <2>2
  <1>4. \A r : Pieces(r)' = Pieces(r)
    BY <1>2 DEF Pieces
  <1>5. QED
    BY <1>1, <1>2, <1>3, <1>4 DEF BlocksServed

\* NullStorageManager answers.
LEMMA NullResponseKept ==
    ASSUME IInv, NEW sub, NEW queue, Leaves(sub, queue), NullResponse(sub, queue)
    PROVE  IInv'
  <1>1. /\ VolumeTypeOK /\ FlightInv /\ NoneArrivedYet /\ fault = "none"
        /\ sub \in Piece /\ sub \in Held /\ sub \in Outstanding /\ sub \notin Waiting
        /\ sub.parent \in Requests /\ sub.parent \in asked /\ sub.parent \notin answered
        /\ sub \in Pieces(sub.parent)
        /\ delayed' \subseteq Piece /\ transferred' \in [Requests -> SUBSET Nat]
    BY LeavesFacts
  <1>2. /\ kind = "null" /\ answered' = answered \cup {sub.parent} /\ disk' = queue
        /\ isStorageSystemIdle' = isStorageSystemIdle /\ requestsQueue' = requestsQueue
        /\ arrivedSubRequests' = arrivedSubRequests /\ fault' = fault
    BY Zenon DEF NullResponse, Answer, volume
  <1>3. kind' = kind /\ asked' = asked /\ disk' \in Seq(Piece)
    BY <1>2 DEF Leaves
  <1>4. VolumeTypeOK'
    BY <1>1, <1>2, <1>3 DEF VolumeTypeOK
  <1>5. NoneArrivedYet'
    BY <1>1, <1>2, <1>3 DEF NoneArrivedYet
  <1>6. Waiting' = Waiting
    BY <1>2 DEF Waiting
  <1>7. Outstanding' = Outstanding \ {sub} /\ Held' = Held \ {sub}
    BY <1>1, <1>2, <1>6 DEF Leaves, Outstanding, Held
  <1>8. PiecesPlaced'
    <2>1. ASSUME NEW s \in Held'
          PROVE  s.parent \in asked' \ answered' /\ s \in Pieces(s.parent)'
      <3>1. s \in Held /\ s # sub
        BY <1>7
      <3>2. s = WholeRequest(s.parent) /\ sub = WholeRequest(sub.parent) /\ s.parent \in asked \ answered
        BY <1>1, <1>2, <3>1 DEF FlightInv, PiecesPlaced, Pieces
      <3>3. s.parent # sub.parent
        BY <3>1, <3>2
      <3>4. QED
        BY <1>2, <1>3, <3>2, <3>3 DEF Pieces
    <2>2. NoTwice(disk)' /\ Range(disk') \cap delayed' = {}
      BY <1>2 DEF Leaves, NoTwice
    <2>3. Waiting' \cap Outstanding' = {}
      BY <1>1, <1>6, <1>7 DEF FlightInv, PiecesPlaced
    <2>4. QED
      BY <2>1, <2>2, <2>3 DEF PiecesPlaced
  <1>9. BlocksServed'
    <2>1. Range(disk) \subseteq Range(disk') \cup {sub}
      BY <1>2 DEF Leaves
    <2>2. QED
      BY <1>6, <2>1, ServedKept
  <1>10. NothingQueued' /\ DisksServe' /\ StripesHeld'
    BY <1>1, <1>2, <1>3 DEF FlightInv, NothingQueued, DisksServe, StripesHeld
  <1>11. QED
    BY <1>4, <1>5, <1>8, <1>9, <1>10 DEF IInv, FlightInv

\* Where the pieces are after a response of a disk: sub is gone, and the next piece in the
\* queue of its disk, if there is one, has been sent.
Passed(sub, moved) ==
    /\ moved \subseteq Range(requestsQueue[sub.disk])
    /\ requestsQueue[sub.disk] = <<>> <=> moved = {}
    /\ \A s, t \in moved : s = t
    /\ disk' \in Seq(Piece) /\ NoTwice(disk')
    /\ Outstanding' = (Outstanding \ {sub}) \cup moved /\ Waiting' = Waiting \ moved
    /\ Range(disk) \subseteq Range(disk') \cup {sub} /\ moved \subseteq Range(disk')
    /\ Range(disk') \cap delayed' = {}
    /\ requestsQueue' \in [Disks -> Seq(Piece)]
    /\ \A e \in Disks : /\ NoTwice(requestsQueue'[e])
                        /\ e # sub.disk => requestsQueue'[e] = requestsQueue[e]
                        /\ Range(requestsQueue'[e]) = Range(requestsQueue[e]) \ moved

LEMMA NextSent ==
    ASSUME IInv, NEW sub, NEW queue, Leaves(sub, queue), RaidResponse(sub, queue)
    PROVE  \E moved : Passed(sub, moved)
  <1>1. /\ VolumeTypeOK /\ FlightInv /\ sub \in Piece /\ sub \in Outstanding /\ sub \notin Waiting
    BY LeavesFacts
  <1>2. PICK d \in Disks : d = sub.disk
    BY <1>1 DEF Piece
  <1>3. PICK waiting : waiting = requestsQueue[d]
    OBVIOUS
  <1>4. /\ kind = "raid"
        /\ requestsQueue' = [requestsQueue EXCEPT ![d] = IF @ = <<>> THEN <<>> ELSE Tail(@)]
        /\ disk' = IF waiting = <<>> THEN queue ELSE Append(queue, Head(waiting))
    BY <1>2, <1>3 DEF RaidResponse
  <1>5. /\ requestsQueue \in [Disks -> Seq(Piece)] /\ waiting \in Seq(Piece) /\ NoTwice(waiting)
        /\ \A e \in Disks : /\ NoTwice(requestsQueue[e])
                            /\ \A s \in Range(requestsQueue[e]) : s.disk = e
    BY <1>1, <1>3, <1>4 DEF VolumeTypeOK, FlightInv, DisksServe
  <1>6. /\ queue \in Seq(Piece) /\ NoTwice(queue) /\ Range(queue) \cap delayed' = {}
        /\ Range(queue) \cup delayed' = Outstanding \ {sub} /\ Range(disk) \subseteq Range(queue) \cup {sub}
    BY DEF Leaves
  <1>7. Waiting \cap Outstanding = {} /\ Range(waiting) \subseteq Waiting
    BY <1>1, <1>3 DEF FlightInv, PiecesPlaced, Waiting
  <1>8. PICK moved, rest : /\ moved = (IF waiting = <<>> THEN {} ELSE {Head(waiting)})
                           /\ rest = (IF waiting = <<>> THEN <<>> ELSE Tail(waiting))
    OBVIOUS
  <1>9. /\ rest \in Seq(Piece) /\ NoTwice(rest) /\ Range(rest) = Range(waiting) \ moved
        /\ moved \subseteq Range(waiting) /\ \A s, t \in moved : s = t
        /\ waiting = <<>> <=> moved = {}
    <2>1. CASE waiting = <<>>
      BY <1>8, <2>1 DEF NoTwice, Range
    <2>2. CASE waiting # <<>>
      <3>1. /\ Tail(waiting) \in Seq(Piece) /\ NoTwice(Tail(waiting)) /\ Head(waiting) \in Range(waiting)
            /\ Range(Tail(waiting)) = Range(waiting) \ {Head(waiting)}
        BY <1>5, <2>2, QueueTail
      <3>2. QED
        BY <1>8, <2>2, <3>1
    <2>3. QED
      BY <2>1, <2>2
  <1>10. disk' \in Seq(Piece) /\ NoTwice(disk') /\ Range(disk') = Range(queue) \cup moved
    <2>1. CASE waiting = <<>>
      BY <1>4, <1>6, <1>8, <2>1 DEF NoTwice
    <2>2. CASE waiting # <<>>
      <3>1. PICK e : e = Head(waiting)
        OBVIOUS
      <3>2. moved = {e} /\ disk' = Append(queue, e)
        BY <1>4, <1>8, <2>2, <3>1
      <3>3. e \in Piece
        BY <1>5, <1>9, <3>2 DEF Range
      <3>4. e \notin Range(queue)
        BY <1>6, <1>7, <1>9, <3>2
      <3>5. /\ Append(queue, e) \in Seq(Piece) /\ Range(Append(queue, e)) = Range(queue) \cup {e}
            /\ NoTwice(Append(queue, e))
        BY <1>6, <3>3, <3>4, QueueAppend
      <3>6. QED
        BY <3>2, <3>5 DEF NoTwice
    <2>3. QED
      BY <2>1, <2>2
  <1>11. /\ requestsQueue' \in [Disks -> Seq(Piece)] /\ requestsQueue'[d] = rest
         /\ \A e \in Disks : e # d => requestsQueue'[e] = requestsQueue[e]
    BY <1>3, <1>4, <1>5, <1>8, <1>9
  <1>12. \A s \in moved : s.disk = d /\ s \in Waiting /\ s \notin Outstanding
    BY <1>3, <1>5, <1>7, <1>9
  <1>13. ASSUME NEW e \in Disks
         PROVE  /\ NoTwice(requestsQueue'[e])
                /\ Range(requestsQueue'[e]) = Range(requestsQueue[e]) \ moved
    <2>1. CASE e = d
      BY <1>3, <1>9, <1>11, <2>1
    <2>2. CASE e # d
      <3>1. Range(requestsQueue[e]) \cap moved = {}
        BY <1>5, <1>12, <2>2
      <3>2. requestsQueue'[e] = requestsQueue[e] /\ NoTwice(requestsQueue[e])
        BY <1>5, <1>11, <2>2
      <3>3. QED
        BY <3>1, <3>2
    <2>3. QED
      BY <2>1, <2>2
  <1>14. Waiting' = Waiting \ moved
    BY <1>13 DEF Waiting
  <1>15. Outstanding' = (Outstanding \ {sub}) \cup moved
    BY <1>6, <1>10 DEF Outstanding
  <1>16. Range(disk') \cap delayed' = {}
    BY <1>6, <1>10, <1>12
  <1>17. Passed(sub, moved)
    BY <1>2, <1>3, <1>6, <1>9, <1>10, <1>11, <1>13, <1>14, <1>15, <1>16 DEF Passed
  <1>18. QED
    BY <1>17

\* StorageManager counts a stripe, and answers after the last one.
LEMMA RaidResponseKept ==
    ASSUME IInv, NEW sub, NEW queue, Leaves(sub, queue), RaidResponse(sub, queue)
    PROVE  /\ IInv'
           /\ \/ answered' = answered
              \/ answered' = answered \cup {sub.parent} /\ HeldOf(sub.parent) \subseteq {sub}
  <1>1. /\ VolumeTypeOK /\ FlightInv /\ NoneArrivedYet /\ fault = "none"
        /\ sub \in Piece /\ sub \in Held /\ sub \in Outstanding /\ sub \notin Waiting
        /\ sub.parent \in Requests /\ sub.parent \in asked /\ sub.parent \notin answered
        /\ sub \in Pieces(sub.parent)
        /\ delayed' \subseteq Piece /\ transferred' \in [Requests -> SUBSET Nat]
    BY LeavesFacts
  <1>2. PICK p \in Requests, d \in Disks, n \in Nat :
            p = sub.parent /\ d = sub.disk /\ n = NumSubRequest(p)
    BY <1>1, StripeNumber DEF Piece
  <1>3. PICK moved : Passed(sub, moved)
    BY NextSent
  <1>4. /\ kind = "raid"
        /\ arrivedSubRequests' = [arrivedSubRequests EXCEPT ![p] = @ + 1]
        /\ isStorageSystemIdle' = [isStorageSystemIdle EXCEPT ![d] = requestsQueue[d] = <<>>]
        /\ \/ arrivedSubRequests'[p] = n /\ answered' = answered \cup {p} /\ fault' \in {"none", "double deletion"}
           \/ arrivedSubRequests'[p] # n /\ answered' = answered /\ fault' = fault
    BY <1>2 DEF RaidResponse, ArrivesAllSubRequest, Answer
  <1>5. kind' = kind /\ asked' = asked /\ \A r : Pieces(r)' = Pieces(r)
    BY DEF Leaves, Pieces
  <1>6. /\ moved \subseteq Range(requestsQueue[d]) /\ (requestsQueue[d] = <<>> <=> moved = {})
        /\ \A s, t \in moved : s = t
        /\ disk' \in Seq(Piece) /\ NoTwice(disk')
        /\ Outstanding' = (Outstanding \ {sub}) \cup moved /\ Waiting' = Waiting \ moved
        /\ Range(disk) \subseteq Range(disk') \cup {sub} /\ moved \subseteq Range(disk')
        /\ Range(disk') \cap delayed' = {}
        /\ requestsQueue' \in [Disks -> Seq(Piece)]
        /\ \A e \in Disks : /\ NoTwice(requestsQueue'[e])
                            /\ e # d => requestsQueue'[e] = requestsQueue[e]
                            /\ Range(requestsQueue'[e]) = Range(requestsQueue[e]) \ moved
    BY <1>2, <1>3 DEF Passed
  <1>7. moved \subseteq Waiting
    BY <1>6 DEF Waiting
  <1>8. Held' = Held \ {sub}
    BY <1>1, <1>6, <1>7 DEF Held
  <1>9. \A r : HeldOf(r)' = HeldOf(r) \ {sub}
    BY <1>8 DEF HeldOf
  <1>10. /\ arrivedSubRequests \in [Requests -> Nat] /\ arrivedSubRequests' \in [Requests -> Nat]
         /\ arrivedSubRequests'[p] = arrivedSubRequests[p] + 1
         /\ \A r \in Requests : r # p => arrivedSubRequests'[r] = arrivedSubRequests[r]
    <2>1. /\ arrivedSubRequests \in [Requests -> Nat]
          /\ arrivedSubRequests' = [arrivedSubRequests EXCEPT ![p] = @ + 1]
      BY <1>1, <1>4 DEF VolumeTypeOK
    <2>2. PICK k \in Nat : k = arrivedSubRequests[p] + 1
      BY <2>1
    <2>3. arrivedSubRequests' = [arrivedSubRequests EXCEPT ![p] = k]
      BY <2>1, <2>2
    <2>4. QED
      BY ONLY <2>1, <2>2, <2>3, p \in Requests, k \in Nat
  <1>11. ASSUME NEW r \in asked
         PROVE  arrivedSubRequests'[r] + Cardinality(HeldOf(r)') = NumSubRequest(r)
    <2>1. r \in Requests /\ arrivedSubRequests[r] \in Nat
      BY <1>1, <1>10 DEF VolumeTypeOK
    <2>2. arrivedSubRequests[r] + Cardinality(HeldOf(r)) = NumSubRequest(r)
      BY <1>1, <1>4 DEF FlightInv, StripesHeld
    <2>3. IsFiniteSet(HeldOf(r))
      BY <1>1, <1>4, <2>1, HeldFinite DEF FlightInv
    <2>4. Cardinality(HeldOf(r)) \in Nat
      BY <2>3, FS_CardinalityType
    <2>5. CASE r = p
      <3>1. sub \in HeldOf(r)
        BY <1>1, <1>2, <2>5 DEF HeldOf
      <3>2. Cardinality(HeldOf(r) \ {sub}) = Cardinality(HeldOf(r)) - 1
        BY <2>3, <3>1, FS_RemoveElement
      <3>3. QED
        BY <1>9, <1>10, <2>1, <2>2, <2>4, <2>5, <3>2
    <2>6. CASE r # p
      <3>1. HeldOf(r)' = HeldOf(r)
        BY <1>2, <1>9, <2>6 DEF HeldOf
      <3>2. QED
        BY <1>10, <2>1, <2>2, <2>6, <3>1
    <2>7. QED
      BY <2>5, <2>6
  <1>12. ASSUME arrivedSubRequests'[p] = n PROVE HeldOf(p)' = {}
    <2>1. PICK H : H = HeldOf(p)'
      OBVIOUS
    <2>2. IsFiniteSet(HeldOf(p)) /\ H = HeldOf(p) \ {sub}
      BY <1>1, <1>4, <1>9, <2>1, HeldFinite DEF FlightInv
    <2>3. IsFiniteSet(H)
      BY <2>2, FS_RemoveElement
    <2>4. Cardinality(H) \in Nat /\ n + Cardinality(H) = n
      BY <1>1, <1>2, <1>11, <1>12, <2>1, <2>3, FS_CardinalityType
    <2>5. Cardinality(H) = 0
      BY <2>4
    <2>6. QED
      BY <2>1, <2>3, <2>5, FS_EmptySet
  <1>13. VolumeTypeOK'
    <2>1. isStorageSystemIdle' \in [Disks -> BOOLEAN]
      BY <1>1, <1>4 DEF VolumeTypeOK
    <2>2. answered' \subseteq asked'
      BY <1>1, <1>2, <1>4, <1>5 DEF VolumeTypeOK
    <2>3. QED
      BY <1>1, <1>5, <1>6, <1>10, <2>1, <2>2 DEF VolumeTypeOK
  <1>14. NoneArrivedYet'
    BY <1>1, <1>2, <1>5, <1>10 DEF NoneArrivedYet
  <1>15. PiecesPlaced'
    <2>1. ASSUME NEW s \in Held'
          PROVE  s.parent \in asked' \ answered' /\ s \in Pieces(s.parent)'
      <3>1. s \in Held
        BY <1>8
      <3>2. s.parent \in asked \ answered /\ s \in Pieces(s.parent)
        BY <1>1, <3>1 DEF FlightInv, PiecesPlaced
      <3>3. s.parent = p => arrivedSubRequests'[p] # n
        BY <1>12, <2>1 DEF HeldOf
      <3>4. QED
        BY <1>4, <1>5, <3>2, <3>3
    <2>2. Waiting' \cap Outstanding' = {}
      BY <1>1, <1>6 DEF FlightInv, PiecesPlaced
    <2>3. QED
      BY <1>6, <2>1, <2>2 DEF PiecesPlaced, NoTwice
  <1>16. BlocksServed'
    BY <1>6, ServedKept
  <1>17. NothingQueued' /\ StripesHeld'
    BY <1>4, <1>5, <1>11 DEF NothingQueued, StripesHeld
  <1>18. DisksServe'
    <2>1. /\ \A e \in Disks : /\ \A s \in Range(requestsQueue[e]) : s.disk = e
                              /\ isStorageSystemIdle[e] => requestsQueue[e] = <<>>
                              /\ ~isStorageSystemIdle[e] => \E s \in Outstanding : s.disk = e
          /\ \A s \in Outstanding : ~isStorageSystemIdle[s.disk]
          /\ \A s, t \in Outstanding : s.disk = t.disk => s = t
      BY <1>1, <1>4 DEF FlightInv, DisksServe
    <2>2. /\ isStorageSystemIdle'[d] = (moved = {})
          /\ \A e \in Disks : e # d => isStorageSystemIdle'[e] = isStorageSystemIdle[e]
      BY <1>1, <1>4, <1>6 DEF VolumeTypeOK
    <2>3. \A s \in moved : s.disk = d
      BY <1>6, <2>1
    <2>4. \A s \in Outstanding : s.disk = d <=> s = sub
      BY <1>1, <1>2, <2>1
    <2>5. \A s, t \in Outstanding' : s.disk = t.disk => s = t
      BY <1>6, <2>1, <2>3, <2>4
    <2>6. \A s \in Outstanding' : ~isStorageSystemIdle'[s.disk]
      <3>1. TAKE s \in Outstanding'
      <3>2. CASE s \in moved
        BY <2>2, <2>3, <3>2
      <3>3. CASE s \notin moved
        <4>1. s \in Outstanding /\ s # sub
          BY <1>6, <3>3
        <4>2. s \in Piece
          BY <1>1, <4>1 DEF VolumeTypeOK, Outstanding, Range
        <4>3. s.disk \in Disks /\ s.disk # d
          BY <2>4, <4>1, <4>2 DEF Piece
        <4>4. QED
          BY <2>1, <2>2, <4>1, <4>3
      <3>4. QED
        BY <3>2, <3>3
    <2>7. ASSUME NEW e \in Disks
          PROVE  /\ \A s \in Range(requestsQueue'[e]) : s.disk = e
                 /\ isStorageSystemIdle'[e] => requestsQueue'[e] = <<>>
                 /\ ~isStorageSystemIdle'[e] => \E s \in Outstanding' : s.disk = e
      <3>1. \A s \in Range(requestsQueue'[e]) : s.disk = e
        BY <1>6, <2>1
      <3>2. CASE e = d
        <4>1. ASSUME isStorageSystemIdle'[d] PROVE requestsQueue'[d] = <<>>
          <5>1. requestsQueue[d] = <<>>
            BY <1>6, <2>2, <4>1
          <5>2. PICK q : q = requestsQueue'[d]
            OBVIOUS
          <5>3. Range(requestsQueue[d]) = {}
            BY <5>1 DEF Range
          <5>4. q \in Seq(Piece) /\ Range(q) = {}
            BY <1>6, <5>2, <5>3
          <5>5. q = <<>>
            BY <5>4, EmptyQueue
          <5>6. QED
            BY <5>2, <5>5
        <4>2. ~isStorageSystemIdle'[d] => \E s \in Outstanding' : s.disk = d
          BY <1>6, <2>2, <2>3
        <4>3. QED
          BY <3>1, <3>2, <4>1, <4>2
      <3>3. CASE e # d
        <4>1. isStorageSystemIdle'[e] => requestsQueue'[e] = <<>>
          BY <1>6, <2>1, <2>2, <3>3
        <4>2. ~isStorageSystemIdle'[e] => \E s \in Outstanding' : s.disk = e
          BY <1>2, <1>6, <2>1, <2>2, <3>3
        <4>3. QED
          BY <3>1, <4>1, <4>2
      <3>4. QED
        BY <3>2, <3>3
    <2>8. QED
      BY <1>6, <2>5, <2>6, <2>7 DEF DisksServe, NoTwice
  <1>19. \/ answered' = answered
         \/ answered' = answered \cup {p} /\ HeldOf(p) \subseteq {sub}
    BY <1>4, <1>9, <1>12
  <1>20. QED
    BY <1>2, <1>13, <1>14, <1>15, <1>16, <1>17, <1>18, <1>19 DEF IInv, FlightInv

-------------------------------------------------------------------------------
(* Requests.                                                               *)

\* Request r comes, and what is held is what was held and its pieces.
Comes(r) ==
    /\ r \in Requests \ asked /\ asked' = asked \cup {r} /\ fault = "none" /\ fault' = fault
    /\ kind' = kind /\ answered' = answered /\ delayed' = delayed /\ transferred' = transferred
    /\ arrivedSubRequests' = arrivedSubRequests
    /\ isStorageSystemIdle' \in [Disks -> BOOLEAN]
    /\ requestsQueue' \in [Disks -> Seq(Piece)]
    /\ disk' \in Seq(Piece) /\ NoTwice(disk') /\ Range(disk') \cap delayed = {}
    /\ Range(disk) \subseteq Range(disk') /\ Waiting' \cap Outstanding' = {}
    /\ (Waiting \cup Range(disk))' = Waiting \cup Range(disk) \cup Pieces(r)

\* Such a step keeps what is not about the disks.
LEMMA ComesKept ==
    ASSUME IInv, NEW r, Comes(r)
    PROVE  VolumeTypeOK' /\ NoneArrivedYet' /\ PiecesPlaced' /\ BlocksServed' /\ StripesHeld'
  <1>1. VolumeTypeOK /\ FlightInv /\ NoneArrivedYet
    BY DEF IInv, Comes
  <1>2. /\ r \in Requests /\ r \notin asked /\ asked' = asked \cup {r}
        /\ kind' = kind /\ answered' = answered /\ delayed' = delayed /\ transferred' = transferred
        /\ arrivedSubRequests' = arrivedSubRequests
        /\ disk' \in Seq(Piece) /\ NoTwice(disk') /\ Range(disk') \cap delayed = {}
        /\ Waiting' \cap Outstanding' = {}
        /\ Waiting' \cup Range(disk') = Waiting \cup Range(disk) \cup Pieces(r)
    BY DEF Comes
  <1>3. /\ asked \subseteq Requests /\ answered \subseteq asked /\ kind \in {"null", "raid"}
        /\ \A s \in Held : s.parent \in asked \ answered /\ s \in Pieces(s.parent)
    BY <1>1 DEF VolumeTypeOK, FlightInv, PiecesPlaced
  <1>4. VolumeTypeOK'
    BY <1>1, <1>2 DEF VolumeTypeOK, Comes
  <1>5. NoneArrivedYet'
    BY <1>1, <1>2 DEF NoneArrivedYet
  <1>6. Held' = Held \cup Pieces(r)
    BY <1>2 DEF Held, Outstanding
  <1>7. \A x : Pieces(x)' = Pieces(x)
    BY <1>2 DEF Pieces
  <1>8. \A s \in Pieces(r) : s.parent = r /\ s \notin Held
    <2>1. \A s \in Pieces(r) : s.parent = r
      BY <1>2, <1>3, PieceFacts
    <2>2. QED
      BY <1>2, <1>3, <2>1
  <1>9. PiecesPlaced'
    <2>1. ASSUME NEW s \in Held'
          PROVE  s.parent \in asked' \ answered' /\ s \in Pieces(s.parent)'
      BY <1>2, <1>3, <1>6, <1>7, <1>8
    <2>2. QED
      BY <1>2, <2>1 DEF PiecesPlaced, NoTwice
  <1>10. BlocksServed'
    <2>1. ASSUME NEW x \in asked', NEW s \in Pieces(x), s \notin Waiting' \cup Range(disk')
          PROVE  BlocksOf(s) \subseteq transferred'[x]
      <3>1. x # r /\ x \in asked /\ s \notin Waiting \cup Range(disk)
        BY <1>2, <2>1
      <3>2. QED
        BY <1>1, <1>2, <3>1 DEF FlightInv, BlocksServed
    <2>2. \A x \in Requests : transferred'[x] \subseteq Blocks(x)
      BY <1>1, <1>2 DEF FlightInv, BlocksServed
    <2>3. QED
      BY <1>7, <2>1, <2>2 DEF BlocksServed
  <1>11. StripesHeld'
    <2> SUFFICES ASSUME kind = "raid", NEW x \in asked'
                 PROVE  arrivedSubRequests[x] + Cardinality(HeldOf(x)') = NumSubRequest(x)
      BY <1>2 DEF StripesHeld
    <2>1. CASE x = r
      <3>1. HeldOf(x)' = SubRequests(r)
        BY <1>2, <1>3, <1>6, <1>8, <2>1 DEF HeldOf, Pieces
      <3>2. arrivedSubRequests[x] = 0
        BY <1>1, <1>2, <2>1 DEF NoneArrivedYet
      <3>3. Cardinality(SubRequests(r)) = NumSubRequest(r) /\ NumSubRequest(r) \in Nat
        BY <1>2, StripesCounted, StripeNumber
      <3>4. QED
        BY <2>1, <3>1, <3>2, <3>3
    <2>2. CASE x # r
      <3>1. HeldOf(x)' = HeldOf(x)
        BY <1>6, <1>8, <2>2 DEF HeldOf
      <3>2. x \in asked
        BY <1>2, <2>2
      <3>3. QED
        BY <1>1, <3>1, <3>2 DEF FlightInv, StripesHeld
    <2>3. QED
      BY <2>1, <2>2
  <1>12. QED
    BY <1>4, <1>5, <1>9, <1>10, <1>11

\* NullStorageManager passes a request on.
LEMMA NullRequestKept ==
    ASSUME IInv, NEW r \in Requests, ProcessRequest(r), NullRequest(r)
    PROVE  IInv'
  <1>1. /\ fault = "none" /\ r \notin asked /\ asked' = asked \cup {r} /\ kind' = kind
        /\ answered' = answered /\ delayed' = delayed /\ transferred' = transferred
    BY Zenon DEF ProcessRequest
  <1>2. /\ kind = "null" /\ disk' = Append(disk, WholeRequest(r)) /\ fault' = fault
        /\ isStorageSystemIdle' = isStorageSystemIdle /\ requestsQueue' = requestsQueue
        /\ arrivedSubRequests' = arrivedSubRequests
    BY Zenon DEF NullRequest, volume
  <1>3. VolumeTypeOK /\ FlightInv
    BY <1>1 DEF IInv
  <1>4. PICK w \in Piece : w = WholeRequest(r) /\ w.parent = r /\ Pieces(r) = {w}
    BY <1>2, WholeFacts DEF Pieces
  <1>5. w \notin Held
    BY <1>1, <1>3, <1>4 DEF FlightInv, PiecesPlaced
  <1>6. disk \in Seq(Piece) /\ NoTwice(disk) /\ w \notin Range(disk)
    BY <1>3, <1>5 DEF VolumeTypeOK, FlightInv, PiecesPlaced, Held, Outstanding
  <1>7. disk' \in Seq(Piece) /\ Range(disk') = Range(disk) \cup {w} /\ NoTwice(disk')
    <2>1. /\ Append(disk, w) \in Seq(Piece) /\ Range(Append(disk, w)) = Range(disk) \cup {w}
          /\ NoTwice(Append(disk, w))
      BY <1>6, QueueAppend
    <2>2. QED
      BY <1>2, <1>4, <2>1 DEF NoTwice
  <1>8. Waiting' = Waiting
    BY <1>2 DEF Waiting
  <1>9. Range(disk') \cap delayed = {} /\ Waiting' \cap Outstanding' = {}
    BY <1>1, <1>3, <1>5, <1>7, <1>8 DEF FlightInv, PiecesPlaced, Outstanding, Held
  <1>10. Comes(r)
    BY <1>1, <1>2, <1>3, <1>4, <1>7, <1>8, <1>9 DEF Comes, VolumeTypeOK
  <1>11. NothingQueued' /\ DisksServe'
    BY <1>1, <1>2, <1>3 DEF FlightInv, NothingQueued, DisksServe
  <1>12. QED
    BY <1>10, <1>11, ComesKept DEF IInv, FlightInv

\* StorageManager splits a request, and busies the idle disks that have a part of it.
LEMMA RaidRequestKept ==
    ASSUME IInv, NEW r \in Requests, ProcessRequest(r), RaidRequest(r)
    PROVE  IInv'
  <1>1. /\ fault = "none" /\ r \notin asked /\ asked' = asked \cup {r} /\ kind' = kind
        /\ answered' = answered /\ delayed' = delayed /\ transferred' = transferred
    BY Zenon DEF ProcessRequest
  <1>2. VolumeTypeOK /\ FlightInv /\ NoneArrivedYet /\ kind = "raid"
    BY <1>1 DEF IInv, RaidRequest
  <1>3. CASE r \in Deletions
    <2>1. /\ fault' = "branch" /\ disk' = disk /\ isStorageSystemIdle' = isStorageSystemIdle
          /\ requestsQueue' = requestsQueue /\ arrivedSubRequests' = arrivedSubRequests
      BY <1>3, Zenon DEF RaidRequest, volume
    <2>2. VolumeTypeOK'
      BY <1>1, <1>2, <2>1 DEF VolumeTypeOK
    <2>3. NoneArrivedYet'
      BY <1>1, <1>2, <2>1 DEF NoneArrivedYet
    <2>4. QED
      BY <2>1, <2>2, <2>3 DEF IInv
  <1>4. CASE r \notin Deletions
    <2>1. PICK queues : queues = [d \in Disks |-> requestsQueue[d] \o SubRequestsOn(r, d)]
      OBVIOUS
    <2>2. CheckBuses(queues) /\ arrivedSubRequests' = arrivedSubRequests /\ fault' = fault
      BY <1>4, <2>1, Zenon DEF RaidRequest
    <2>3. PICK ready : ready = Ready(isStorageSystemIdle, queues)
      OBVIOUS
    <2>4. PICK order \in Visits(ready) :
            disk' = disk \o [i \in 1 .. Cardinality(ready) |-> Head(queues[order[i]])]
      BY <2>2, <2>3, Zenon DEF CheckBuses, SendFirst
    <2>5. /\ requestsQueue' = [d \in Disks |-> IF d \in ready THEN Tail(queues[d]) ELSE queues[d]]
          /\ isStorageSystemIdle' = [d \in Disks |-> isStorageSystemIdle[d] /\ d \notin ready]
      BY <2>2, <2>3, Zenon DEF CheckBuses, SendFirst
    <2>6. /\ requestsQueue \in [Disks -> Seq(Piece)] /\ disk \in Seq(Piece) /\ NoTwice(disk)
          /\ isStorageSystemIdle \in [Disks -> BOOLEAN]
          /\ \A d \in Disks : /\ NoTwice(requestsQueue[d])
                              /\ \A s \in Range(requestsQueue[d]) : s.disk = d
                              /\ isStorageSystemIdle[d] => requestsQueue[d] = <<>>
                              /\ ~isStorageSystemIdle[d] => \E s \in Outstanding : s.disk = d
          /\ \A s \in Outstanding : ~isStorageSystemIdle[s.disk]
          /\ \A s, t \in Outstanding : s.disk = t.disk => s = t
      BY <1>2 DEF VolumeTypeOK, FlightInv, DisksServe, PiecesPlaced
    <2>7. \A s \in SubRequests(r) : s \in Piece /\ s.parent = r /\ s \notin Held
      <3>1. \A s \in SubRequests(r) : s \in Piece /\ s.parent = r
        BY StripeFacts DEF SubRequests
      <3>2. QED
        BY <1>1, <1>2, <3>1 DEF FlightInv, PiecesPlaced
    <2>8. \A d \in Disks : Range(requestsQueue[d]) \subseteq Waiting /\ Range(requestsQueue[d]) \subseteq Held
      BY DEF Waiting, Held
    <2>9. ASSUME NEW d \in Disks
          PROVE  /\ queues[d] \in Seq(Piece) /\ NoTwice(queues[d])
                 /\ Range(queues[d]) = Range(requestsQueue[d]) \cup {s \in SubRequests(r) : s.disk = d}
                 /\ \A s \in Range(queues[d]) : s.disk = d
      <3>1. PICK a \in Seq(Piece), b \in Seq(Piece) : a = requestsQueue[d] /\ b = SubRequestsOn(r, d)
        BY <2>6, StripesOfDisk
      <3>2. NoTwice(b) /\ Range(b) = {s \in SubRequests(r) : s.disk = d}
        BY <3>1, StripesOfDisk
      <3>3. NoTwice(a) /\ Range(a) \cap Range(b) = {} /\ \A s \in Range(a) : s.disk = d
        BY <2>6, <2>7, <2>8, <3>1, <3>2
      <3>4. a \o b \in Seq(Piece) /\ NoTwice(a \o b) /\ Range(a \o b) = Range(a) \cup Range(b)
        BY <3>2, <3>3, QueueConcat
      <3>5. queues[d] = a \o b
        BY <2>1, <3>1
      <3>6. QED
        BY <3>1, <3>2, <3>3, <3>4, <3>5
    <2>10. ready \subseteq Disks /\ \A d \in Disks : d \in ready <=> isStorageSystemIdle[d] /\ queues[d] # <<>>
      BY <2>3 DEF Ready
    <2>11. ASSUME NEW d \in ready
           PROVE  /\ Tail(queues[d]) \in Seq(Piece) /\ NoTwice(Tail(queues[d]))
                  /\ Head(queues[d]) \in Piece /\ Head(queues[d]) \in Range(queues[d])
                  /\ Head(queues[d]).disk = d /\ Head(queues[d]) \in SubRequests(r)
                  /\ Range(Tail(queues[d])) = Range(queues[d]) \ {Head(queues[d])}
      <3>1. PICK q \in Seq(Piece) : q = queues[d] /\ NoTwice(q) /\ q # <<>>
        BY <2>9, <2>10
      <3>2. /\ Tail(q) \in Seq(Piece) /\ NoTwice(Tail(q)) /\ Head(q) \in Piece
            /\ Head(q) \in Range(q) /\ Range(Tail(q)) = Range(q) \ {Head(q)}
        BY <3>1, QueueTail
      <3>3. Range(requestsQueue[d]) = {}
        BY <2>6, <2>10 DEF Range
      <3>4. Head(q).disk = d /\ Head(q) \in SubRequests(r)
        BY <2>9, <2>10, <3>1, <3>2, <3>3
      <3>5. QED
        BY <3>1, <3>2, <3>4
    <2>12. PICK first : first = {Head(queues[d]) : d \in ready}
      OBVIOUS
    <2>13. first \subseteq SubRequests(r) /\ \A s \in first : s.disk \in ready /\ s = Head(queues[s.disk])
      BY <2>11, <2>12
    <2>14. disk' \in Seq(Piece) /\ NoTwice(disk') /\ Range(disk') = Range(disk) \cup first
      <3>1. PICK n, sent : n = Cardinality(ready) /\ sent = InOrder(queues, order, n)
        OBVIOUS
      <3>2. queues \in [Disks -> Seq(Piece)]
        BY <2>1, <2>9
      <3>3. sent \in Seq(Piece) /\ NoTwice(sent) /\ Range(sent) = first
        <4>1. /\ ready \in SUBSET Disks /\ order \in Visits(ready)
              /\ \A d \in ready : Head(queues[d]) \in Piece /\ Head(queues[d]).disk = d
          BY <2>10, <2>11
        <4>2. /\ sent \in Seq(Piece) /\ NoTwice(sent)
              /\ Range(sent) = Firsts(queues, ready)
          BY ONLY <3>1, <3>2, <4>1, FirstsSent
        <4>3. QED
          BY <2>12, <4>2 DEF Firsts
      <3>4. Range(disk) \cap first = {}
        BY <2>7, <2>13 DEF Held, Outstanding
      <3>5. /\ disk \o sent \in Seq(Piece) /\ NoTwice(disk \o sent)
            /\ Range(disk \o sent) = Range(disk) \cup first
        BY <2>6, <3>3, <3>4, QueueConcat
      <3>6. QED
        BY <2>4, <3>1, <3>5 DEF NoTwice, InOrder
    <2>15. ASSUME NEW d \in Disks
           PROVE  /\ requestsQueue'[d] \in Seq(Piece) /\ NoTwice(requestsQueue'[d])
                  /\ Range(requestsQueue'[d]) = Range(queues[d]) \ first
      <3>1. CASE d \in ready
        <4>1. requestsQueue'[d] = Tail(queues[d])
          BY <2>5, <3>1
        <4>2. \A s \in Range(queues[d]) : s \in first <=> s = Head(queues[d])
          BY <2>9, <2>12, <2>13, <3>1
        <4>3. QED
          BY <2>11, <3>1, <4>1, <4>2
      <3>2. CASE d \notin ready
        <4>1. requestsQueue'[d] = queues[d]
          BY <2>5, <3>2
        <4>2. \A s \in Range(queues[d]) : s \notin first
          BY <2>9, <2>13, <3>2
        <4>3. QED
          BY <2>9, <4>1, <4>2
      <3>3. QED
        BY <3>1, <3>2
    <2>16. Waiting' = (Waiting \cup SubRequests(r)) \ first
      <3>1. \A s \in SubRequests(r) : s.disk \in Disks
        BY <2>7 DEF Piece
      <3>2. QED
        BY <2>9, <2>15, <3>1 DEF Waiting
    <2>17. Outstanding' = Outstanding \cup first
      BY <1>1, <2>14 DEF Outstanding
    <2>18. Comes(r)
      <3>1. requestsQueue' \in [Disks -> Seq(Piece)]
        BY <2>5, <2>15
      <3>2. isStorageSystemIdle' \in [Disks -> BOOLEAN]
        BY <2>5
      <3>3. Pieces(r) = SubRequests(r)
        BY <1>2 DEF Pieces
      <3>4. Range(disk') \cap delayed = {}
        BY <1>2, <2>7, <2>13, <2>14 DEF FlightInv, PiecesPlaced, Held, Outstanding
      <3>5. Waiting' \cap Outstanding' = {}
        <4>1. Waiting \cap Outstanding = {} /\ SubRequests(r) \cap Outstanding = {}
          BY <1>2, <2>7 DEF FlightInv, PiecesPlaced, Held
        <4>2. QED
          BY <2>16, <2>17, <4>1
      <3>6. (Waiting \cup Range(disk))' = Waiting \cup Range(disk) \cup Pieces(r)
        <4>1. first \cap Waiting = {}
          BY <2>7, <2>13 DEF Held
        <4>2. QED
          BY <2>13, <2>14, <2>16, <3>3, <4>1
      <3>7. QED
        BY <1>1, <2>2, <2>14, <3>1, <3>2, <3>4, <3>5, <3>6 DEF Comes
    <2>19. NothingQueued'
      BY <1>1, <1>2 DEF NothingQueued
    <2>20. DisksServe'
      <3>1. \A d \in Disks : isStorageSystemIdle'[d] = (isStorageSystemIdle[d] /\ d \notin ready)
        BY <2>5
      <3>2. \A s \in Outstanding : s.disk \in Disks
        <4>1. Outstanding \subseteq Piece
          BY <1>2 DEF VolumeTypeOK, Outstanding, Range
        <4>2. QED
          BY <4>1 DEF Piece
      <3>3. ASSUME NEW d \in Disks
            PROVE  /\ \A s \in Range(requestsQueue'[d]) : s.disk = d
                   /\ isStorageSystemIdle'[d] => requestsQueue'[d] = <<>>
                   /\ ~isStorageSystemIdle'[d] => \E s \in Outstanding' : s.disk = d
        <4>1. \A s \in Range(requestsQueue'[d]) : s.disk = d
          BY <2>9, <2>15
        <4>2. isStorageSystemIdle'[d] => requestsQueue'[d] = <<>>
          BY <2>5, <2>10, <3>1
        <4>3. CASE ~isStorageSystemIdle[d]
          BY <2>6, <2>17, <3>1, <4>1, <4>2, <4>3
        <4>4. CASE d \in ready
          BY <2>11, <2>12, <2>17, <3>1, <4>1, <4>4
        <4>5. QED
          BY <3>1, <4>1, <4>2, <4>3, <4>4
      <3>4. \A s \in Outstanding' : ~isStorageSystemIdle'[s.disk]
        BY <2>6, <2>10, <2>13, <2>17, <3>1, <3>2
      <3>5. \A s, t \in Outstanding' : s.disk = t.disk => s = t
        <4>1. \A s \in first : isStorageSystemIdle[s.disk]
          BY <2>10, <2>13
        <4>2. QED
          BY <2>6, <2>13, <2>17, <4>1
      <3>6. QED
        BY <2>15, <3>3, <3>4, <3>5 DEF DisksServe, NoTwice
    <2>21. QED
      BY <2>18, <2>19, <2>20, ComesKept DEF IInv, FlightInv
  <1>5. QED
    BY <1>3, <1>4

-------------------------------------------------------------------------------
(* Every step keeps the invariant and is one of AbstractVolume, or none.   *)

\* A piece is served, and its request is answered only with its last block.
LEMMA Transfers ==
    ASSUME VolumeTypeOK, FlightInv, NEW sub \in Held, asked' = asked,
           transferred' = [transferred EXCEPT ![sub.parent] = @ \cup BlocksOf(sub)],
           \/ answered' = answered
           \/ answered' = answered \cup {sub.parent} /\ HeldOf(sub.parent) \subseteq {sub}
    PROVE  sub.parent \in Requests /\ Abstract!Transfer(sub.parent)
  <1>1. PICK r \in Requests : r = sub.parent /\ r \in asked /\ r \notin answered /\ sub \in Pieces(r)
    BY DEF FlightInv, PiecesPlaced, VolumeTypeOK
  <1>2. PICK B : B = [x \in Requests |-> 0 .. SectorsOf[x] - 1]
    OBVIOUS
  <1>3. B[r] = Blocks(r)
    BY <1>2 DEF Blocks
  <1>4. BlocksOf(sub) \subseteq Blocks(r)
    BY <1>1, PieceFacts DEF VolumeTypeOK
  <1>5. transferred \in [Requests -> SUBSET Nat]
    BY DEF VolumeTypeOK
  <1>6. PICK some : some = BlocksOf(sub) \ transferred[r]
    OBVIOUS
  <1>7. /\ some \in SUBSET (B[r] \ transferred[r])
        /\ transferred[r] \cup some = transferred[r] \cup BlocksOf(sub)
    BY <1>3, <1>4, <1>6
  <1>8. transferred' = [transferred EXCEPT ![r] = @ \cup some]
    BY <1>1, <1>7
  <1>9. \/ answered' = answered
        \/ r \notin answered /\ transferred'[r] = B[r] /\ answered' = answered \cup {r}
    <2>1. CASE answered' = answered
      BY <2>1
    <2>2. CASE answered' = answered \cup {r} /\ HeldOf(r) \subseteq {sub}
      <3>1. transferred[r] \cup BlocksOf(sub) = Blocks(r)
        BY <1>1, <2>2, LastBlocks
      <3>2. transferred'[r] = transferred[r] \cup BlocksOf(sub)
        BY <1>1, <1>5
      <3>3. QED
        BY <1>1, <1>3, <2>2, <3>1, <3>2
    <2>3. QED
      BY <1>1, <2>1, <2>2
  <1>10. Abstract!Transfer(r)
    BY <1>1, <1>2, <1>7, <1>8, <1>9 DEF Abstract!Transfer
  <1>11. QED
    BY <1>1, <1>10

\* A response, with either manager.
LEMMA ResponseKept ==
    ASSUME IInv, NEW sub, NEW queue, Leaves(sub, queue),
           NullResponse(sub, queue) \/ RaidResponse(sub, queue)
    PROVE  IInv' /\ sub.parent \in Requests /\ Abstract!Transfer(sub.parent)
  <1>1. /\ VolumeTypeOK /\ FlightInv /\ sub \in Held /\ sub \in Pieces(sub.parent)
        /\ sub.parent \in Requests
    BY LeavesFacts
  <1>2. /\ transferred' = [transferred EXCEPT ![sub.parent] = @ \cup BlocksOf(sub)]
        /\ asked' = asked
    BY DEF Leaves
  <1>3. CASE NullResponse(sub, queue)
    <2>1. kind = "null" /\ answered' = answered \cup {sub.parent}
      BY <1>3 DEF NullResponse, Answer
    <2>2. \A s \in HeldOf(sub.parent) : s = WholeRequest(sub.parent)
      BY <1>1, <2>1 DEF FlightInv, PiecesPlaced, HeldOf, Pieces
    <2>3. sub = WholeRequest(sub.parent)
      BY <1>1, <2>1 DEF Pieces
    <2>4. HeldOf(sub.parent) \subseteq {sub}
      BY <2>2, <2>3
    <2>5. Abstract!Transfer(sub.parent)
      BY <1>1, <1>2, <2>1, <2>4, Transfers
    <2>6. QED
      BY <1>1, <1>3, <2>5, NullResponseKept
  <1>4. CASE RaidResponse(sub, queue)
    <2>1. /\ IInv'
          /\ \/ answered' = answered
             \/ answered' = answered \cup {sub.parent} /\ HeldOf(sub.parent) \subseteq {sub}
      BY <1>4, RaidResponseKept
    <2>2. Abstract!Transfer(sub.parent)
      BY <1>1, <1>2, <2>1, Transfers
    <2>3. QED
      BY <1>1, <2>1, <2>2
  <1>5. QED
    BY <1>3, <1>4

\* The hypervisor delays a response.
LEMMA DelayKept ==
    ASSUME IInv, EndOfService, overhead
    PROVE  IInv' /\ \E r \in Requests : Abstract!Transfer(r)
  <1>1. /\ fault = "none" /\ disk # <<>> /\ kind' = kind /\ asked' = asked
        /\ transferred' = [transferred EXCEPT ![Head(disk).parent] = @ \cup BlocksOf(Head(disk))]
        /\ delayed' = delayed \cup {Head(disk)} /\ disk' = Tail(disk)
        /\ answered' = answered /\ fault' = fault
        /\ isStorageSystemIdle' = isStorageSystemIdle /\ requestsQueue' = requestsQueue
        /\ arrivedSubRequests' = arrivedSubRequests
    BY Zenon DEF EndOfService, volume
  <1>2. VolumeTypeOK /\ FlightInv /\ NoneArrivedYet
    BY <1>1 DEF IInv
  <1>3. PICK sub : sub = Head(disk)
    OBVIOUS
  <1>4. disk \in Seq(Piece) /\ NoTwice(disk) /\ Range(disk) \cap delayed = {}
    BY <1>2 DEF VolumeTypeOK, FlightInv, PiecesPlaced
  <1>5. /\ disk' \in Seq(Piece) /\ NoTwice(disk') /\ sub \in Range(disk) /\ sub \in Piece
        /\ Range(disk') = Range(disk) \ {sub}
    <2>1. /\ Tail(disk) \in Seq(Piece) /\ NoTwice(Tail(disk)) /\ Head(disk) \in Range(disk)
          /\ Head(disk) \in Piece /\ Range(Tail(disk)) = Range(disk) \ {Head(disk)}
      BY <1>1, <1>4, QueueTail
    <2>2. QED
      BY <1>1, <1>3, <2>1 DEF NoTwice
  <1>6. sub \in Held
    BY <1>5 DEF Held, Outstanding
  <1>7. sub.parent \in Requests /\ Abstract!Transfer(sub.parent)
    BY <1>1, <1>2, <1>3, <1>6, Transfers
  <1>8. PICK p \in Requests : p = sub.parent
    BY <1>7
  <1>9. BlocksOf(sub) \subseteq Blocks(p) /\ Blocks(p) \subseteq Nat
    <2>1. sub \in Pieces(p)
      BY <1>2, <1>6, <1>8 DEF FlightInv, PiecesPlaced
    <2>2. QED
      BY <1>2, <2>1, PieceFacts, VolumeAssumption DEF VolumeTypeOK, Blocks
  <1>10. /\ transferred \in [Requests -> SUBSET Nat]
         /\ transferred' = [transferred EXCEPT ![p] = @ \cup BlocksOf(sub)]
         /\ \A r \in Requests : transferred[r] \subseteq Blocks(r)
    BY <1>1, <1>2, <1>3, <1>8 DEF VolumeTypeOK, FlightInv, BlocksServed
  <1>11. /\ transferred' \in [Requests -> SUBSET Nat]
         /\ \A r \in Requests : transferred[r] \subseteq transferred'[r] /\ transferred'[r] \subseteq Blocks(r)
         /\ BlocksOf(sub) \subseteq transferred'[p]
    BY ONLY <1>9, <1>10, p \in Requests
  <1>12. Waiting' = Waiting /\ Outstanding' = Outstanding /\ Held' = Held
    BY <1>1, <1>3, <1>5 DEF Waiting, Outstanding, Held
  <1>13. (\A r : Pieces(r)' = Pieces(r)) /\ (\A r : HeldOf(r)' = HeldOf(r))
    BY <1>1, <1>12 DEF Pieces, HeldOf
  <1>14. VolumeTypeOK'
    BY <1>1, <1>2, <1>3, <1>5, <1>11 DEF VolumeTypeOK
  <1>15. NoneArrivedYet'
    BY <1>1, <1>2 DEF NoneArrivedYet
  <1>16. PiecesPlaced'
    <2>1. Range(disk') \cap delayed' = {}
      BY <1>1, <1>3, <1>4, <1>5
    <2>2. QED
      BY <1>1, <1>2, <1>5, <1>12, <1>13, <2>1 DEF FlightInv, PiecesPlaced, NoTwice
  <1>17. BlocksServed'
    <2>1. ASSUME NEW r \in asked, NEW s \in Pieces(r), s \notin Waiting' \cup Range(disk')
          PROVE  BlocksOf(s) \subseteq transferred'[r]
      <3>1. r \in Requests /\ s.parent = r
        BY <1>2, PieceFacts DEF VolumeTypeOK
      <3>2. CASE s = sub
        BY <1>8, <1>11, <3>1, <3>2
      <3>3. CASE s # sub
        <4>1. s \notin Waiting \cup Range(disk)
          BY <1>5, <1>12, <2>1, <3>3
        <4>2. QED
          BY <1>2, <1>11, <3>1, <4>1 DEF FlightInv, BlocksServed
      <3>4. QED
        BY <3>2, <3>3
    <2>2. QED
      BY <1>1, <1>11, <1>13, <2>1 DEF BlocksServed
  <1>18. NothingQueued' /\ DisksServe' /\ StripesHeld'
    BY <1>1, <1>2, <1>12, <1>13 DEF FlightInv, NothingQueued, DisksServe, StripesHeld, NoTwice
  <1>19. QED
    BY <1>7, <1>14, <1>15, <1>16, <1>17, <1>18 DEF IInv, FlightInv

\* A disk ends a service.
LEMMA ServiceKept ==
    ASSUME IInv, EndOfService
    PROVE  IInv' /\ \E r \in Requests : Abstract!Transfer(r)
  <1>1. CASE overhead
    BY <1>1, DelayKept
  <1>2. CASE ~overhead
    <2>1. PICK sub, queue : sub = Head(disk) /\ queue = Tail(disk)
      OBVIOUS
    <2>2. Leaves(sub, queue)
      BY <1>2, <2>1, LeavesDisk
    <2>3. NullResponse(sub, queue) \/ RaidResponse(sub, queue)
      BY <1>2, <2>1, Zenon DEF EndOfService
    <2>4. QED
      BY <2>2, <2>3, ResponseKept
  <1>3. QED
    BY <1>1, <1>2

\* A delay ends.
LEMMA OverheadKept ==
    ASSUME IInv, NEW sub, EndOfOverhead(sub)
    PROVE  IInv' /\ \E r \in Requests : Abstract!Transfer(r)
  <1>1. PICK queue : queue = disk
    OBVIOUS
  <1>2. Leaves(sub, queue)
    BY <1>1, LeavesHypervisor
  <1>3. NullResponse(sub, queue) \/ RaidResponse(sub, queue)
    BY <1>1, Zenon DEF EndOfOverhead
  <1>4. QED
    BY <1>2, <1>3, ResponseKept

\* A request comes.
LEMMA RequestKept ==
    ASSUME IInv, NEW r \in Requests, ProcessRequest(r)
    PROVE  IInv' /\ Abstract!Ask(r)
  <1>1. /\ r \notin asked /\ asked' = asked \cup {r}
        /\ answered' = answered /\ transferred' = transferred
        /\ NullRequest(r) \/ RaidRequest(r)
    BY Zenon DEF ProcessRequest
  <1>2. IInv'
    BY <1>1, NullRequestKept, RaidRequestKept
  <1>3. QED
    BY <1>1, <1>2 DEF Abstract!Ask

\* Without requests below it, the volume manager sees all disks idle, as before.
LEMMA ChangeDiskStateKept ==
    ASSUME IInv, ChangeDiskState
    PROVE  IInv' /\ UNCHANGED <<asked, transferred, answered>>
  <1>1. /\ fault = "none" /\ disk = <<>> /\ delayed = {} /\ kind' = kind
        /\ isStorageSystemIdle' = [d \in Disks |-> TRUE]
        /\ asked' = asked /\ answered' = answered /\ requestsQueue' = requestsQueue
        /\ arrivedSubRequests' = arrivedSubRequests /\ disk' = disk /\ delayed' = delayed
        /\ transferred' = transferred /\ fault' = fault
    BY Zenon DEF ChangeDiskState
  <1>2. VolumeTypeOK /\ FlightInv /\ NoneArrivedYet
    BY <1>1 DEF IInv
  <1>3. Outstanding = {} /\ Outstanding' = {} /\ Waiting' = Waiting /\ Held' = Held
    BY <1>1 DEF Outstanding, Waiting, Held, Range
  <1>4. (\A r : Pieces(r)' = Pieces(r)) /\ (\A r : HeldOf(r)' = HeldOf(r))
    BY <1>1, <1>3 DEF Pieces, HeldOf
  <1>5. VolumeTypeOK'
    BY <1>1, <1>2 DEF VolumeTypeOK
  <1>6. NoneArrivedYet'
    BY <1>1, <1>2 DEF NoneArrivedYet
  <1>7. PiecesPlaced' /\ BlocksServed'
    BY <1>1, <1>2, <1>3, <1>4 DEF FlightInv, PiecesPlaced, BlocksServed, NoTwice
  <1>8. NothingQueued' /\ StripesHeld'
    BY <1>1, <1>2, <1>4 DEF FlightInv, NothingQueued, StripesHeld
  <1>9. DisksServe'
    <2> SUFFICES ASSUME kind = "raid" PROVE DisksServe'
      BY <1>1 DEF DisksServe
    <2>1. ASSUME NEW d \in Disks
          PROVE  /\ NoTwice(requestsQueue[d]) /\ \A s \in Range(requestsQueue[d]) : s.disk = d
                 /\ requestsQueue[d] = <<>> /\ isStorageSystemIdle'[d]
      BY <1>1, <1>2, <1>3 DEF FlightInv, DisksServe
    <2>2. QED
      BY <1>1, <1>3, <2>1 DEF DisksServe, NoTwice
  <1>10. QED
    BY <1>1, <1>5, <1>6, <1>7, <1>8, <1>9 DEF IInv, FlightInv

\* At the start nothing is held.
LEMMA VolumeStart == Init => IInv
  <1> SUFFICES ASSUME Init PROVE IInv
    OBVIOUS
  <1>1. /\ kind \in {"null", "raid"} /\ asked = {} /\ answered = {}
        /\ isStorageSystemIdle = [d \in Disks |-> TRUE]
        /\ requestsQueue = [d \in Disks |-> <<>>]
        /\ arrivedSubRequests = [r \in Requests |-> 0]
        /\ disk = <<>> /\ delayed = {} /\ transferred = [r \in Requests |-> {}]
    BY VolumeAssumption DEF Init
  <1>2. Waiting = {} /\ Outstanding = {} /\ Held = {}
    BY <1>1 DEF Waiting, Outstanding, Held, Range
  <1>3. VolumeTypeOK /\ NoneArrivedYet
    BY <1>1 DEF VolumeTypeOK, NoneArrivedYet
  <1>4. PiecesPlaced /\ BlocksServed
    BY <1>1, <1>2 DEF PiecesPlaced, BlocksServed, NoTwice
  <1>5. NothingQueued /\ StripesHeld
    BY <1>1 DEF NothingQueued, StripesHeld
  <1>6. DisksServe
    BY <1>1, <1>2 DEF DisksServe, NoTwice, Range
  <1>7. QED
    BY <1>3, <1>4, <1>5, <1>6 DEF IInv, FlightInv

\* Every step keeps the invariant, and is a step of AbstractVolume or none of it.
LEMMA VolumeStep == IInv /\ [Next]_vars => IInv' /\ [Abstract!Next]_<<asked, transferred, answered>>
  <1> SUFFICES ASSUME IInv, [Next]_vars
               PROVE  IInv' /\ [Abstract!Next]_<<asked, transferred, answered>>
    OBVIOUS
  <1>1. CASE \E r \in Requests : ProcessRequest(r)
    BY <1>1, RequestKept DEF Abstract!Next
  <1>2. CASE EndOfService
    BY <1>2, ServiceKept DEF Abstract!Next
  <1>3. CASE \E sub \in AllSubRequests : EndOfOverhead(sub)
    BY <1>3, OverheadKept DEF Abstract!Next
  <1>4. CASE ChangeDiskState
    BY <1>4, ChangeDiskStateKept
  <1>5. CASE UNCHANGED vars
    <2>1. /\ kind' = kind /\ asked' = asked /\ answered' = answered
          /\ isStorageSystemIdle' = isStorageSystemIdle /\ requestsQueue' = requestsQueue
          /\ arrivedSubRequests' = arrivedSubRequests /\ disk' = disk /\ delayed' = delayed
          /\ transferred' = transferred /\ fault' = fault
      BY <1>5, Zenon DEF vars, volume
    <2>2. /\ Waiting' = Waiting /\ Outstanding' = Outstanding /\ Held' = Held
          /\ (\A r : Pieces(r)' = Pieces(r)) /\ (\A r : HeldOf(r)' = HeldOf(r))
      BY <2>1 DEF Waiting, Outstanding, Held, Pieces, HeldOf
    <2>3. VolumeTypeOK' /\ NoneArrivedYet'
      BY <2>1 DEF IInv, VolumeTypeOK, NoneArrivedYet
    <2>4. ASSUME FlightInv PROVE FlightInv'
      BY <2>1, <2>2, <2>4
      DEF FlightInv, PiecesPlaced, BlocksServed, NothingQueued, DisksServe, StripesHeld, NoTwice
    <2>5. QED
      BY <2>1, <2>3, <2>4 DEF IInv
  <1>6. QED
    BY <1>1, <1>2, <1>3, <1>4, <1>5 DEF Next

-------------------------------------------------------------------------------
(* Theorems.                                                               *)

\* Every piece of a request that the volume works on is at one place, with either manager,
\* and the blocks of what has left the disk have been transferred.
THEOREM VolumeInvariant == Spec => []IInv
  <1>1. QED
    BY VolumeStart, VolumeStep, PTL DEF Spec

\* What StorageManager keeps about its disks and requests is true: isStorageSystemIdle, the
\* queues, and the count of the stripes that have arrived.
THEOREM StripesAreAccounted == Spec => []StripesAccounted
  <1>1. IInv => StripesAccounted
    <2> SUFFICES ASSUME IInv, kind = "raid", fault = "none" PROVE StripesAccounted
      BY DEF StripesAccounted
    <2>1. DisksServe /\ StripesHeld
      BY DEF IInv, FlightInv
    <2>2. ASSUME NEW d \in Disks
          PROVE  /\ Cardinality({s \in Outstanding : s.disk = d}) <= 1
                 /\ isStorageSystemIdle[d] <=> {s \in Outstanding : s.disk = d} = {}
                 /\ isStorageSystemIdle[d] => requestsQueue[d] = <<>>
      <3>1. PICK out : out = {s \in Outstanding : s.disk = d}
        OBVIOUS
      <3>2. Cardinality(out) <= 1
        <4>1. CASE out = {}
          BY <4>1, FS_EmptySet
        <4>2. CASE out # {}
          <5>1. PICK s \in out : out = {s}
            BY <2>1, <3>1, <4>2 DEF DisksServe
          <5>2. Cardinality(out) = 1
            BY <5>1, FS_Singleton
          <5>3. QED
            BY <5>2
        <4>3. QED
          BY <4>1, <4>2
      <3>3. QED
        BY <2>1, <3>1, <3>2 DEF DisksServe
    <2>3. \A r \in asked : arrivedSubRequests[r] + Cardinality(HeldOf(r)) = NumSubRequest(r)
      BY <2>1 DEF StripesHeld
    <2>4. QED
      BY <2>2, <2>3, Zenon DEF StripesAccounted, HeldOf, Held, Waiting
  <1>2. QED
    BY <1>1, VolumeInvariant, PTL

\* Both volume managers implement AbstractVolume: whatever the order of the stripes and of
\* their responses, a request is answered once, and after its last block.
THEOREM VolumeImplements == Spec => KeepsPromise
  <1>1. Init => Abstract!Init
    BY Zenon DEF Init, Abstract!Init
  <1>2. IInv /\ [Next]_vars => [Abstract!Next]_(Abstract!vars)
    BY VolumeStep DEF Abstract!vars
  <1>3. QED
    BY <1>1, <1>2, VolumeInvariant, PTL DEF Spec, KeepsPromise, Abstract!Spec
===============================================================================
