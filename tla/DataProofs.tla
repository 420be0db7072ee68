------------------------------- MODULE DataProofs -------------------------------
(* What Total computes, and what changing one of the numbers does to it;   *)
(* what Filter keeps of a sequence.                                        *)
EXTENDS Sums, Filters, SequenceTheorems, WellFoundedInduction, TLAPS

\* f holds the partial sums of w up to n.
Sums(f, w, n) ==
    /\ f \in [0 .. n -> Int] /\ f[0] = 0
    /\ \A k \in 1 .. n : f[k] = f[k - 1] + w[k]

\* A non-empty set of natural numbers has a least element.
LEMMA LeastNat ==
    ASSUME NEW S \in SUBSET Nat, S # {}
    PROVE  \E x \in S : \A y \in S : x <= y
  <1> DEFINE R == {ss \in Nat \X Nat : ss[1] < ss[2]}
  <1>1. R = OpToRel(<, Nat)
    BY DEF OpToRel
  <1>2. IsWellFoundedOn(R, Nat)
    BY <1>1, NatLessThanWellFounded
  <1> HIDE DEF R
  <1>3. PICK x \in S : \A y \in S : ~ (<<y, x>> \in R)
    BY <1>2, WFMin
  <1>4. \A y \in S : x <= y
    <2> TAKE y \in S
    <2>1. x \in Nat /\ y \in Nat
      OBVIOUS
    <2>2. y < x => <<y, x>> \in R
      BY <2>1, Zenon DEF R
    <2>3. QED
      BY <1>3, <2>1, <2>2
  <1>5. QED
    BY <1>4

\* The partial sums exist, and every function that has their values is the one.
LEMMA SumsExist ==
    ASSUME NEW n \in Nat, NEW w \in [1 .. n -> Int]
    PROVE  \E f : Sums(f, w, n)
  <1>a. n \in 0 .. n
    OBVIOUS
  <1> DEFINE Bad == {k \in 0 .. n : ~ \E f : Sums(f, w, k)}
  <1>1. Bad = {}
    <2> SUFFICES ASSUME Bad # {} PROVE FALSE
      OBVIOUS
    <2>1. Bad \in SUBSET Nat
      OBVIOUS
    <2>2. PICK m \in Bad : \A y \in Bad : m <= y
      BY <2>1, LeastNat
    <2>3. m # 0
      <3>1. Sums([k \in 0 .. 0 |-> 0], w, 0)
        BY DEF Sums
      <3>2. QED
        BY <2>2, <3>1
    <2>4. m \in 1 .. n /\ m - 1 \in 0 .. n /\ ~ (m <= m - 1)
      BY <2>3
    <2>5. PICK f : Sums(f, w, m - 1)
      BY <2>2, <2>4
    <2> DEFINE g == [k \in 0 .. m |-> IF k = m THEN f[m - 1] + w[m] ELSE f[k]]
    <2>6. f \in [0 .. m - 1 -> Int] /\ w[m] \in Int
      BY <2>4, <2>5 DEF Sums
    <2>7. g \in [0 .. m -> Int] /\ g[0] = 0
      BY <2>4, <2>5, <2>6 DEF Sums
    <2>8. ASSUME NEW k \in 1 .. m PROVE g[k] = g[k - 1] + w[k]
      <3>1. CASE k = m
        BY <2>4, <3>1
      <3>2. CASE k # m
        <4>1. k \in 1 .. m - 1 /\ k \in 0 .. m /\ k - 1 \in 0 .. m /\ k - 1 # m
          BY <2>4, <3>2
        <4>2. QED
          BY <2>5, <3>2, <4>1 DEF Sums
      <3>3. QED
        BY <3>1, <3>2
    <2> HIDE DEF g
    <2>9. Sums(g, w, m)
      BY <2>7, <2>8 DEF Sums
    <2>10. QED
      BY <2>2, <2>9
  <1>2. QED
    BY <1>a, <1>1

\* The partial sums of the same numbers are the same.
LEMMA SumsAgree ==
    ASSUME NEW n \in Nat, NEW w \in [1 .. n -> Int],
           NEW f, NEW g, Sums(f, w, n), Sums(g, w, n)
    PROVE  \A k \in 0 .. n : f[k] = g[k]
  <1> DEFINE Bad == {k \in 0 .. n : f[k] # g[k]}
  <1>1. Bad = {}
    <2> SUFFICES ASSUME Bad # {} PROVE FALSE
      OBVIOUS
    <2>1. Bad \in SUBSET Nat
      OBVIOUS
    <2>2. PICK m \in Bad : \A y \in Bad : m <= y
      BY <2>1, LeastNat
    <2>3. m # 0
      BY <2>2 DEF Sums
    <2>4. m \in 1 .. n /\ m - 1 \in 0 .. n /\ ~ (m <= m - 1)
      BY <2>3
    <2>5. f[m - 1] = g[m - 1]
      BY <2>2, <2>4
    <2>6. f[m] = g[m]
      BY <2>4, <2>5 DEF Sums
    <2>7. QED
      BY <2>2, <2>6
  <1>2. QED
    BY <1>1

\* Total is the last partial sum.
LEMMA TotalIsSum ==
    ASSUME NEW n \in Nat, NEW w \in [1 .. n -> Int], NEW f, Sums(f, w, n)
    PROVE  Total(w, n) = f[n] /\ Total(w, n) \in Int
  <1> DEFINE Def(h) == h = [k \in 0 .. n |-> IF k = 0 THEN 0 ELSE h[k - 1] + w[k]]
             u == CHOOSE h : Def(h)
  <1>1. Def(f)
    <2>1. \A k \in 0 .. n : f[k] = IF k = 0 THEN 0 ELSE f[k - 1] + w[k]
      BY DEF Sums
    <2>2. f = [k \in 0 .. n |-> f[k]]
      BY DEF Sums
    <2>3. QED
      BY <2>1, <2>2
  <1>2. Def(u)
    BY <1>1
  <1> HIDE DEF u
  <1>3. \A k \in 0 .. n : u[k] = IF k = 0 THEN 0 ELSE u[k - 1] + w[k]
    BY <1>2
  <1> DEFINE Bad == {k \in 0 .. n : u[k] # f[k]}
  <1>4. Bad = {}
    <2> SUFFICES ASSUME Bad # {} PROVE FALSE
      OBVIOUS
    <2>1. Bad \in SUBSET Nat
      OBVIOUS
    <2>2. PICK m \in Bad : \A y \in Bad : m <= y
      BY <2>1, LeastNat
    <2>3. m # 0
      BY <1>3, <2>2 DEF Sums
    <2>4. m \in 1 .. n /\ m - 1 \in 0 .. n /\ ~ (m <= m - 1)
      BY <2>3
    <2>5. f[m - 1] = u[m - 1]
      BY <2>2, <2>4
    <2>6. f[m] = u[m]
      BY <1>3, <2>4, <2>5 DEF Sums
    <2>7. QED
      BY <2>2, <2>6
  <1>5. u[n] = f[n] /\ f[n] \in Int
    <2>1. n \in 0 .. n
      OBVIOUS
    <2> HIDE DEF Def
    <2>2. QED
      BY <1>4, <2>1 DEF Sums
  <1>6. Total(w, n) = u[n]
    BY DEF Total, u
  <1>7. QED
    BY <1>5, <1>6

\* A sum of integers is an integer.
LEMMA TotalType ==
    ASSUME NEW n \in Nat, NEW w \in [1 .. n -> Int]
    PROVE  Total(w, n) \in Int
  BY SumsExist, TotalIsSum

\* The sum of none but zeros is zero.
LEMMA TotalOfZeros ==
    ASSUME NEW n \in Nat, NEW w, w = [k \in 1 .. n |-> 0]
    PROVE  Total(w, n) = 0
  <1> DEFINE f == [k \in 0 .. n |-> 0]
  <1>1. Sums(f, w, n) /\ w \in [1 .. n -> Int]
    BY DEF Sums
  <1>2. QED
    BY <1>1, TotalIsSum

\* Changing one of the numbers changes the sum by as much.
LEMMA TotalChange ==
    ASSUME NEW n \in Nat, NEW w \in [1 .. n -> Int], NEW v \in [1 .. n -> Int],
           NEW i \in 1 .. n, \A k \in 1 .. n : k # i => v[k] = w[k]
    PROVE  Total(v, n) = Total(w, n) + v[i] - w[i]
  <1>1. PICK f : Sums(f, w, n)
    BY SumsExist
  <1> DEFINE d == v[i] - w[i]
             g == [k \in 0 .. n |-> IF k < i THEN f[k] ELSE f[k] + d]
  <1>2. d \in Int /\ i \in Nat /\ v[i] = w[i] + d
    OBVIOUS
  <1> HIDE DEF d
  <1>3. Sums(g, v, n)
    <2>1. g \in [0 .. n -> Int] /\ g[0] = 0
      <3>1. \A k \in 0 .. n : f[k] \in Int /\ f[k] + d \in Int
        <4> TAKE k \in 0 .. n
        <4>1. f[k] \in Int
          BY <1>1 DEF Sums
        <4>2. QED
          BY <1>2, <4>1
      <3>2. f[0] = 0 /\ 0 \in 0 .. n /\ 0 < i
        BY <1>1 DEF Sums
      <3>3. QED
        BY <3>1, <3>2
    <2>2. ASSUME NEW k \in 1 .. n PROVE g[k] = g[k - 1] + v[k]
      <3>1. /\ k - 1 \in 0 .. n /\ k \in 0 .. n /\ f[k - 1] \in Int /\ f[k] \in Int /\ w[k] \in Int
            /\ f[k] = f[k - 1] + w[k]
        BY <1>1 DEF Sums
      <3>2. CASE k < i
        BY <1>2, <3>1, <3>2
      <3>3. CASE k = i
        BY <1>2, <3>1, <3>3
      <3>4. CASE k > i
        BY <1>2, <3>1, <3>4
      <3>5. QED
        BY <1>2, <3>2, <3>3, <3>4
    <2>3. QED
      BY <2>1, <2>2 DEF Sums
  <1> HIDE DEF g
  <1>4. Total(w, n) = f[n] /\ Total(v, n) = g[n]
    BY <1>1, <1>3, TotalIsSum
  <1> USE DEF g
  <1>5. g[n] = f[n] + d /\ f[n] \in Int
    <2>1. n \in 0 .. n /\ ~ (n < i)
      OBVIOUS
    <2>2. QED
      BY <1>1, <2>1 DEF Sums
  <1>6. QED
    BY <1>4, <1>5 DEF d
-------------------------------------------------------------------------------
(* Filters.                                                                *)

\* The first elements of a sequence, filtered step by step.
Filtered(f, s, S, T, n) ==
    /\ f \in [0 .. n -> Seq(T)] /\ f[0] = <<>>
    /\ \A k \in 1 .. n : f[k] = IF s[k] \in S THEN Append(f[k - 1], s[k]) ELSE f[k - 1]

\* The steps exist.
LEMMA FilteredExists ==
    ASSUME NEW T, NEW s \in Seq(T), NEW S
    PROVE  \E f : Filtered(f, s, S, T, Len(s))
  <1>0. PICK n \in Nat : n = Len(s)
    OBVIOUS
  <1>a. n \in 0 .. n /\ \A k \in 1 .. n : s[k] \in T
    BY <1>0
  <1> DEFINE Bad == {k \in 0 .. n : ~ \E f : Filtered(f, s, S, T, k)}
  <1>1. Bad = {}
    <2> SUFFICES ASSUME Bad # {} PROVE FALSE
      OBVIOUS
    <2>1. Bad \in SUBSET Nat
      OBVIOUS
    <2>2. PICK m \in Bad : \A y \in Bad : m <= y
      BY <2>1, LeastNat
    <2>3. m # 0
      <3>1. Filtered([k \in 0 .. 0 |-> <<>>], s, S, T, 0)
        BY DEF Filtered
      <3>2. QED
        BY <2>2, <3>1
    <2>4. m \in 1 .. n /\ m - 1 \in 0 .. n /\ ~ (m <= m - 1)
      BY <2>3
    <2>5. PICK f : Filtered(f, s, S, T, m - 1)
      BY <2>2, <2>4
    <2> DEFINE last == IF s[m] \in S THEN Append(f[m - 1], s[m]) ELSE f[m - 1]
               g == [k \in 0 .. m |-> IF k = m THEN last ELSE f[k]]
    <2>6. f \in [0 .. m - 1 -> Seq(T)] /\ f[m - 1] \in Seq(T) /\ s[m] \in T
      BY <1>a, <2>4, <2>5 DEF Filtered
    <2>7. last \in Seq(T)
      BY <2>6, AppendProperties
    <2> HIDE DEF last
    <2>8. g \in [0 .. m -> Seq(T)] /\ g[0] = <<>>
      BY <2>4, <2>5, <2>6, <2>7 DEF Filtered
    <2>9. ASSUME NEW k \in 1 .. m
          PROVE  g[k] = IF s[k] \in S THEN Append(g[k - 1], s[k]) ELSE g[k - 1]
      <3>1. CASE k = m
        <4>1. g[k] = last /\ g[k - 1] = f[m - 1]
          BY <2>4, <3>1
        <4>2. QED
          BY <3>1, <4>1 DEF last
      <3>2. CASE k # m
        <4>1. k \in 1 .. m - 1 /\ k \in 0 .. m /\ k - 1 \in 0 .. m /\ k - 1 # m
          BY <2>4, <3>2
        <4>2. QED
          BY <2>5, <3>2, <4>1 DEF Filtered
      <3>3. QED
        BY <3>1, <3>2
    <2> HIDE DEF g
    <2>10. Filtered(g, s, S, T, m)
      BY <2>8, <2>9 DEF Filtered
    <2>11. QED
      BY <2>2, <2>10
  <1>2. QED
    BY <1>0, <1>a, <1>1

\* Filter computes the last of the steps.
LEMMA FilterIsFiltered ==
    ASSUME NEW T, NEW s \in Seq(T), NEW S
    PROVE  \E f : Filtered(f, s, S, T, Len(s)) /\ Filter(s, S) = f[Len(s)]
  <1>0. PICK n \in Nat : n = Len(s)
    OBVIOUS
  <1>1. PICK f : Filtered(f, s, S, T, n)
    BY <1>0, FilteredExists
  <1> DEFINE Step(h, i) == IF i = 0 THEN <<>>
                           ELSE IF s[i] \in S THEN Append(h[i - 1], s[i]) ELSE h[i - 1]
             Def(h) == h = [i \in 0 .. n |-> Step(h, i)]
             u == CHOOSE h : Def(h)
  <1>2. Def(f)
    <2>1. ASSUME NEW i \in 0 .. n PROVE f[i] = Step(f, i)
      <3>1. CASE i = 0
        BY <1>1, <3>1 DEF Filtered
      <3>2. CASE i # 0
        <4>1. i \in 1 .. n
          BY <3>2
        <4>2. QED
          BY <1>1, <3>2, <4>1 DEF Filtered
      <3>3. QED
        BY <3>1, <3>2
    <2>2. f = [i \in 0 .. n |-> f[i]]
      BY <1>1 DEF Filtered
    <2>3. QED
      BY <2>1, <2>2
  <1>3. Def(u)
    BY <1>2
  <1>4. Filter(s, S) = u[n]
    BY <1>0 DEF Filter
  <1> HIDE DEF u
  <1>5. \A i \in 0 .. n : u[i] = Step(u, i)
    BY <1>3
  <1> DEFINE Bad == {k \in 0 .. n : u[k] # f[k]}
  <1>6. Bad = {}
    <2> SUFFICES ASSUME Bad # {} PROVE FALSE
      OBVIOUS
    <2>1. Bad \in SUBSET Nat
      OBVIOUS
    <2>2. PICK m \in Bad : \A y \in Bad : m <= y
      BY <2>1, LeastNat
    <2>3. m # 0
      BY <1>1, <1>5, <2>2 DEF Filtered
    <2>4. m \in 1 .. n /\ m - 1 \in 0 .. n /\ ~ (m <= m - 1) /\ m \in 0 .. n
      BY <2>3
    <2>5. f[m - 1] = u[m - 1]
      BY <2>2, <2>4
    <2>6. f[m] = u[m]
      BY <1>1, <1>5, <2>4, <2>5, <2>3 DEF Filtered
    <2>7. QED
      BY <2>2, <2>6
  <1>7. u[n] = f[n]
    BY <1>6
  <1>8. QED
    BY <1>0, <1>1, <1>4, <1>7
===============================================================================
