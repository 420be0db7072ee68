---------------------------- MODULE NodeEnergyProofs ----------------------------
(* The cores of a node: each block is answered once, when it is complete,  *)
(* no core is left idle while a block waits, and the scheduler's flags tell  *)
(* the truth; then its energy: the meters lose no time, and the parts of the  *)
(* node follow its states. For every number of machines, blocks, cores and  *)
(* devices.                                                                 *)
EXTENDS NodeEnergy, DataProofs, FiniteSetTheorems

\* searchIdleCPU and schedulingCPU return an element of the non-empty set of
\* candidates they scan, the lowest one.
LEMMA LowestIn ==
    ASSUME NEW S \in SUBSET Nat, S # {}
    PROVE  Lowest(S) \in S /\ \A y \in S : Lowest(S) <= y
  <1> DEFINE R == {ss \in Nat \X Nat : ss[1] < ss[2]}
  <1>1. R = OpToRel(<, Nat)
    BY DEF OpToRel
  <1>2. IsWellFoundedOn(R, Nat)
    BY <1>1, NatLessThanWellFounded
  <1> HIDE DEF R
  <1>3. PICK x \in S : \A y \in S : ~ (<<y, x>> \in R)
    BY <1>2, WFMin
  <1>4. \A y \in S : x <= y
    <2> TAKE y \in S
    <2>1. x \in Nat /\ y \in Nat
      OBVIOUS
    <2>2. y < x => <<y, x>> \in R
      BY <2>1, Zenon DEF R
    <2>3. QED
      BY <1>3, <2>1, <2>2
  <1>5. QED
    BY <1>4 DEF Lowest

LEMMA CoresAreNaturals == Cores \in SUBSET Nat /\ VCpus \in SUBSET Nat
  BY ConstantsAssumption DEF Cores, VCpus

LEMMA ZeroIsACore == 0 \in Cores /\ 0 \in VCpus
  BY ConstantsAssumption DEF Cores, VCpus

LEMMA SliceIsNat ==
    ASSUME CoreTypeOK, NEW b \in Blocks
    PROVE  AfterSlice(b) \in Nat
  <1>1. remaining[b] \in Nat
    BY DEF CoreTypeOK
  <1>2. CASE b \in TimeBlocks
    BY <1>1, <1>2, ConstantsAssumption DEF AfterSlice
  <1>3. CASE b \notin TimeBlocks
    <2>1. CASE Policy = "FIFO" \/ Quantum >= remaining[b] \div Ipt
      BY <1>3, <2>1 DEF AfterSlice
    <2>2. CASE ~(Policy = "FIFO" \/ Quantum >= remaining[b] \div Ipt)
      <3> DEFINE q == remaining[b] \div Ipt
      <3>1. q \in Nat /\ Ipt * q <= remaining[b]
        BY <1>1, ConstantsAssumption, SMT
      <3>2. Quantum \in Nat /\ Quantum < q
        BY <2>2, <3>1, ConstantsAssumption
      <3> HIDE DEF q
      <3>3. Ipt * Quantum \in Nat /\ Ipt * Quantum <= Ipt * q
        BY <3>1, <3>2, ConstantsAssumption, SMT
      <3>4. AfterSlice(b) = remaining[b] - Ipt * Quantum
        BY <1>3, <2>2 DEF AfterSlice
      <3>5. Ipt * q \in Nat
        BY <3>1, ConstantsAssumption, SMT
      <3>6. QED
        BY <1>1, <3>1, <3>3, <3>4, <3>5, SMT
    <2>3. QED
      BY <2>1, <2>2
  <1>4. QED
    BY <1>2, <1>3

\* What the queues keep when a message is taken from or put into them.
LEMMA QueueFacts ==
    ASSUME NEW S, NEW q \in Seq(S)
    PROVE  /\ q # <<>> => Head(q) \in S /\ Tail(q) \in Seq(S)
           /\ \A x \in S : Append(q, x) \in Seq(S)
  OBVIOUS

\* An idle virtual core, a free physical core: both searches stay in range.
LEMMA SearchesInRange ==
    /\ \A I \in SUBSET VCpus : I # {} => Lowest(I) \in I
    /\ \A ids : FreeCores(ids) # {} => Lowest(FreeCores(ids)) \in FreeCores(ids)
  <1>1. \A S \in SUBSET Nat : S # {} => Lowest(S) \in S
    BY LowestIn
  <1>2. QED
    BY <1>1, CoresAreNaturals DEF FreeCores

LEMMA MsgKinds == Blocks \subseteq Msgs /\ StateMsgs \subseteq Msgs
  BY DEF Msgs

LEMMA OwnersAreGuests == \A m \in Msgs : Owner[m] \in Guests
  BY ConstantsAssumption

\* What the helper actions of the schedulers and of the hypervisor leave typed.
LEMMA RedispatchTypes ==
    ASSUME NEW g \in Guests, NEW v \in VCpus, NEW q \in Seq(Msgs),
           NEW f \in [Msgs -> Places], SchedTypeOK, Redispatch(g, v, q, f)
    PROVE  SchedTypeOK' /\ at' \in [Msgs -> Places]
  <1>1. CASE q = <<>>
    BY <1>1 DEF Redispatch, SchedTypeOK
  <1>2. CASE q # <<>>
    <2>1. PICK h \in Msgs, t \in Seq(Msgs) : h = Head(q) /\ t = Tail(q)
      BY <1>2, QueueFacts
    <2>2. /\ isCPU_Idle' = [isCPU_Idle EXCEPT ![g] = @ \ {v}]
          /\ requestsQueue' = [requestsQueue EXCEPT ![g] = t]
          /\ nextModuleIndex' = [nextModuleIndex EXCEPT ![h] = v]
          /\ at' = [f EXCEPT ![h] = "toHyp"]
      BY <1>2, <2>1, Zenon DEF Redispatch
    <2>3. SchedTypeOK'
      BY <2>2 DEF SchedTypeOK
    <2>4. QED
      BY <2>2, <2>3 DEF Places
  <1>3. QED
    BY <1>1, <1>2

LEMMA AdmitTypes ==
    ASSUME NEW m \in Msgs, SchedTypeOK, at \in [Msgs -> Places], Admit(m)
    PROVE  SchedTypeOK' /\ at' \in [Msgs -> Places]
  <1> DEFINE g == Owner[m]
             q == Append(requestsQueue[g], m)
             v == Lowest(isCPU_Idle[g])
  <1>1. g \in Guests
    BY OwnersAreGuests
  <1>2. CASE isCPU_Idle[g] = {}
    <2>1. q \in Seq(Msgs)
      BY <1>1, QueueFacts DEF SchedTypeOK
    <2>2. /\ requestsQueue' = [requestsQueue EXCEPT ![g] = q]
          /\ at' = [at EXCEPT ![m] = "queued"]
          /\ isCPU_Idle' = isCPU_Idle /\ nextModuleIndex' = nextModuleIndex
      BY <1>2, Zenon DEF Admit
    <2> HIDE DEF q
    <2>3. QED
      BY <1>1, <2>1, <2>2 DEF SchedTypeOK, Places
  <1>3. CASE isCPU_Idle[g] # {}
    <2>1. v \in VCpus
      BY <1>1, <1>3, SearchesInRange DEF SchedTypeOK
    <2>2. /\ nextModuleIndex' = [nextModuleIndex EXCEPT ![m] = v]
          /\ isCPU_Idle' = [isCPU_Idle EXCEPT ![g] = @ \ {v}]
          /\ at' = [at EXCEPT ![m] = "toHyp"]
          /\ requestsQueue' = requestsQueue
      BY <1>3, Zenon DEF Admit
    <2> HIDE DEF v
    <2>3. QED
      BY <1>1, <2>1, <2>2 DEF SchedTypeOK, Places
  <1>4. QED
    BY <1>2, <1>3

LEMMA ScheduleOnTypes ==
    ASSUME NEW b \in Blocks, NEW c \in Cores, NEW f \in [Msgs -> Places],
           NEW ids \in [Cores -> (Guests \X VCpus) \cup {NULL}],
           NEW oh \in [Cores -> CoreMsgs \cup {NULL}],
           SchedTypeOK, coreOf \in [Blocks -> Cores],
           ScheduleOn(b, c, ids, oh, f)
    PROVE  /\ vmIDs' \in [Cores -> (Guests \X VCpus) \cup {NULL}]
           /\ overheadStructure' \in [Cores -> CoreMsgs \cup {NULL}]
           /\ coreOf' \in [Blocks -> Cores]
           /\ at' \in [Msgs -> Places]
  <1>1. Gate(b) \in Guests \X VCpus
    BY OwnersAreGuests, MsgKinds DEF Gate, SchedTypeOK
  <1>2. VMOverhead(b) \in CoreMsgs
    BY DEF VMOverhead, CoreMsgs
  <1>3. vmIDs' = [ids EXCEPT ![c] = Gate(b)]
    BY DEF ScheduleOn
  <1>4. overheadStructure' = oh \/ overheadStructure' = [oh EXCEPT ![c] = VMOverhead(b)]
    BY DEF ScheduleOn
  <1>5. coreOf' = [coreOf EXCEPT ![b] = c] /\ at' = [f EXCEPT ![b] = "toCore"]
    BY DEF ScheduleOn
  <1>6. vmIDs' \in [Cores -> (Guests \X VCpus) \cup {NULL}]
    BY <1>1, <1>3
  <1>7. overheadStructure' \in [Cores -> CoreMsgs \cup {NULL}]
    BY <1>2, <1>4
  <1>8. QED
    BY <1>5, <1>6, <1>7 DEF Places

LEMMA HardwareResponseTypes ==
    ASSUME NEW c \in Cores, NEW f \in [Msgs -> Places],
           SchedTypeOK, HypTypeOK, coreOf \in [Blocks -> Cores],
           HardwareResponse(c, f)
    PROVE  HypTypeOK' /\ coreOf' \in [Blocks -> Cores] /\ at' \in [Msgs -> Places]
  <1> DEFINE ids == [vmIDs EXCEPT ![c] = NULL]
             k == Lowest(FreeCores(ids))
  <1>1. ids \in [Cores -> (Guests \X VCpus) \cup {NULL}]
    BY DEF HypTypeOK
  <1>2. k \in Cores
    <2>1. c \in FreeCores(ids)
      BY DEF FreeCores, HypTypeOK
    <2>2. QED
      BY <2>1, SearchesInRange DEF FreeCores
  <1>3. CASE coreQueue = <<>>
    <2>1. /\ vmIDs' = ids /\ at' = f
          /\ coreQueue' = coreQueue /\ coreOf' = coreOf
          /\ overheadStructure' = overheadStructure
      BY <1>3, Zenon DEF HardwareResponse
    <2>2. QED
      BY <1>1, <2>1 DEF HypTypeOK
  <1>4. CASE coreQueue # <<>>
    <2>1. PICK h \in Blocks, t \in Seq(Blocks) : h = Head(coreQueue) /\ t = Tail(coreQueue)
      BY <1>4, QueueFacts DEF HypTypeOK
    <2>2. coreQueue' = t /\ ScheduleOn(h, k, ids, overheadStructure, f)
      BY <1>4, <2>1, Zenon DEF HardwareResponse
    <2>3. overheadStructure \in [Cores -> CoreMsgs \cup {NULL}]
      BY DEF HypTypeOK
    <2> HIDE DEF ids, k
    <2>4. QED
      BY <1>1, <1>2, <2>2, <2>3, ScheduleOnTypes DEF HypTypeOK
  <1>5. QED
    BY <1>3, <1>4

LEMMA OverheadResponseTypes ==
    ASSUME NEW b \in Blocks, TypeOK, HypOverheadResponse(b)
    PROVE  TypeOK'
  <1> DEFINE c == coreOf[b]
             ids == [vmIDs EXCEPT ![c] = NULL]
             k == Lowest(FreeCores(ids))
             n == Head(coreQueue)
             slots == IF coreQueue # <<>>
                      THEN [overheadStructure EXCEPT ![k] = VMOverhead(n)]
                      ELSE overheadStructure
             started == IF coreQueue # <<>> THEN [at EXCEPT ![n] = "toCore"] ELSE at
             kept == IF coreQueue # <<>>
                     THEN [overheadAt EXCEPT ![b] = "deleted", ![n] = "saved"]
                     ELSE [overheadAt EXCEPT ![b] = "deleted"]
  <1>1. /\ coreQueue' = IF coreQueue # <<>> THEN Tail(coreQueue) ELSE coreQueue
        /\ coreOf' = IF coreQueue # <<>> THEN [coreOf EXCEPT ![n] = k] ELSE coreOf
        /\ vmIDs' = IF coreQueue # <<>> THEN [ids EXCEPT ![k] = Gate(n)] ELSE ids
        /\ overheadStructure' = [slots EXCEPT ![c] = NULL]
    BY Zenon DEF HypOverheadResponse
  <1>2. \/ /\ slots[c] # NULL /\ fault' = fault /\ overheadAt' = kept
           /\ at' = [started EXCEPT ![slots[c][1]] = "toGuest"]
        \/ /\ slots[c] # NULL /\ fault' = fault /\ at' = started
           /\ overheadAt' = [kept EXCEPT ![slots[c][1]] = "toGuest"]
        \/ fault' = "message is NULL" /\ at' = started /\ overheadAt' = kept
    BY Zenon DEF HypOverheadResponse
  <1>3. UNCHANGED <<schedVars, coreVars, answers>>
    BY Zenon DEF HypOverheadResponse
  <1>4. c \in Cores
    BY DEF TypeOK, MsgTypeOK
  <1>5. ids \in [Cores -> (Guests \X VCpus) \cup {NULL}] /\ c \in FreeCores(ids)
    BY <1>4 DEF TypeOK, HypTypeOK, FreeCores
  <1>6. k \in Cores
    BY <1>5, SearchesInRange DEF FreeCores
  <1>7. coreQueue # <<>> => n \in Blocks /\ Tail(coreQueue) \in Seq(Blocks)
    BY QueueFacts DEF TypeOK, HypTypeOK
  <1>8. coreQueue # <<>> => Gate(n) \in Guests \X VCpus
    BY <1>7, OwnersAreGuests, MsgKinds DEF Gate, TypeOK, SchedTypeOK
  <1>9. coreQueue # <<>> => VMOverhead(n) \in CoreMsgs
    BY <1>7 DEF VMOverhead, CoreMsgs
  <1> HIDE DEF n, k, ids, c
  <1>10. slots \in [Cores -> CoreMsgs \cup {NULL}]
    BY <1>6, <1>9 DEF TypeOK, HypTypeOK
  <1>11. started \in [Msgs -> Places]
    BY <1>7, MsgKinds DEF TypeOK, MsgTypeOK, Places
  <1>12. kept \in [Blocks -> OverheadPlaces]
    BY <1>7 DEF TypeOK, MsgTypeOK, OverheadPlaces
  <1> HIDE DEF slots, started, kept
  <1>13. slots[c] # NULL => slots[c][1] \in Blocks
    BY <1>4, <1>10 DEF CoreMsgs
  <1>14. at' \in [Msgs -> Places]
    BY <1>2, <1>11, <1>13 DEF Places
  <1>15. overheadAt' \in [Blocks -> OverheadPlaces]
    BY <1>2, <1>12, <1>13 DEF OverheadPlaces
  <1>16. coreOf' \in [Blocks -> Cores] /\ fault' \in Faults \cup {NULL}
    BY <1>1, <1>2, <1>6, <1>7 DEF TypeOK, MsgTypeOK, Faults
  <1>17. vmIDs' \in [Cores -> (Guests \X VCpus) \cup {NULL}]
    BY <1>1, <1>5, <1>8
  <1>18. coreQueue' \in Seq(Blocks)
    BY <1>1, <1>7 DEF TypeOK, HypTypeOK
  <1>19. overheadStructure' \in [Cores -> CoreMsgs \cup {NULL}]
    BY <1>1, <1>10
  <1>20. SchedTypeOK' /\ CoreTypeOK' /\ answers' \in [Blocks -> Nat]
    BY <1>3 DEF schedVars, coreVars, TypeOK, SchedTypeOK, CoreTypeOK, MsgTypeOK
  <1>21. QED
    BY <1>14, <1>15, <1>16, <1>17, <1>18, <1>19, <1>20 DEF TypeOK, HypTypeOK, MsgTypeOK

\* One step of the system keeps the type invariant.
LEMMA TypeStep == TypeOK /\ [Next]_vars => TypeOK'
  <1> SUFFICES ASSUME TypeOK, [Next]_vars PROVE TypeOK'
    OBVIOUS
  <1>a. SchedTypeOK /\ HypTypeOK /\ CoreTypeOK /\ MsgTypeOK
    BY DEF TypeOK
  <1>b. \A b \in Blocks : Owner[b] \in Guests /\ nextModuleIndex[b] \in VCpus
                          /\ requestsQueue[Owner[b]] \in Seq(Msgs)
    BY <1>a, OwnersAreGuests, MsgKinds DEF SchedTypeOK
  <1>1. ASSUME NEW b \in Blocks, SchedRequest(b) PROVE TypeOK'
    <2>1. SchedTypeOK' /\ at' \in [Msgs -> Places]
      BY <1>1, <1>a, AdmitTypes, MsgKinds DEF SchedRequest, MsgTypeOK
    <2>2. QED
      BY <1>1, <1>a, <2>1 DEF SchedRequest, hypVars, coreVars, TypeOK, HypTypeOK, CoreTypeOK, MsgTypeOK
  <1>2. ASSUME NEW b \in Blocks, HypRequest(b) PROVE TypeOK'
    <2>1. SchedTypeOK' /\ CoreTypeOK' /\ answers' \in [Blocks -> Nat] /\ fault' = fault
      BY <1>2, <1>a DEF HypRequest, schedVars, coreVars, SchedTypeOK, CoreTypeOK, MsgTypeOK
    <2>2. CASE FreeCores(vmIDs) # {}
      <3>1. Lowest(FreeCores(vmIDs)) \in Cores
        BY <2>2, SearchesInRange DEF FreeCores
      <3>2. /\ ScheduleOn(b, Lowest(FreeCores(vmIDs)), vmIDs, overheadStructure, at)
            /\ overheadAt' = (IF Overhead THEN [overheadAt EXCEPT ![b] = "saved"] ELSE overheadAt)
            /\ coreQueue' = coreQueue
        BY <1>2, <2>2, Zenon DEF HypRequest
      <3>3. /\ vmIDs \in [Cores -> (Guests \X VCpus) \cup {NULL}]
            /\ overheadStructure \in [Cores -> CoreMsgs \cup {NULL}]
            /\ coreOf \in [Blocks -> Cores] /\ at \in [Msgs -> Places]
        BY <1>a DEF HypTypeOK, MsgTypeOK
      <3>4. /\ vmIDs' \in [Cores -> (Guests \X VCpus) \cup {NULL}]
            /\ overheadStructure' \in [Cores -> CoreMsgs \cup {NULL}]
            /\ coreOf' \in [Blocks -> Cores]
            /\ at' \in [Msgs -> Places]
        BY <1>a, <3>1, <3>2, <3>3, ScheduleOnTypes
      <3>5. overheadAt' \in [Blocks -> OverheadPlaces]
        BY <1>a, <3>2 DEF MsgTypeOK, OverheadPlaces
      <3>6. QED
        BY <1>a, <2>1, <3>2, <3>4, <3>5 DEF TypeOK, HypTypeOK, MsgTypeOK
    <2>3. CASE FreeCores(vmIDs) = {}
      <3>1. /\ coreQueue' = Append(coreQueue, b)
            /\ at' = [at EXCEPT ![b] = "hypQueue"]
            /\ vmIDs' = vmIDs /\ overheadStructure' = overheadStructure
            /\ coreOf' = coreOf /\ overheadAt' = overheadAt
        BY <1>2, <2>3, Zenon DEF HypRequest
      <3>2. coreQueue' \in Seq(Blocks)
        BY <1>a, <3>1, QueueFacts DEF HypTypeOK
      <3>3. at' \in [Msgs -> Places]
        BY <1>a, <3>1 DEF MsgTypeOK, Places
      <3>4. QED
        BY <1>a, <2>1, <3>1, <3>2, <3>3 DEF TypeOK, HypTypeOK, MsgTypeOK
    <2>4. QED
      BY <2>2, <2>3
  <1>3. ASSUME NEW b \in Blocks, CoreRequest(b) PROVE TypeOK'
    <2>1. AfterSlice(b) \in Nat /\ Exec(b) \in CoreMsgs
      BY <1>a, SliceIsNat DEF Exec, CoreMsgs
    <2>2. /\ pendingMessage' = pendingMessage
             \/ pendingMessage' = [pendingMessage EXCEPT ![coreOf[b]] = Exec(b)]
          /\ remaining' = remaining \/ remaining' = [remaining EXCEPT ![b] = AfterSlice(b)]
          /\ at' = at \/ at' = [at EXCEPT ![b] = "core"]
          /\ fault' = fault \/ fault' = "core currently processing another computing block"
      BY <1>3, Zenon DEF CoreRequest
    <2>3. pendingMessage' \in [Cores -> CoreMsgs \cup {NULL}]
      BY <1>a, <2>1, <2>2 DEF CoreTypeOK
    <2>4. remaining' \in [Blocks -> Nat]
      BY <1>a, <2>1, <2>2 DEF CoreTypeOK
    <2>5. at' \in [Msgs -> Places]
      BY <1>a, <2>2 DEF MsgTypeOK, Places
    <2>6. fault' \in Faults \cup {NULL}
      BY <1>a, <2>2 DEF MsgTypeOK, Faults
    <2>7. QED
      BY <1>3, <1>a, <2>3, <2>4, <2>5, <2>6
      DEF CoreRequest, schedVars, hypVars, TypeOK, SchedTypeOK, HypTypeOK, CoreTypeOK, MsgTypeOK
  <1>4. ASSUME NEW b \in Blocks, HypResponse(b) PROVE TypeOK'
    <2>1. coreOf[b] \in Cores /\ [at EXCEPT ![b] = "toGuest"] \in [Msgs -> Places]
      BY <1>a DEF MsgTypeOK, Places
    <2>2. coreOf \in [Blocks -> Cores]
      BY <1>a DEF MsgTypeOK
    <2>3. HypTypeOK' /\ coreOf' \in [Blocks -> Cores] /\ at' \in [Msgs -> Places]
      BY <1>4, <1>a, <2>1, <2>2, HardwareResponseTypes DEF HypResponse
    <2>4. QED
      BY <1>4, <1>a, <2>3 DEF HypResponse, schedVars, coreVars, TypeOK, SchedTypeOK, CoreTypeOK, MsgTypeOK
  <1>5. ASSUME NEW b \in Blocks, SchedResponse(b) PROVE TypeOK'
    <2>1. [at EXCEPT ![b] = "done"] \in [Msgs -> Places]
      BY <1>a DEF MsgTypeOK, Places
    <2>2. SchedTypeOK' /\ at' \in [Msgs -> Places]
      BY <1>5, <1>a, <1>b, <2>1, RedispatchTypes DEF SchedResponse
    <2>3. QED
      BY <1>5, <1>a, <2>2 DEF SchedResponse, hypVars, coreVars, TypeOK, HypTypeOK, CoreTypeOK, MsgTypeOK
  <1>6. ASSUME NEW b \in Blocks, SchedRequeue(b) PROVE TypeOK'
    <2>1. [at EXCEPT ![b] = "queued"] \in [Msgs -> Places]
      BY <1>a DEF MsgTypeOK, Places
    <2>2. Append(requestsQueue[Owner[b]], b) \in Seq(Msgs)
      BY <1>b, QueueFacts, MsgKinds
    <2>3. SchedTypeOK' /\ at' \in [Msgs -> Places]
      BY <1>6, <1>a, <1>b, <2>1, <2>2, RedispatchTypes DEF SchedRequeue
    <2>4. QED
      BY <1>6, <1>a, <2>3 DEF SchedRequeue, hypVars, coreVars, TypeOK, HypTypeOK, CoreTypeOK, MsgTypeOK
  <1>7. ASSUME NEW b \in Blocks, HypSaveResponse(b) PROVE TypeOK'
    <2>1. Exec(b) \in CoreMsgs /\ coreOf[b] \in Cores
      BY <1>a DEF Exec, CoreMsgs, MsgTypeOK
    <2>2. overheadStructure[coreOf[b]] # NULL => overheadStructure[coreOf[b]][1] \in Blocks
      BY <1>a, <2>1 DEF HypTypeOK, CoreMsgs
    <2>3. overheadStructure' \in [Cores -> CoreMsgs \cup {NULL}]
      BY <1>7, <1>a, <2>1 DEF HypSaveResponse, HypTypeOK
    <2>4. /\ at' \in [Msgs -> Places] /\ overheadAt' \in [Blocks -> OverheadPlaces]
          /\ fault' \in Faults \cup {NULL}
      BY <1>7, <1>a, <2>2 DEF HypSaveResponse, MsgTypeOK, Places, OverheadPlaces, Faults
    <2>5. QED
      BY <1>7, <1>a, <2>3, <2>4
      DEF HypSaveResponse, schedVars, coreVars, TypeOK, SchedTypeOK, HypTypeOK, CoreTypeOK, MsgTypeOK
  <1>8. ASSUME NEW b \in Blocks, CoreOverheadRequest(b) PROVE TypeOK'
    <2>1. VMOverhead(b) \in CoreMsgs
      BY DEF VMOverhead, CoreMsgs
    <2>2. /\ pendingMessage' = pendingMessage
             \/ pendingMessage' = [pendingMessage EXCEPT ![coreOf[b]] = VMOverhead(b)]
          /\ overheadAt' = overheadAt \/ overheadAt' = [overheadAt EXCEPT ![b] = "core"]
          /\ fault' = fault \/ fault' = "core currently processing another computing block"
      BY <1>8, Zenon DEF CoreOverheadRequest
    <2>3. pendingMessage' \in [Cores -> CoreMsgs \cup {NULL}]
      BY <1>a, <2>1, <2>2 DEF CoreTypeOK
    <2>4. overheadAt' \in [Blocks -> OverheadPlaces]
      BY <1>a, <2>2 DEF MsgTypeOK, OverheadPlaces
    <2>5. fault' \in Faults \cup {NULL}
      BY <1>a, <2>2 DEF MsgTypeOK, Faults
    <2>6. QED
      BY <1>8, <1>a, <2>3, <2>4, <2>5
      DEF CoreOverheadRequest, schedVars, hypVars, TypeOK, SchedTypeOK, HypTypeOK, CoreTypeOK, MsgTypeOK
  <1>9. ASSUME NEW b \in Blocks, HypOverheadResponse(b) PROVE TypeOK'
    BY <1>9, OverheadResponseTypes
  <1>10. ASSUME NEW b \in Blocks, SchedOverheadResponse(b) PROVE TypeOK'
    <2>1. at \in [Msgs -> Places]
      BY <1>a DEF MsgTypeOK
    <2>2. SchedTypeOK' /\ at' \in [Msgs -> Places]
      BY <1>10, <1>a, <1>b, <2>1, RedispatchTypes DEF SchedOverheadResponse
    <2>3. QED
      BY <1>10, <1>a, <2>2
      DEF SchedOverheadResponse, hypVars, coreVars, TypeOK, HypTypeOK, CoreTypeOK, MsgTypeOK, OverheadPlaces
  <1>11. ASSUME NEW s \in StateMsgs, DeliverState(s) PROVE TypeOK'
    <2>1. SchedTypeOK' /\ at' \in [Msgs -> Places]
      BY <1>11, <1>a, AdmitTypes, MsgKinds
      DEF DeliverState, SchedStateFIFO, SchedStateRR, HypState, schedVars, SchedTypeOK, MsgTypeOK, Places
    <2>2. QED
      BY <1>11, <1>a, <2>1
      DEF DeliverState, SchedStateFIFO, SchedStateRR, HypState, hypVars, coreVars,
          TypeOK, HypTypeOK, CoreTypeOK, MsgTypeOK
  <1>12. ASSUME NEW c \in Cores, CoreLatency(c) PROVE TypeOK'
    <2>1. pendingMessage[c] # NULL /\ pendingMessage[c][1] \in Blocks
      BY <1>12, <1>a DEF CoreLatency, CoreTypeOK, CoreMsgs
    <2>2. pendingMessage' \in [Cores -> CoreMsgs \cup {NULL}]
      BY <1>12, <1>a DEF CoreLatency, CoreTypeOK
    <2>3. at' \in [Msgs -> Places] /\ overheadAt' \in [Blocks -> OverheadPlaces]
      BY <1>12, <1>a, <2>1 DEF CoreLatency, MsgTypeOK, Places, OverheadPlaces
    <2>4. QED
      BY <1>12, <1>a, <2>2, <2>3
      DEF CoreLatency, schedVars, hypVars, TypeOK, SchedTypeOK, HypTypeOK, CoreTypeOK, MsgTypeOK
  <1>13. CASE UNCHANGED vars
    BY <1>13 DEF vars, schedVars, hypVars, coreVars, msgVars,
                 TypeOK, SchedTypeOK, HypTypeOK, CoreTypeOK, MsgTypeOK
  <1>14. QED
    BY <1>1, <1>2, <1>3, <1>4, <1>5, <1>6, <1>7, <1>8, <1>9, <1>10, <1>11, <1>12, <1>13
    DEF Next, Deliver, DeliverOverhead, Finished

\* TypeOK is an invariant of the two schedulers, the hypervisor's CPU manager
\* and the cores: in particular every index they compute is one of their cores.
THEOREM TypeCorrect == Spec => []TypeOK
  <1>1. Init => TypeOK
    BY ZeroIsACore, MsgKinds, ConstantsAssumption
    DEF Init, TypeOK, SchedTypeOK, HypTypeOK, CoreTypeOK, MsgTypeOK, Places, OverheadPlaces
  <1>2. QED
    BY <1>1, TypeStep, PTL DEF Spec
-------------------------------------------------------------------------------
(* No message is lost or taken twice.                                      *)

\* A scheduler's queue holds, once each, messages of its own operating system that
\* are marked as waiting there.
SchedQueues ==
    \A g \in Guests : \A i \in DOMAIN requestsQueue[g] :
        /\ at[requestsQueue[g][i]] = "queued" /\ Owner[requestsQueue[g][i]] = g
        /\ \A j \in DOMAIN requestsQueue[g] : requestsQueue[g][i] = requestsQueue[g][j] => i = j

\* One message at most is out on a virtual core, and it is busy exactly then.
OnePerVCpu ==
    /\ \A m1, m2 \in Msgs :
         Dispatched(m1) /\ Dispatched(m2) /\ Owner[m1] = Owner[m2]
            /\ nextModuleIndex[m1] = nextModuleIndex[m2] => m1 = m2
    /\ \A m \in Msgs : Dispatched(m) => nextModuleIndex[m] \notin isCPU_Idle[Owner[m]]
    /\ \A g \in Guests, v \in VCpus : v \notin isCPU_Idle[g] =>
         \E m \in Msgs : Owner[m] = g /\ Dispatched(m) /\ nextModuleIndex[m] = v

\* What holds of the schedulers.
SchedInv == SchedQueues /\ OnePerVCpu

\* The hypervisor's queue holds, once each, blocks that are marked as waiting there.
HypQueue ==
    \A i \in DOMAIN coreQueue :
        /\ at[coreQueue[i]] = "hypQueue"
        /\ \A j \in DOMAIN coreQueue : coreQueue[i] = coreQueue[j] => i = j

\* The table of the hypervisor has the gate of each block on a core, and no gate of
\* another.
OnePerCore ==
    /\ \A b1, b2 \in Blocks :
         OnCore(b1) /\ OnCore(b2) /\ coreOf[b1] = coreOf[b2] => b1 = b2
    /\ \A b \in Blocks : OnCore(b) => vmIDs[coreOf[b]] = Gate(b)
    /\ \A c \in Cores : vmIDs[c] # NULL => \E b \in Blocks : OnCore(b) /\ coreOf[b] = c

\* A core executes only a block that is on it.
Executing ==
    \A c \in Cores : pendingMessage[c] # NULL =>
        \E b \in Blocks : pendingMessage[c] = Exec(b) /\ at[b] = "core" /\ coreOf[b] = c

\* What holds of the hypervisor and of the cores.
HypInv == HypQueue /\ OnePerCore /\ Executing

\* Without overhead no duplicate of a block exists, and no run-time error occurs; with
\* the FIFO policy state messages never reach the hypervisor.
NothingElse ==
    /\ \A b \in Blocks : overheadAt[b] = "none"
    /\ Policy = "FIFO" => \A s \in StateMsgs : at[s] \in {"app", "deleted"}
    /\ fault = NULL

\* Each answer of a block is counted, and FIFO leaves nothing of a block it has executed.
AnswerInv ==
    /\ \A b \in Blocks : answers[b] = IF at[b] = "done" THEN 1 ELSE 0
    /\ \A b \in Blocks \ TimeBlocks :
         /\ at[b] = "done" => remaining[b] = 0
         /\ Policy = "FIFO" /\ at[b] \in {"core", "fromCore", "toGuest"} => remaining[b] = 0

\* What holds in every state that is reached without overhead.
IInv == TypeOK /\ SchedInv /\ HypInv /\ NothingElse /\ AnswerInv
-------------------------------------------------------------------------------
(* Nobody waits beside a free core.                                        *)

\* Appending to an empty queue makes one whose head is the only element.
LEMMA LastOfOne ==
    ASSUME NEW S, NEW x \in S
    PROVE  Append(<<>>, x) # <<>> /\ Head(Append(<<>>, x)) = x /\ Tail(Append(<<>>, x)) = <<>>
  OBVIOUS

\* The two parts of WorkConserving.
SchedsConserve == \A g \in Guests : requestsQueue[g] # <<>> => isCPU_Idle[g] = {}

ManagerConserves == coreQueue # <<>> => FreeCores(vmIDs) = {}

\* A message that was just taken from the queue of a scheduler leaves it conserving.
LEMMA RedispatchConserves ==
    ASSUME NEW g \in Guests, NEW v \in VCpus, NEW q \in Seq(Msgs), NEW f,
           SchedTypeOK, Redispatch(g, v, q, f),
           SchedsConserve,
           q = <<>> => requestsQueue[g] = <<>>,
           q # <<>> /\ Tail(q) # <<>> => isCPU_Idle[g] = {}
    PROVE  SchedsConserve'
  <1>1. CASE q = <<>>
    <2>1. isCPU_Idle' = [isCPU_Idle EXCEPT ![g] = @ \cup {v}] /\ requestsQueue' = requestsQueue
      BY <1>1 DEF Redispatch
    <2>2. QED
      BY <1>1, <2>1 DEF SchedTypeOK, SchedsConserve
  <1>2. CASE q # <<>>
    <2>1. /\ isCPU_Idle' = [isCPU_Idle EXCEPT ![g] = @ \ {v}]
          /\ requestsQueue' = [requestsQueue EXCEPT ![g] = Tail(q)]
      BY <1>2, Zenon DEF Redispatch
    <2>2. QED
      BY <1>2, <2>1 DEF SchedTypeOK, SchedsConserve
  <1>3. QED
    BY <1>1, <1>2

\* Whatever a step does to the scheduler of one operating system, the queue of none
\* is kept beside an idle virtual core.
LEMMA AdmitConserves ==
    ASSUME NEW m \in Msgs, SchedTypeOK, Admit(m),
           SchedsConserve
    PROVE  SchedsConserve'
  <1> DEFINE g == Owner[m]
             q == Append(requestsQueue[g], m)
             v == Lowest(isCPU_Idle[g])
  <1>1. g \in Guests
    BY OwnersAreGuests
  <1>2. CASE isCPU_Idle[g] = {}
    <2>1. requestsQueue' = [requestsQueue EXCEPT ![g] = q] /\ isCPU_Idle' = isCPU_Idle
      BY <1>2, Zenon DEF Admit
    <2> HIDE DEF q
    <2>2. QED
      BY <1>1, <1>2, <2>1 DEF SchedTypeOK, SchedsConserve
  <1>3. CASE isCPU_Idle[g] # {}
    <2>1. requestsQueue' = requestsQueue /\ isCPU_Idle' = [isCPU_Idle EXCEPT ![g] = @ \ {v}]
      BY <1>3, Zenon DEF Admit
    <2> HIDE DEF v
    <2>2. QED
      BY <1>1, <1>3, <2>1 DEF SchedTypeOK, SchedsConserve
  <1>4. QED
    BY <1>2, <1>3

\* Releasing core c and taking one for a block leaves as many free cores as before.
LEMMA ReleaseAndTake ==
    ASSUME NEW c \in Cores, NEW gate, NEW gates, NULL \notin gates, gate \in gates,
           vmIDs \in [Cores -> gates \cup {NULL}],
           FreeCores(vmIDs) = {}
    PROVE  LET ids == [vmIDs EXCEPT ![c] = NULL]
               k == Lowest(FreeCores(ids))
           IN  k = c /\ FreeCores([ids EXCEPT ![k] = gate]) = {}
  <1> DEFINE ids == [vmIDs EXCEPT ![c] = NULL]
             k == Lowest(FreeCores(ids))
  <1>1. FreeCores(ids) = {c}
    BY DEF FreeCores
  <1>2. k = c
    <2>1. {c} # {} /\ {c} \in SUBSET Nat
      BY CoresAreNaturals
    <2>2. Lowest({c}) \in {c}
      BY <2>1, LowestIn
    <2>3. QED
      BY <1>1, <2>2
  <1> HIDE DEF k
  <1>3. FreeCores([ids EXCEPT ![k] = gate]) = {}
    BY <1>2 DEF FreeCores
  <1>4. QED
    BY <1>2, <1>3 DEF k

\* The table and the queue of the manager name gates and blocks, and no gate is the mark
\* of a free core.
LEMMA GatesTyped ==
    ASSUME TypeOK
    PROVE  /\ \A m \in Msgs : Gate(m) \in Guests \X VCpus
           /\ NULL \notin Guests \X VCpus
           /\ vmIDs \in [Cores -> (Guests \X VCpus) \cup {NULL}]
           /\ coreQueue # <<>> => Head(coreQueue) \in Blocks /\ Tail(coreQueue) \in Seq(Blocks)
  <1>1. \A m \in Msgs : Owner[m] \in Guests /\ nextModuleIndex[m] \in VCpus
    BY OwnersAreGuests DEF TypeOK, SchedTypeOK
  <1>2. NULL \notin Guests \X VCpus
    BY CoresAreNaturals, ConstantsAssumption
  <1>3. vmIDs \in [Cores -> (Guests \X VCpus) \cup {NULL}] /\ coreQueue \in Seq(Blocks)
    BY DEF TypeOK, HypTypeOK
  <1>4. QED
    BY <1>1, <1>2, <1>3, QueueFacts DEF Gate

\* The manager's table after a release, with or without a block that waits.
LEMMA ReleaseConserves ==
    ASSUME TypeOK, ManagerConserves, NEW c \in Cores,
           LET ids == [vmIDs EXCEPT ![c] = NULL]
               k == Lowest(FreeCores(ids))
           IN  \/ coreQueue = <<>> /\ coreQueue' = coreQueue
               \/ coreQueue # <<>> /\ vmIDs' = [ids EXCEPT ![k] = Gate(Head(coreQueue))]
    PROVE  ManagerConserves'
  <1> DEFINE ids == [vmIDs EXCEPT ![c] = NULL]
             k == Lowest(FreeCores(ids))
             gate == Gate(Head(coreQueue))
  <1>1. CASE coreQueue = <<>>
    BY <1>1 DEF ManagerConserves
  <1>2. CASE coreQueue # <<>>
    <2>1. gate \in Guests \X VCpus
      BY <1>2, GatesTyped, MsgKinds
    <2>2. vmIDs' = [ids EXCEPT ![k] = gate]
      BY <1>2
    <2>3. FreeCores(vmIDs) = {}
      BY <1>2 DEF ManagerConserves
    <2> HIDE DEF gate
    <2>4. FreeCores([ids EXCEPT ![k] = gate]) = {}
      BY <2>1, <2>3, GatesTyped, ReleaseAndTake
    <2> HIDE DEF ids, k
    <2>5. QED
      BY <2>2, <2>4 DEF ManagerConserves, FreeCores
  <1>3. QED
    BY <1>1, <1>2

\* One step of the system, whatever the policy and the overhead, leaves nobody waiting
\* beside a free core.
LEMMA ConservingStep == TypeOK /\ WorkConserving /\ [Next]_vars => WorkConserving'
  <1> SUFFICES ASSUME TypeOK, WorkConserving, [Next]_vars PROVE WorkConserving'
    OBVIOUS
  <1>a. SchedTypeOK /\ SchedsConserve /\ ManagerConserves
    BY DEF TypeOK, WorkConserving, SchedsConserve, ManagerConserves
  <1>b. \A b \in Blocks : /\ Owner[b] \in Guests /\ nextModuleIndex[b] \in VCpus
                          /\ requestsQueue[Owner[b]] \in Seq(Msgs) /\ coreOf[b] \in Cores
    BY <1>a, OwnersAreGuests, MsgKinds DEF TypeOK, SchedTypeOK, MsgTypeOK
  <1>c. SchedsConserve' /\ ManagerConserves' => WorkConserving'
    BY DEF WorkConserving, SchedsConserve, ManagerConserves
  <1>1. ASSUME UNCHANGED schedVars PROVE SchedsConserve'
    BY <1>1, <1>a DEF schedVars, SchedsConserve
  <1>2. ASSUME UNCHANGED hypVars PROVE ManagerConserves'
    BY <1>2, <1>a DEF hypVars, ManagerConserves, FreeCores
  <1>3. ASSUME NEW m \in Msgs, Admit(m) PROVE SchedsConserve'
    BY <1>3, <1>a, AdmitConserves
  <1>4. ASSUME NEW b \in Blocks, NEW f, Redispatch(Owner[b], nextModuleIndex[b], requestsQueue[Owner[b]], f)
        PROVE  SchedsConserve'
    <2> DEFINE g == Owner[b]
    <2>1. requestsQueue[g] # <<>> => isCPU_Idle[g] = {}
      BY <1>a, <1>b DEF SchedsConserve
    <2>2. QED
      BY <1>4, <1>a, <1>b, <2>1, RedispatchConserves
  <1>5. ASSUME NEW b \in Blocks, NEW f,
               Redispatch(Owner[b], nextModuleIndex[b], Append(requestsQueue[Owner[b]], b), f)
        PROVE  SchedsConserve'
    <2> DEFINE g == Owner[b]
               q == Append(requestsQueue[g], b)
    <2>1. requestsQueue[g] # <<>> => isCPU_Idle[g] = {}
      BY <1>a, <1>b DEF SchedsConserve
    <2>2. q \in Seq(Msgs) /\ q # <<>>
      BY <1>b, MsgKinds
    <2>3. Tail(q) # <<>> => isCPU_Idle[g] = {}
      BY <2>1, MsgKinds, LastOfOne
    <2>4. Redispatch(g, nextModuleIndex[b], q, f)
      BY <1>5
    <2> HIDE DEF q, g
    <2>5. g \in Guests /\ nextModuleIndex[b] \in VCpus
      BY <1>b DEF g
    <2>6. QED
      BY <1>a, <2>2, <2>3, <2>4, <2>5, RedispatchConserves
  <1>6. ASSUME NEW b \in Blocks, Deliver(b) PROVE WorkConserving'
    <2>1. CASE SchedRequest(b)
      BY <2>1, <1>2, <1>3, <1>c, MsgKinds DEF SchedRequest
    <2>2. CASE HypRequest(b)
      <3>1. SchedsConserve'
        BY <2>2, <1>1 DEF HypRequest
      <3>2. CASE FreeCores(vmIDs) # {}
        <4>1. coreQueue = <<>> /\ coreQueue' = coreQueue
          BY <2>2, <3>2, <1>a DEF HypRequest, ManagerConserves
        <4>2. QED
          BY <4>1, <3>1, <1>c DEF ManagerConserves
      <3>3. CASE FreeCores(vmIDs) = {}
        <4>1. vmIDs' = vmIDs
          BY <2>2, <3>3 DEF HypRequest
        <4>2. QED
          BY <4>1, <3>1, <3>3, <1>c DEF ManagerConserves, FreeCores
      <3>4. QED
        BY <3>2, <3>3
    <2>3. CASE CoreRequest(b)
      BY <2>3, <1>1, <1>2, <1>c DEF CoreRequest
    <2>4. CASE HypResponse(b)
      <3>1. SchedsConserve'
        BY <2>4, <1>1 DEF HypResponse
      <3>2. HardwareResponse(coreOf[b], [at EXCEPT ![b] = "toGuest"])
        BY <2>4 DEF HypResponse
      <3>3. ManagerConserves'
        BY <3>2, <1>a, <1>b, ReleaseConserves, Zenon DEF HardwareResponse, ScheduleOn
      <3>4. QED
        BY <3>1, <3>3, <1>c
    <2>5. CASE SchedResponse(b)
      BY <2>5, <1>2, <1>4, <1>c DEF SchedResponse
    <2>6. CASE SchedRequeue(b)
      BY <2>6, <1>2, <1>5, <1>c DEF SchedRequeue
    <2>7. QED
      BY <1>6, <2>1, <2>2, <2>3, <2>4, <2>5, <2>6 DEF Deliver
  <1>7. ASSUME NEW b \in Blocks, DeliverOverhead(b) PROVE WorkConserving'
    <2>1. CASE HypSaveResponse(b)
      <3>1. vmIDs' = vmIDs /\ coreQueue' = coreQueue
        BY <2>1 DEF HypSaveResponse
      <3>2. QED
        BY <2>1, <3>1, <1>a, <1>1, <1>c DEF HypSaveResponse, ManagerConserves, FreeCores
    <2>2. CASE CoreOverheadRequest(b)
      BY <2>2, <1>1, <1>2, <1>c DEF CoreOverheadRequest
    <2>3. CASE HypOverheadResponse(b)
      <3>1. SchedsConserve'
        BY <2>3, <1>1 DEF HypOverheadResponse
      <3>2. ManagerConserves'
        <4> DEFINE ids == [vmIDs EXCEPT ![coreOf[b]] = NULL]
                   k == Lowest(FreeCores(ids))
        <4>1. /\ coreQueue' = IF coreQueue # <<>> THEN Tail(coreQueue) ELSE coreQueue
              /\ vmIDs' = IF coreQueue # <<>> THEN [ids EXCEPT ![k] = Gate(Head(coreQueue))] ELSE ids
          BY <2>3, Zenon DEF HypOverheadResponse
        <4>2. QED
          BY <4>1, <1>a, <1>b, ReleaseConserves, Zenon
      <3>3. QED
        BY <3>1, <3>2, <1>c
    <2>4. CASE SchedOverheadResponse(b)
      BY <2>4, <1>2, <1>4, <1>c DEF SchedOverheadResponse
    <2>5. QED
      BY <1>7, <2>1, <2>2, <2>3, <2>4 DEF DeliverOverhead
  <1>8. ASSUME NEW s \in StateMsgs, DeliverState(s) PROVE WorkConserving'
    <2>1. SchedsConserve' /\ ManagerConserves'
      BY <1>8, <1>1, <1>2, <1>3, MsgKinds DEF DeliverState, SchedStateFIFO, SchedStateRR, HypState
    <2>2. QED
      BY <2>1, <1>c
  <1>9. ASSUME NEW c \in Cores, CoreLatency(c) PROVE WorkConserving'
    BY <1>9, <1>1, <1>2, <1>c DEF CoreLatency
  <1>10. CASE UNCHANGED vars
    BY <1>10, <1>1, <1>2, <1>c DEF vars
  <1>11. QED
    BY <1>6, <1>7, <1>8, <1>9, <1>10 DEF Next, Finished

\* In the schedulers and in the hypervisor's manager, with any policy and with or
\* without overhead, no request waits while a core it could run on is free.
THEOREM Conserving == Spec => []WorkConserving
  <1>1. Init => WorkConserving
    BY DEF Init, WorkConserving
  <1>2. QED
    BY <1>1, ConservingStep, TypeCorrect, PTL DEF Spec
-------------------------------------------------------------------------------
(* Without overhead, every core works for one block.                       *)

\* The hands a message of a guest can be in, and those of the cores.
OnGuest == {"app", "queued", "toHyp", "toGuest", "done", "deleted"}
InCore == {"toCore", "core", "fromCore"}

\* The step moves messages of the guests only.
AmongGuests ==
    /\ \A m \in Msgs : at'[m] # at[m] => at[m] \in OnGuest /\ at'[m] \in OnGuest
    /\ \A m \in Msgs : nextModuleIndex'[m] # nextModuleIndex[m] => at[m] \in OnGuest

\* Block b goes to p, and a message that waits may take its virtual core.
HandsOver(b, p) ==
    /\ \A x \in Msgs : x # b /\ at'[x] # at[x] => at[x] = "queued" /\ at'[x] = "toHyp"
    /\ at'[b] = p \/ (p = "queued" /\ at'[b] = "toHyp")

\* The messages of queue q wait there once each, in the places f.
WaitOnce(q, g, f) ==
    /\ \A i \in DOMAIN q : Owner[q[i]] = g /\ f[q[i]] = "queued"
    /\ \A i, j \in DOMAIN q : q[i] = q[j] => i = j

\* A step of the hypervisor or of a core that moves no message into or out of the
\* hands of the schedulers keeps what is known of them.
LEMMA SchedFrame ==
    ASSUME TypeOK, SchedInv, UNCHANGED schedVars,
           \A m \in Msgs : Dispatched(m)' <=> Dispatched(m),
           \A m \in Msgs : at[m] = "queued" => at'[m] = "queued"
    PROVE  SchedInv'
  <1>1. SchedQueues'
    <2>1. \A g \in Guests : requestsQueue'[g] = requestsQueue[g] /\ requestsQueue[g] \in Seq(Msgs)
      BY DEF schedVars, TypeOK, SchedTypeOK
    <2>2. QED
      BY <2>1 DEF SchedInv, SchedQueues
  <1>2. OnePerVCpu'
    BY DEF schedVars, SchedInv, OnePerVCpu
  <1>3. QED
    BY <1>1, <1>2 DEF SchedInv

\* A step of a scheduler, which moves messages among the guests, keeps what is known of
\* the hypervisor and of its cores.
LEMMA HypFrame ==
    ASSUME ~Overhead, TypeOK, HypInv, UNCHANGED <<vmIDs, coreQueue, coreOf, pendingMessage>>,
           AmongGuests
    PROVE  HypInv'
  <1>1. \A b \in Blocks : /\ OnCore(b)' <=> OnCore(b)
                          /\ OnCore(b) => Gate(b)' = Gate(b)
                          /\ at[b] \in {"core", "hypQueue"} => at'[b] = at[b]
    BY MsgKinds DEF OnCore, Gate, AmongGuests, OnGuest
  <1>2. HypQueue'
    BY <1>1 DEF HypInv, HypQueue, TypeOK, HypTypeOK
  <1>3. OnePerCore'
    BY <1>1 DEF HypInv, OnePerCore
  <1>4. Executing'
    BY <1>1 DEF HypInv, Executing
  <1>5. QED
    BY <1>2, <1>3, <1>4 DEF HypInv

\* A message that is not in a queue joins one at its end: the queue still holds its
\* messages once each.
LEMMA JoinsOnce ==
    ASSUME NEW S, NEW q \in Seq(S), NEW x \in S,
           \A i \in DOMAIN q : q[i] # x,
           \A i, j \in DOMAIN q : q[i] = q[j] => i = j
    PROVE  /\ \A i \in DOMAIN Append(q, x) :
                \/ i \in DOMAIN q /\ Append(q, x)[i] = q[i]
                \/ Append(q, x)[i] = x
           /\ \A i, j \in DOMAIN Append(q, x) : Append(q, x)[i] = Append(q, x)[j] => i = j
  OBVIOUS

\* The head of a queue that holds its messages once each is not in the rest of it.
LEMMA LeavesOnce ==
    ASSUME NEW S, NEW q \in Seq(S), q # <<>>,
           \A i, j \in DOMAIN q : q[i] = q[j] => i = j
    PROVE  /\ Head(q) = q[1] /\ 1 \in DOMAIN q
           /\ \A i \in DOMAIN Tail(q) : /\ i + 1 \in DOMAIN q /\ Tail(q)[i] = q[i + 1]
                                        /\ Tail(q)[i] # Head(q)
           /\ \A i, j \in DOMAIN Tail(q) : Tail(q)[i] = Tail(q)[j] => i = j
  OBVIOUS

\* A message enters the hands of its scheduler: it waits, or gets an idle virtual core.
LEMMA AdmitShares ==
    ASSUME TypeOK, SchedInv, NEW m \in Msgs, at[m] = "app", Admit(m)
    PROVE  /\ SchedInv'
           /\ AmongGuests
           /\ \A x \in Msgs \ {m} : at'[x] = at[x]
           /\ at'[m] \in {"queued", "toHyp"}
  <1> DEFINE g == Owner[m]
             q == Append(requestsQueue[g], m)
             v == Lowest(isCPU_Idle[g])
  <1>a. g \in Guests /\ SchedTypeOK /\ at \in [Msgs -> Places] /\ requestsQueue[g] \in Seq(Msgs)
    BY OwnersAreGuests DEF TypeOK, SchedTypeOK, MsgTypeOK
  <1>b. \A h \in Guests : \A i \in DOMAIN requestsQueue[h] :
          /\ requestsQueue[h][i] \in Msgs /\ requestsQueue[h][i] # m
          /\ at[requestsQueue[h][i]] = "queued"
    BY <1>a DEF SchedTypeOK, SchedInv, SchedQueues
  <1>c. ~Dispatched(m)
    BY DEF Dispatched
  <1>1. CASE isCPU_Idle[g] = {}
    <2>1. /\ requestsQueue' = [requestsQueue EXCEPT ![g] = q]
          /\ at' = [at EXCEPT ![m] = "queued"]
          /\ isCPU_Idle' = isCPU_Idle /\ nextModuleIndex' = nextModuleIndex
      BY <1>1, Zenon DEF Admit
    <2>2. /\ \A i \in DOMAIN q : \/ i \in DOMAIN requestsQueue[g] /\ q[i] = requestsQueue[g][i]
                                 \/ q[i] = m
          /\ \A i, j \in DOMAIN q : q[i] = q[j] => i = j
      BY <1>a, <1>b, JoinsOnce DEF SchedInv, SchedQueues
    <2> HIDE DEF q
    <2>3. \A x \in Msgs : /\ x # m => at'[x] = at[x]
                          /\ x = m => at'[x] = "queued"
      BY <1>a, <2>1
    <2>4. SchedQueues'
      <3> SUFFICES ASSUME NEW h \in Guests, NEW i \in DOMAIN requestsQueue'[h]
                   PROVE  /\ at'[requestsQueue'[h][i]] = "queued" /\ Owner[requestsQueue'[h][i]] = h
                          /\ \A j \in DOMAIN requestsQueue'[h] :
                               requestsQueue'[h][i] = requestsQueue'[h][j] => i = j
        BY DEF SchedQueues
      <3>1. CASE h = g
        <4>1. requestsQueue'[h] = q
          BY <1>a, <2>1, <3>1 DEF SchedTypeOK
        <4>2. \/ q[i] = m
              \/ i \in DOMAIN requestsQueue[g] /\ q[i] = requestsQueue[g][i]
          BY <2>2, <4>1
        <4>3. at'[q[i]] = "queued" /\ Owner[q[i]] = g
          BY <1>a, <1>b, <2>3, <4>2 DEF SchedInv, SchedQueues
        <4>4. QED
          BY <2>2, <3>1, <4>1, <4>3
      <3>2. CASE h # g
        <4>1. requestsQueue'[h] = requestsQueue[h]
          BY <1>a, <2>1, <3>2 DEF SchedTypeOK
        <4>2. QED
          BY <1>b, <2>3, <4>1 DEF SchedInv, SchedQueues
      <3>3. QED
        BY <3>1, <3>2
    <2>5. \A x \in Msgs : Dispatched(x)' <=> Dispatched(x)
      BY <1>c, <2>3 DEF Dispatched
    <2>6. OnePerVCpu'
      BY <2>1, <2>5 DEF SchedInv, OnePerVCpu
    <2>7. QED
      BY <2>1, <2>3, <2>4, <2>6 DEF SchedInv, AmongGuests, OnGuest
  <1>2. CASE isCPU_Idle[g] # {}
    <2>1. /\ nextModuleIndex' = [nextModuleIndex EXCEPT ![m] = v]
          /\ isCPU_Idle' = [isCPU_Idle EXCEPT ![g] = @ \ {v}]
          /\ at' = [at EXCEPT ![m] = "toHyp"]
          /\ requestsQueue' = requestsQueue
      BY <1>2, Zenon DEF Admit
    <2>2. v \in isCPU_Idle[g] /\ v \in VCpus
      BY <1>a, <1>2, SearchesInRange DEF SchedTypeOK
    <2> HIDE DEF v
    <2>3. \A x \in Msgs : /\ x # m => at'[x] = at[x] /\ nextModuleIndex'[x] = nextModuleIndex[x]
                          /\ x = m => at'[x] = "toHyp" /\ nextModuleIndex'[x] = v
      BY <1>a, <2>1 DEF SchedTypeOK
    <2>4. SchedQueues'
      BY <1>b, <2>1, <2>3 DEF SchedInv, SchedQueues
    <2>5. \A x \in Msgs : Dispatched(x)' <=> Dispatched(x) \/ x = m
      BY <2>3 DEF Dispatched
    <2>6. OnePerVCpu'
      <3>1. \A h \in Guests : isCPU_Idle'[h] = IF h = g THEN isCPU_Idle[h] \ {v} ELSE isCPU_Idle[h]
        BY <1>a, <2>1 DEF SchedTypeOK
      <3>2. \A x \in Msgs : Dispatched(x) => ~ (Owner[x] = g /\ nextModuleIndex[x] = v)
        BY <2>2 DEF SchedInv, OnePerVCpu
      <3>3. \A m1, m2 \in Msgs :
              Dispatched(m1)' /\ Dispatched(m2)' /\ Owner[m1] = Owner[m2]
                /\ nextModuleIndex'[m1] = nextModuleIndex'[m2] => m1 = m2
        BY <2>3, <2>5, <3>2 DEF SchedInv, OnePerVCpu
      <3>4. \A x \in Msgs : Dispatched(x)' => nextModuleIndex'[x] \notin isCPU_Idle'[Owner[x]]
        <4> SUFFICES ASSUME NEW x \in Msgs, Dispatched(x)'
                     PROVE  nextModuleIndex'[x] \notin isCPU_Idle'[Owner[x]]
          OBVIOUS
        <4>1. CASE x = m
          BY <1>a, <2>3, <3>1, <4>1
        <4>2. CASE x # m
          <5>1. Dispatched(x) /\ nextModuleIndex'[x] = nextModuleIndex[x] /\ Owner[x] \in Guests
            BY <2>3, <2>5, <4>2, OwnersAreGuests
          <5>2. nextModuleIndex[x] \notin isCPU_Idle[Owner[x]]
            BY <5>1 DEF SchedInv, OnePerVCpu
          <5>3. QED
            BY <3>1, <5>1, <5>2
        <4>3. QED
          BY <4>1, <4>2
      <3>5. \A h \in Guests, w \in VCpus : w \notin isCPU_Idle'[h] =>
              \E x \in Msgs : Owner[x] = h /\ Dispatched(x)' /\ nextModuleIndex'[x] = w
        <4> SUFFICES ASSUME NEW h \in Guests, NEW w \in VCpus, w \notin isCPU_Idle'[h]
                     PROVE  \E x \in Msgs : Owner[x] = h /\ Dispatched(x)' /\ nextModuleIndex'[x] = w
          OBVIOUS
        <4>1. CASE h = g /\ w = v
          BY <2>3, <2>5, <4>1
        <4>2. CASE ~ (h = g /\ w = v)
          <5>1. w \notin isCPU_Idle[h]
            BY <3>1, <4>2
          <5>2. PICK x \in Msgs : Owner[x] = h /\ Dispatched(x) /\ nextModuleIndex[x] = w
            BY <5>1 DEF SchedInv, OnePerVCpu
          <5>3. QED
            BY <1>c, <2>3, <2>5, <5>2
        <4>3. QED
          BY <4>1, <4>2
      <3>6. QED
        BY <3>3, <3>4, <3>5 DEF OnePerVCpu
    <2>7. QED
      BY <2>1, <2>3, <2>4, <2>6 DEF SchedInv, AmongGuests, OnGuest
  <1>3. QED
    BY <1>1, <1>2

\* A virtual core has answered for block b, which is done or joins the queue: it goes
\* to the head of the queue, or is idle when nobody waits.
LEMMA RedispatchShares ==
    ASSUME TypeOK, SchedInv, NEW b \in Blocks, at[b] = "toGuest",
           NEW p \in {"done", "queued"}, NEW q \in Seq(Msgs),
           NEW f, f = [at EXCEPT ![b] = p],
           Redispatch(Owner[b], nextModuleIndex[b], q, f),
           q = <<>> => requestsQueue[Owner[b]] = <<>> /\ p = "done",
           WaitOnce(q, Owner[b], f)
    PROVE  /\ SchedInv'
           /\ AmongGuests
           /\ HandsOver(b, p)
  <1> DEFINE g == Owner[b]
             v == nextModuleIndex[b]
  <1>a. /\ b \in Msgs /\ g \in Guests /\ v \in VCpus /\ SchedTypeOK /\ at \in [Msgs -> Places]
        /\ \A h \in Guests : requestsQueue[h] \in Seq(Msgs)
    BY OwnersAreGuests, MsgKinds DEF TypeOK, SchedTypeOK, MsgTypeOK
  <1>b. Dispatched(b) /\ b \notin StateMsgs
    BY ConstantsAssumption DEF Dispatched
  <1>c. \A x \in Msgs : (x # b => f[x] = at[x]) /\ (x = b => f[x] = p)
    BY <1>a
  <1>d. /\ \A i \in DOMAIN q : Owner[q[i]] = g /\ f[q[i]] = "queued"
        /\ \A i, j \in DOMAIN q : q[i] = q[j] => i = j
    BY DEF WaitOnce
  <1>e. Redispatch(g, v, q, f)
    OBVIOUS
  <1>f. \A h \in Guests : \A i \in DOMAIN requestsQueue[h] :
          requestsQueue[h][i] \in Msgs /\ requestsQueue[h][i] # b /\ f[requestsQueue[h][i]] = "queued"
    BY <1>a, <1>c DEF SchedInv, SchedQueues
  <1>g. /\ \A x \in Msgs : Dispatched(x) => x = b \/ ~ (Owner[x] = g /\ nextModuleIndex[x] = v)
        /\ v \notin isCPU_Idle[g]
    BY <1>a, <1>b DEF SchedInv, OnePerVCpu
  <1>1. CASE q = <<>>
    <2>1. /\ isCPU_Idle' = [isCPU_Idle EXCEPT ![g] = @ \cup {v}]
          /\ at' = f /\ requestsQueue' = requestsQueue /\ nextModuleIndex' = nextModuleIndex
      BY <1>1, <1>e, Zenon DEF Redispatch
    <2>2. SchedQueues'
      BY <1>f, <2>1 DEF SchedInv, SchedQueues
    <2>3. \A x \in Msgs : Dispatched(x)' <=> Dispatched(x) /\ x # b
      BY <1>1, <1>b, <1>c, <2>1 DEF Dispatched
    <2>4. \A h \in Guests : isCPU_Idle'[h] = IF h = g THEN isCPU_Idle[h] \cup {v} ELSE isCPU_Idle[h]
      BY <1>a, <2>1 DEF SchedTypeOK
    <2>5. \A m1, m2 \in Msgs :
            Dispatched(m1)' /\ Dispatched(m2)' /\ Owner[m1] = Owner[m2]
              /\ nextModuleIndex'[m1] = nextModuleIndex'[m2] => m1 = m2
      BY <2>1, <2>3 DEF SchedInv, OnePerVCpu
    <2>6. \A x \in Msgs : Dispatched(x)' => nextModuleIndex'[x] \notin isCPU_Idle'[Owner[x]]
      <3> SUFFICES ASSUME NEW x \in Msgs, Dispatched(x)'
                   PROVE  nextModuleIndex[x] \notin isCPU_Idle'[Owner[x]]
        BY <2>1
      <3>1. Dispatched(x) /\ x # b /\ Owner[x] \in Guests
        BY <2>3, OwnersAreGuests
      <3>2. nextModuleIndex[x] \notin isCPU_Idle[Owner[x]]
        BY <3>1 DEF SchedInv, OnePerVCpu
      <3>3. ~ (Owner[x] = g /\ nextModuleIndex[x] = v)
        BY <1>g, <3>1
      <3>4. CASE Owner[x] = g
        <4>1. isCPU_Idle'[Owner[x]] = isCPU_Idle[Owner[x]] \cup {v} /\ nextModuleIndex[x] # v
          BY <2>4, <3>1, <3>3, <3>4
        <4> HIDE DEF g, v
        <4>2. QED
          BY <3>2, <4>1
      <3>5. CASE Owner[x] # g
        BY <2>4, <3>1, <3>2, <3>5
      <3>6. QED
        BY <3>4, <3>5
    <2>7. \A h \in Guests, w \in VCpus : w \notin isCPU_Idle'[h] =>
            \E x \in Msgs : Owner[x] = h /\ Dispatched(x)' /\ nextModuleIndex'[x] = w
      <3> SUFFICES ASSUME NEW h \in Guests, NEW w \in VCpus, w \notin isCPU_Idle'[h]
                   PROVE  \E x \in Msgs : Owner[x] = h /\ Dispatched(x)' /\ nextModuleIndex'[x] = w
        OBVIOUS
      <3>1. w \notin isCPU_Idle[h] /\ ~ (h = g /\ w = v)
        BY <2>4
      <3>2. PICK x \in Msgs : Owner[x] = h /\ Dispatched(x) /\ nextModuleIndex[x] = w
        BY <3>1 DEF SchedInv, OnePerVCpu
      <3>3. QED
        BY <2>1, <2>3, <3>1, <3>2
    <2>8. OnePerVCpu'
      BY <2>5, <2>6, <2>7 DEF OnePerVCpu
    <2>9. QED
      BY <1>1, <1>a, <1>c, <2>1, <2>2, <2>8 DEF SchedInv, AmongGuests, OnGuest, HandsOver
  <1>2. CASE q # <<>>
    <2>1. PICK h \in Msgs, t \in Seq(Msgs) : h = Head(q) /\ t = Tail(q)
      BY <1>2, QueueFacts
    <2>2. /\ isCPU_Idle' = [isCPU_Idle EXCEPT ![g] = @ \ {v}]
          /\ requestsQueue' = [requestsQueue EXCEPT ![g] = t]
          /\ nextModuleIndex' = [nextModuleIndex EXCEPT ![h] = v]
          /\ at' = [f EXCEPT ![h] = "toHyp"]
      BY <1>2, <1>e, <2>1, Zenon DEF Redispatch
    <2>3. /\ h = q[1] /\ 1 \in DOMAIN q
          /\ \A i \in DOMAIN t : i + 1 \in DOMAIN q /\ t[i] = q[i + 1] /\ t[i] # h
          /\ \A i, j \in DOMAIN t : t[i] = t[j] => i = j
      BY <1>2, <1>d, <2>1, LeavesOnce
    <2>4. /\ Owner[h] = g /\ f[h] = "queued"
          /\ \A i \in DOMAIN t : t[i] \in Msgs /\ Owner[t[i]] = g /\ f[t[i]] = "queued" /\ t[i] # h
      BY <1>d, <2>3
    <2>5. \A x \in Msgs : /\ x # h => at'[x] = f[x] /\ nextModuleIndex'[x] = nextModuleIndex[x]
                          /\ x = h => at'[x] = "toHyp" /\ nextModuleIndex'[x] = v
      BY <1>a, <1>c, <2>2 DEF SchedTypeOK
    <2>6. ~ (at[h] \in InCore) /\ (h # b => at[h] = "queued" /\ ~Dispatched(h))
      BY <1>c, <2>4 DEF Dispatched, InCore
    <2>7. SchedQueues'
      <3> SUFFICES ASSUME NEW k \in Guests, NEW i \in DOMAIN requestsQueue'[k]
                   PROVE  /\ at'[requestsQueue'[k][i]] = "queued" /\ Owner[requestsQueue'[k][i]] = k
                          /\ \A j \in DOMAIN requestsQueue'[k] :
                               requestsQueue'[k][i] = requestsQueue'[k][j] => i = j
        BY DEF SchedQueues
      <3>1. CASE k = g
        <4>1. requestsQueue'[k] = t
          BY <1>a, <2>2, <3>1 DEF SchedTypeOK
        <4>2. QED
          BY <2>3, <2>4, <2>5, <3>1, <4>1
      <3>2. CASE k # g
        <4>1. requestsQueue'[k] = requestsQueue[k]
          BY <1>a, <2>2, <3>2 DEF SchedTypeOK
        <4>2. requestsQueue[k][i] # h /\ Owner[requestsQueue[k][i]] = k
          BY <2>4, <3>2, <4>1 DEF SchedInv, SchedQueues
        <4>3. at'[requestsQueue[k][i]] = "queued"
          BY <1>f, <2>5, <4>1, <4>2
        <4>4. QED
          BY <4>1, <4>2, <4>3 DEF SchedInv, SchedQueues
      <3>3. QED
        BY <3>1, <3>2
    <2>8. \A x \in Msgs : Dispatched(x)' <=> x = h \/ (Dispatched(x) /\ x # b)
      BY <1>b, <1>c, <2>5 DEF Dispatched
    <2>9. isCPU_Idle' = isCPU_Idle
      BY <1>a, <1>g, <2>2 DEF SchedTypeOK
    <2>10. \A m1, m2 \in Msgs :
            Dispatched(m1)' /\ Dispatched(m2)' /\ Owner[m1] = Owner[m2]
              /\ nextModuleIndex'[m1] = nextModuleIndex'[m2] => m1 = m2
      BY <1>g, <2>4, <2>5, <2>8 DEF SchedInv, OnePerVCpu
    <2>11. \A x \in Msgs : Dispatched(x)' => nextModuleIndex'[x] \notin isCPU_Idle'[Owner[x]]
      BY <1>g, <2>4, <2>5, <2>8, <2>9 DEF SchedInv, OnePerVCpu
    <2>12. \A k \in Guests, w \in VCpus : w \notin isCPU_Idle'[k] =>
            \E x \in Msgs : Owner[x] = k /\ Dispatched(x)' /\ nextModuleIndex'[x] = w
      <3> SUFFICES ASSUME NEW k \in Guests, NEW w \in VCpus, w \notin isCPU_Idle[k]
                   PROVE  \E x \in Msgs : Owner[x] = k /\ Dispatched(x)' /\ nextModuleIndex'[x] = w
        BY <2>9
      <3>1. PICK x \in Msgs : Owner[x] = k /\ Dispatched(x) /\ nextModuleIndex[x] = w
        BY DEF SchedInv, OnePerVCpu
      <3>2. CASE x = b
        BY <2>4, <2>5, <2>8, <3>1, <3>2
      <3>3. CASE x # b
        BY <2>5, <2>6, <2>8, <3>1, <3>3
      <3>4. QED
        BY <3>2, <3>3
    <2>13. OnePerVCpu'
      BY <2>10, <2>11, <2>12 DEF OnePerVCpu
    <2>14. \A x \in Msgs : at[x] = "queued" \/ x = b => at[x] \in OnGuest
      BY DEF OnGuest
    <2>15. \A x \in Msgs : /\ x # b /\ x # h => at'[x] = at[x]
                           /\ nextModuleIndex'[x] # nextModuleIndex[x] => x = h
      BY <1>c, <2>5
    <2>16. h # b => at[h] = "queued" /\ at'[b] = p
      BY <1>a, <1>c, <2>5, <2>6
    <2>17. h = b => p = "queued"
      BY <1>a, <1>c, <2>4
    <2>18. at'[h] = "toHyp"
      BY <2>5
    <2>19. QED
      BY <2>7, <2>13, <2>14, <2>15, <2>16, <2>17, <2>18 DEF SchedInv, AmongGuests, OnGuest, HandsOver
  <1>3. QED
    BY <1>1, <1>2

\* A table ids and places f that agree with the cores the blocks were sent to.
CoresAgree(ids, f) ==
    /\ \A b1, b2 \in Blocks :
         f[b1] \in InCore /\ f[b2] \in InCore /\ coreOf[b1] = coreOf[b2] => b1 = b2
    /\ \A b \in Blocks : f[b] \in InCore => ids[coreOf[b]] = Gate(b)
    /\ \A c \in Cores : ids[c] # NULL => \E b \in Blocks : f[b] \in InCore /\ coreOf[b] = c
    /\ \A c \in Cores : pendingMessage[c] # NULL =>
         \E b \in Blocks : pendingMessage[c] = Exec(b) /\ f[b] = "core" /\ coreOf[b] = c

\* The table of the manager and the places of the blocks agree when every core works for
\* one block and executes no other.
LEMMA AgreeingCores ==
    ASSUME ~Overhead
    PROVE  (OnePerCore /\ Executing) <=> CoresAgree(vmIDs, at)
  <1>1. \A b \in Blocks : OnCore(b) <=> at[b] \in InCore
    BY DEF OnCore, InCore
  <1>2. QED
    BY <1>1, Zenon DEF OnePerCore, Executing, CoresAgree, InCore

\* The gate of a block is a pair, never the mark of a free core.
LEMMA GateIsNoNull ==
    ASSUME TypeOK, NEW b \in Blocks
    PROVE  Gate(b) # NULL /\ coreOf[b] \in Cores
  BY GatesTyped, MsgKinds DEF TypeOK, MsgTypeOK

\* A block that is on no core takes a free one.
LEMMA ScheduleShares ==
    ASSUME ~Overhead, TypeOK, NEW ids \in [Cores -> (Guests \X VCpus) \cup {NULL}],
           NEW f \in [Msgs -> Places], CoresAgree(ids, f),
           NEW k \in Cores, ids[k] = NULL, NEW n \in Blocks, f[n] \notin InCore,
           ScheduleOn(n, k, ids, overheadStructure, f),
           UNCHANGED <<schedVars, pendingMessage>>
    PROVE  OnePerCore' /\ Executing'
  <1>1. /\ vmIDs' = [ids EXCEPT ![k] = Gate(n)] /\ coreOf' = [coreOf EXCEPT ![n] = k]
        /\ at' = [f EXCEPT ![n] = "toCore"]
    BY DEF ScheduleOn
  <1>2. \A b \in Blocks : /\ b # n => at'[b] = f[b] /\ coreOf'[b] = coreOf[b]
                          /\ b = n => at'[b] = "toCore" /\ coreOf'[b] = k
                          /\ Gate(b)' = Gate(b)
    BY <1>1, MsgKinds DEF TypeOK, MsgTypeOK, Gate, schedVars
  <1>3. \A c \in Cores : vmIDs'[c] = IF c = k THEN Gate(n) ELSE ids[c]
    BY <1>1
  <1>4. \A b \in Blocks : b # n /\ f[b] \in InCore => coreOf[b] # k
    BY GateIsNoNull DEF CoresAgree
  <1>5. \A b1, b2 \in Blocks :
          at'[b1] \in InCore /\ at'[b2] \in InCore /\ coreOf'[b1] = coreOf'[b2] => b1 = b2
    BY <1>2, <1>4 DEF CoresAgree
  <1>6. \A b \in Blocks : at'[b] \in InCore => vmIDs'[coreOf'[b]] = Gate(b)'
    BY <1>2, <1>3, <1>4, GateIsNoNull DEF CoresAgree
  <1>7. \A c \in Cores : vmIDs'[c] # NULL => \E b \in Blocks : at'[b] \in InCore /\ coreOf'[b] = c
    <2> SUFFICES ASSUME NEW c \in Cores, vmIDs'[c] # NULL
                 PROVE  \E b \in Blocks : at'[b] \in InCore /\ coreOf'[b] = c
      OBVIOUS
    <2>1. CASE c = k
      BY <1>2, <2>1 DEF InCore
    <2>2. CASE c # k
      BY <1>2, <1>3, <2>2 DEF CoresAgree
    <2>3. QED
      BY <2>1, <2>2
  <1>8. \A c \in Cores : pendingMessage'[c] # NULL =>
          \E b \in Blocks : pendingMessage'[c] = Exec(b) /\ at'[b] = "core" /\ coreOf'[b] = c
    BY <1>2 DEF CoresAgree, InCore
  <1>9. \A b \in Blocks : OnCore(b)' <=> at'[b] \in InCore
    BY DEF OnCore, InCore
  <1>10. QED
    BY <1>5, <1>6, <1>7, <1>8, <1>9 DEF OnePerCore, Executing

\* A step that leaves the table of the cores alone and moves a block among the hands of
\* the hypervisor only changes what a core executes.
LEMMA CoreFrame ==
    ASSUME ~Overhead, TypeOK, HypInv, UNCHANGED <<schedVars, vmIDs, coreQueue, coreOf>>,
           \A b \in Blocks : at'[b] \in InCore <=> at[b] \in InCore,
           \A b \in Blocks : at[b] = "hypQueue" => at'[b] = "hypQueue",
           Executing'
    PROVE  HypInv'
  <1>1. \A b \in Blocks : (OnCore(b)' <=> OnCore(b)) /\ Gate(b)' = Gate(b)
    BY DEF OnCore, InCore, Gate, schedVars
  <1>2. HypQueue'
    BY DEF HypInv, HypQueue, TypeOK, HypTypeOK
  <1>3. OnePerCore'
    BY <1>1 DEF HypInv, OnePerCore
  <1>4. QED
    BY <1>2, <1>3 DEF HypInv

\* A block reaches the manager: it takes the lowest free core or joins the queue.
LEMMA HypRequestShares ==
    ASSUME ~Overhead, TypeOK, SchedInv, HypInv, NEW b \in Blocks, HypRequest(b)
    PROVE  /\ SchedInv' /\ HypInv'
           /\ \A x \in Msgs \ {b} : at'[x] = at[x]
           /\ at'[b] \in {"hypQueue", "toCore"}
  <1>a. /\ at[b] = "toHyp" /\ UNCHANGED <<schedVars, coreVars, answers, fault>>
        /\ at \in [Msgs -> Places] /\ b \in Msgs
    BY MsgKinds DEF HypRequest, TypeOK, MsgTypeOK
  <1>1. /\ \A x \in Msgs \ {b} : at'[x] = at[x]
        /\ at'[b] \in {"hypQueue", "toCore"}
    BY <1>a DEF HypRequest, ScheduleOn
  <1>2. SchedInv'
    <2>1. \A m \in Msgs : (Dispatched(m)' <=> Dispatched(m)) /\ (at[m] = "queued" => at'[m] = "queued")
      BY <1>a, <1>1 DEF Dispatched
    <2>2. QED
      BY <1>a, <2>1, SchedFrame
  <1>3. CASE FreeCores(vmIDs) # {}
    <2> DEFINE k == Lowest(FreeCores(vmIDs))
    <2>1. ScheduleOn(b, k, vmIDs, overheadStructure, at) /\ coreQueue' = coreQueue
      BY <1>3, Zenon DEF HypRequest
    <2>2. k \in Cores /\ vmIDs[k] = NULL
      BY <1>3, SearchesInRange DEF FreeCores
    <2> HIDE DEF k
    <2>3. vmIDs \in [Cores -> (Guests \X VCpus) \cup {NULL}] /\ at[b] \notin InCore
      BY <1>a DEF TypeOK, HypTypeOK, InCore
    <2>4. CoresAgree(vmIDs, at)
      BY AgreeingCores DEF HypInv
    <2>5. pendingMessage' = pendingMessage
      BY <1>a DEF coreVars
    <2>6. OnePerCore' /\ Executing'
      BY <1>a, <2>1, <2>2, <2>3, <2>4, <2>5, ScheduleShares
    <2>7. HypQueue'
      BY <1>a, <1>1, <2>1, MsgKinds DEF HypInv, HypQueue, TypeOK, HypTypeOK
    <2>8. QED
      BY <1>1, <1>2, <2>6, <2>7 DEF HypInv
  <1>4. CASE FreeCores(vmIDs) = {}
    <2> DEFINE q == Append(coreQueue, b)
    <2>1. /\ coreQueue' = q /\ at' = [at EXCEPT ![b] = "hypQueue"]
          /\ vmIDs' = vmIDs /\ coreOf' = coreOf
      BY <1>4, Zenon DEF HypRequest
    <2>2. /\ coreQueue \in Seq(Blocks)
          /\ \A i \in DOMAIN coreQueue : coreQueue[i] \in Blocks /\ coreQueue[i] # b
      BY <1>a DEF TypeOK, HypTypeOK, HypInv, HypQueue
    <2>3. /\ \A i \in DOMAIN q : \/ i \in DOMAIN coreQueue /\ q[i] = coreQueue[i]
                                 \/ q[i] = b
          /\ \A i, j \in DOMAIN q : q[i] = q[j] => i = j
      BY <2>2, JoinsOnce DEF HypInv, HypQueue
    <2> HIDE DEF q
    <2>4. \A x \in Msgs : (x # b => at'[x] = at[x]) /\ (x = b => at'[x] = "hypQueue")
      BY <1>a, <2>1
    <2>5. HypQueue'
      BY <2>1, <2>2, <2>3, <2>4, MsgKinds DEF HypInv, HypQueue
    <2>6. \A x \in Blocks : (OnCore(x)' <=> OnCore(x)) /\ Gate(x)' = Gate(x)
      BY <1>a, <2>4, MsgKinds DEF OnCore, Gate, schedVars
    <2>7. OnePerCore'
      BY <2>1, <2>6 DEF HypInv, OnePerCore
    <2>8. Executing'
      BY <1>a, <2>1, <2>4, MsgKinds DEF coreVars, HypInv, Executing
    <2>9. QED
      BY <1>1, <1>2, <2>5, <2>7, <2>8 DEF HypInv
  <1>5. QED
    BY <1>3, <1>4

\* A block has been executed: its core is released and goes to the head of the queue.
LEMMA HypResponseShares ==
    ASSUME ~Overhead, TypeOK, SchedInv, HypInv, NEW b \in Blocks, HypResponse(b)
    PROVE  /\ SchedInv' /\ HypInv'
           /\ \A x \in Msgs \ {b} : at'[x] = at[x] \/ (at[x] = "hypQueue" /\ at'[x] = "toCore")
           /\ at'[b] = "toGuest"
  <1> DEFINE c == coreOf[b]
             f == [at EXCEPT ![b] = "toGuest"]
             ids == [vmIDs EXCEPT ![c] = NULL]
             k == Lowest(FreeCores(ids))
  <1>a. /\ at[b] = "fromCore" /\ UNCHANGED <<schedVars, coreVars, answers, fault>>
        /\ at \in [Msgs -> Places] /\ b \in Msgs /\ c \in Cores
        /\ vmIDs \in [Cores -> (Guests \X VCpus) \cup {NULL}]
        /\ coreQueue \in Seq(Blocks)
    BY MsgKinds DEF HypResponse, TypeOK, HypTypeOK, MsgTypeOK
  <1>b. HardwareResponse(c, f)
    BY DEF HypResponse
  <1>c. /\ f \in [Msgs -> Places]
        /\ \A x \in Msgs : (x # b => f[x] = at[x]) /\ (x = b => f[x] = "toGuest")
    BY <1>a DEF Places
  <1>d. /\ ids \in [Cores -> (Guests \X VCpus) \cup {NULL}] /\ ids[c] = NULL
        /\ \A d \in Cores : d # c => ids[d] = vmIDs[d]
    BY <1>a
  <1> HIDE DEF f, ids
  <1>e. k \in Cores /\ ids[k] = NULL
    <2>1. c \in FreeCores(ids)
      BY <1>a, <1>d DEF FreeCores
    <2>2. k \in FreeCores(ids)
      BY <2>1, SearchesInRange
    <2>3. QED
      BY <2>2 DEF FreeCores
  <1> HIDE DEF k
  <1>f. CoresAgree(vmIDs, at)
    BY AgreeingCores DEF HypInv
  <1>g. CoresAgree(ids, f)
    <2>1. \A x \in Blocks : f[x] \in InCore => at[x] \in InCore /\ coreOf[x] # c
      BY <1>a, <1>c, <1>f, MsgKinds DEF CoresAgree, InCore
    <2>2. \A x \in Blocks : f[x] \in InCore => ids[coreOf[x]] = Gate(x)
      BY <1>d, <1>f, <2>1, GateIsNoNull DEF CoresAgree
    <2>3. \A d \in Cores : ids[d] # NULL => \E x \in Blocks : f[x] \in InCore /\ coreOf[x] = d
      BY <1>c, <1>d, <1>f, MsgKinds DEF CoresAgree
    <2>4. \A d \in Cores : pendingMessage[d] # NULL =>
            \E x \in Blocks : pendingMessage[d] = Exec(x) /\ f[x] = "core" /\ coreOf[x] = d
      BY <1>a, <1>c, <1>f, MsgKinds DEF CoresAgree
    <2>5. \A b1, b2 \in Blocks :
            f[b1] \in InCore /\ f[b2] \in InCore /\ coreOf[b1] = coreOf[b2] => b1 = b2
      BY <1>f, <2>1 DEF CoresAgree
    <2>6. QED
      BY <2>2, <2>3, <2>4, <2>5 DEF CoresAgree
  <1>h. UNCHANGED <<schedVars, pendingMessage>>
    BY <1>a DEF coreVars
  <1>1. CASE coreQueue = <<>>
    <2>1. vmIDs' = ids /\ at' = f /\ coreQueue' = coreQueue /\ coreOf' = coreOf
      BY <1>1, <1>b, Zenon DEF HardwareResponse, ids
    <2>2. \A m \in Msgs : (Dispatched(m)' <=> Dispatched(m)) /\ (at[m] = "queued" => at'[m] = "queued")
      BY <1>a, <1>c, <2>1 DEF Dispatched
    <2>3. SchedInv'
      BY <1>h, <2>2, SchedFrame
    <2>4. \A x \in Blocks : OnCore(x)' <=> f[x] \in InCore
      BY <2>1 DEF OnCore, InCore
    <2>5. \A x \in Blocks : Gate(x)' = Gate(x)
      BY <1>h DEF Gate, schedVars
    <2>6. OnePerCore' /\ Executing'
      BY <1>g, <1>h, <2>1, <2>4, <2>5 DEF OnePerCore, Executing, CoresAgree
    <2>7. HypQueue'
      BY <1>1, <2>1 DEF HypQueue
    <2>8. QED
      BY <1>a, <1>c, <2>1, <2>3, <2>6, <2>7 DEF HypInv
  <1>2. CASE coreQueue # <<>>
    <2>1. PICK n \in Blocks, t \in Seq(Blocks) : n = Head(coreQueue) /\ t = Tail(coreQueue)
      BY <1>2, <1>a, QueueFacts
    <2>2. coreQueue' = t /\ ScheduleOn(n, k, ids, overheadStructure, f)
      BY <1>2, <1>b, <2>1, Zenon DEF HardwareResponse, ids, k
    <2>3. /\ n = coreQueue[1] /\ 1 \in DOMAIN coreQueue
          /\ \A i \in DOMAIN t : i + 1 \in DOMAIN coreQueue /\ t[i] = coreQueue[i + 1] /\ t[i] # n
          /\ \A i, j \in DOMAIN t : t[i] = t[j] => i = j
      BY <1>2, <1>a, <2>1, LeavesOnce DEF HypInv, HypQueue
    <2>4. at[n] = "hypQueue" /\ n # b /\ n \in Msgs
      BY <1>a, <2>3, MsgKinds DEF HypInv, HypQueue
    <2>5. at' = [f EXCEPT ![n] = "toCore"]
      BY <2>2 DEF ScheduleOn
    <2>6. \A x \in Msgs : /\ x # b /\ x # n => at'[x] = at[x]
                          /\ x = b => at'[x] = "toGuest"
                          /\ x = n => at'[x] = "toCore"
      BY <1>c, <2>4, <2>5
    <2>7. f[n] \notin InCore
      BY <1>c, <2>4 DEF InCore
    <2>8. OnePerCore' /\ Executing'
      BY <1>c, <1>d, <1>e, <1>g, <1>h, <2>2, <2>7, ScheduleShares
    <2>9. HypQueue'
      <3>1. \A i \in DOMAIN t : t[i] \in Msgs /\ t[i] # n /\ t[i] # b /\ at[t[i]] = "hypQueue"
        BY <1>a, <2>1, <2>3, MsgKinds DEF HypInv, HypQueue
      <3>2. QED
        BY <2>2, <2>3, <2>6, <3>1 DEF HypQueue
    <2>10. \A m \in Msgs : (Dispatched(m)' <=> Dispatched(m)) /\ (at[m] = "queued" => at'[m] = "queued")
      BY <1>a, <2>4, <2>6 DEF Dispatched
    <2>11. SchedInv'
      BY <1>h, <2>10, SchedFrame
    <2>12. QED
      BY <1>a, <2>4, <2>6, <2>8, <2>9, <2>11 DEF HypInv
  <1>3. QED
    BY <1>1, <1>2

\* A block that reaches its core finds it free: another block there would be a second
\* one on the core.
LEMMA CoreRequestShares ==
    ASSUME ~Overhead, TypeOK, SchedInv, HypInv, NEW b \in Blocks, CoreRequest(b)
    PROVE  /\ SchedInv' /\ HypInv' /\ fault' = fault
           /\ at' = [at EXCEPT ![b] = "core"]
           /\ remaining' = [remaining EXCEPT ![b] = AfterSlice(b)]
  <1> DEFINE c == coreOf[b]
  <1>a. /\ at[b] = "toCore" /\ UNCHANGED <<schedVars, hypVars, overheadAt, coreOf, answers>>
        /\ at \in [Msgs -> Places] /\ b \in Msgs /\ c \in Cores
        /\ pendingMessage \in [Cores -> CoreMsgs \cup {NULL}]
    BY MsgKinds DEF CoreRequest, TypeOK, CoreTypeOK, MsgTypeOK
  <1>1. pendingMessage[c] = NULL
    <2> SUFFICES ASSUME pendingMessage[c] # NULL PROVE FALSE
      OBVIOUS
    <2>1. PICK x \in Blocks : at[x] = "core" /\ coreOf[x] = c
      BY <1>a DEF HypInv, Executing
    <2>2. OnCore(x) /\ OnCore(b) /\ x # b
      BY <1>a, <2>1 DEF OnCore
    <2>3. QED
      BY <2>1, <2>2 DEF HypInv, OnePerCore
  <1>2. /\ pendingMessage' = [pendingMessage EXCEPT ![c] = Exec(b)]
        /\ remaining' = [remaining EXCEPT ![b] = AfterSlice(b)]
        /\ at' = [at EXCEPT ![b] = "core"]
        /\ fault' = fault
    BY <1>1, Zenon DEF CoreRequest
  <1>3. \A x \in Msgs : (x # b => at'[x] = at[x]) /\ (x = b => at'[x] = "core")
    BY <1>a, <1>2
  <1>4. \A m \in Msgs : (Dispatched(m)' <=> Dispatched(m)) /\ (at[m] = "queued" => at'[m] = "queued")
    BY <1>a, <1>3 DEF Dispatched
  <1>5. SchedInv'
    BY <1>a, <1>4, SchedFrame
  <1>6. Executing'
    <2> SUFFICES ASSUME NEW d \in Cores, pendingMessage'[d] # NULL
                 PROVE  \E x \in Blocks : pendingMessage'[d] = Exec(x) /\ at'[x] = "core" /\ coreOf'[x] = d
      BY DEF Executing
    <2>1. CASE d = c
      BY <1>a, <1>2, <1>3, <2>1
    <2>2. CASE d # c
      BY <1>a, <1>2, <1>3, <2>2, MsgKinds DEF HypInv, Executing
    <2>3. QED
      BY <2>1, <2>2
  <1>7. \A x \in Blocks : (at'[x] \in InCore <=> at[x] \in InCore) /\ (at[x] = "hypQueue" => at'[x] = "hypQueue")
    BY <1>a, <1>3, MsgKinds DEF InCore
  <1>8. HypInv'
    BY <1>a, <1>6, <1>7, CoreFrame DEF hypVars
  <1>9. QED
    BY <1>2, <1>5, <1>8

\* The latency of the block a core executes is over: the core is ready for another.
LEMMA CoreLatencyShares ==
    ASSUME ~Overhead, TypeOK, SchedInv, HypInv, NEW c \in Cores, CoreLatency(c)
    PROVE  /\ SchedInv' /\ HypInv' /\ UNCHANGED <<remaining, answers, fault, overheadAt>>
           /\ \E b \in Blocks : at[b] = "core" /\ at' = [at EXCEPT ![b] = "fromCore"]
  <1>a. /\ pendingMessage[c] # NULL /\ UNCHANGED <<schedVars, hypVars, coreOf, remaining, answers, fault>>
        /\ at \in [Msgs -> Places] /\ pendingMessage \in [Cores -> CoreMsgs \cup {NULL}]
    BY DEF CoreLatency, TypeOK, CoreTypeOK, MsgTypeOK
  <1>1. PICK b \in Blocks : pendingMessage[c] = Exec(b) /\ at[b] = "core" /\ coreOf[b] = c
    BY <1>a DEF HypInv, Executing
  <1>2. pendingMessage[c][1] = b /\ pendingMessage[c][2] = "exec" /\ b \in Msgs
    BY <1>1, MsgKinds DEF Exec
  <1>3. /\ pendingMessage' = [pendingMessage EXCEPT ![c] = NULL]
        /\ at' = [at EXCEPT ![b] = "fromCore"] /\ overheadAt' = overheadAt
    BY <1>2 DEF CoreLatency
  <1>4. \A x \in Msgs : (x # b => at'[x] = at[x]) /\ (x = b => at'[x] = "fromCore")
    BY <1>a, <1>3
  <1>5. \A m \in Msgs : (Dispatched(m)' <=> Dispatched(m)) /\ (at[m] = "queued" => at'[m] = "queued")
    BY <1>1, <1>4 DEF Dispatched
  <1>6. SchedInv'
    BY <1>a, <1>5, SchedFrame
  <1>7. Executing'
    <2> SUFFICES ASSUME NEW d \in Cores, pendingMessage'[d] # NULL
                 PROVE  \E x \in Blocks : pendingMessage'[d] = Exec(x) /\ at'[x] = "core" /\ coreOf'[x] = d
      BY DEF Executing
    <2>1. d # c /\ pendingMessage'[d] = pendingMessage[d]
      BY <1>a, <1>3
    <2>2. PICK x \in Blocks : pendingMessage[d] = Exec(x) /\ at[x] = "core" /\ coreOf[x] = d
      BY <2>1 DEF HypInv, Executing
    <2>3. QED
      BY <1>a, <1>1, <1>4, <2>1, <2>2, MsgKinds
  <1>8. \A x \in Blocks : (at'[x] \in InCore <=> at[x] \in InCore) /\ (at[x] = "hypQueue" => at'[x] = "hypQueue")
    BY <1>1, <1>4, MsgKinds DEF InCore
  <1>9. HypInv'
    BY <1>a, <1>7, <1>8, CoreFrame DEF hypVars
  <1>10. QED
    BY <1>a, <1>1, <1>3, <1>6, <1>9

\* A message enters a scheduler and the cores go on as they were.
LEMMA SchedRequestShares ==
    ASSUME ~Overhead, TypeOK, SchedInv, HypInv, NEW m \in Msgs, at[m] = "app", Admit(m),
           UNCHANGED <<hypVars, coreVars, coreOf>>
    PROVE  SchedInv' /\ HypInv'
  BY AdmitShares, HypFrame DEF hypVars, coreVars

\* A finished block leaves its scheduler, whose queue gets the virtual core.
LEMMA SchedResponseShares ==
    ASSUME ~Overhead, TypeOK, SchedInv, HypInv, NEW b \in Blocks, SchedResponse(b)
    PROVE  /\ SchedInv' /\ HypInv' /\ at'[b] = "done"
           /\ \A x \in Msgs \ {b} : at'[x] = at[x] \/ (at[x] = "queued" /\ at'[x] = "toHyp")
  <1>p. PICK p \in {"done", "queued"} : p = "done"
    OBVIOUS
  <1> DEFINE g == Owner[b]
             q == requestsQueue[g]
             f == [at EXCEPT ![b] = p]
  <1>1. /\ at[b] = "toGuest" /\ UNCHANGED <<hypVars, coreVars, coreOf>>
        /\ Redispatch(g, nextModuleIndex[b], q, f)
    BY <1>p DEF SchedResponse
  <1>2. q \in Seq(Msgs) /\ g \in Guests /\ at \in [Msgs -> Places] /\ b \in Msgs
    BY OwnersAreGuests, MsgKinds DEF TypeOK, SchedTypeOK, MsgTypeOK
  <1>3. /\ \A i \in DOMAIN q : q[i] \in Msgs /\ Owner[q[i]] = g /\ at[q[i]] = "queued"
        /\ \A i, j \in DOMAIN q : q[i] = q[j] => i = j
    BY <1>2 DEF SchedInv, SchedQueues
  <1>4. WaitOnce(q, g, f)
    <2> HIDE DEF q
    <2>1. QED
      BY <1>p, <1>1, <1>2, <1>3 DEF WaitOnce
  <1>e. q = <<>> => requestsQueue[g] = <<>> /\ p = "done"
    BY <1>p
  <1>f. f = [at EXCEPT ![b] = p]
    OBVIOUS
  <1> HIDE DEF q, f
  <1>5. SchedInv' /\ AmongGuests /\ HandsOver(b, p)
    BY <1>1, <1>2, <1>4, <1>e, <1>f, RedispatchShares
  <1>6. UNCHANGED <<vmIDs, coreQueue, coreOf, pendingMessage>>
    BY <1>1 DEF hypVars, coreVars
  <1>7. HypInv'
    BY <1>5, <1>6, HypFrame
  <1>8. QED
    BY <1>p, <1>5, <1>7 DEF HandsOver

\* Round robin puts an unfinished block at the end of the queue and takes the head, which
\* may be the same block.
LEMMA SchedRequeueShares ==
    ASSUME ~Overhead, TypeOK, SchedInv, HypInv, NEW b \in Blocks, SchedRequeue(b)
    PROVE  /\ SchedInv' /\ HypInv' /\ at'[b] \in {"queued", "toHyp"}
           /\ \A x \in Msgs \ {b} : at'[x] = at[x] \/ (at[x] = "queued" /\ at'[x] = "toHyp")
  <1> DEFINE g == Owner[b]
             r == requestsQueue[g]
             q == Append(r, b)
             f == [at EXCEPT ![b] = "queued"]
  <1>1. /\ at[b] = "toGuest" /\ UNCHANGED <<hypVars, coreVars, coreOf>>
        /\ Redispatch(g, nextModuleIndex[b], q, f)
    BY DEF SchedRequeue
  <1>2. r \in Seq(Msgs) /\ g \in Guests /\ at \in [Msgs -> Places] /\ b \in Msgs
    BY OwnersAreGuests, MsgKinds DEF TypeOK, SchedTypeOK, MsgTypeOK
  <1>3. /\ \A i \in DOMAIN r : r[i] \in Msgs /\ Owner[r[i]] = g /\ at[r[i]] = "queued" /\ r[i] # b
        /\ \A i, j \in DOMAIN r : r[i] = r[j] => i = j
    BY <1>1, <1>2 DEF SchedInv, SchedQueues
  <1>4. q \in Seq(Msgs) /\ q # <<>>
    BY <1>2
  <1> HIDE DEF r
  <1>5. /\ \A i \in DOMAIN q : (i \in DOMAIN r /\ q[i] = r[i]) \/ q[i] = b
        /\ \A i, j \in DOMAIN q : q[i] = q[j] => i = j
    BY <1>2, <1>3, JoinsOnce
  <1> HIDE DEF q
  <1>6. WaitOnce(q, g, f)
    BY <1>2, <1>3, <1>5 DEF WaitOnce
  <1>f. f = [at EXCEPT ![b] = "queued"]
    OBVIOUS
  <1> HIDE DEF f
  <1>7. SchedInv' /\ AmongGuests /\ HandsOver(b, "queued")
    BY <1>1, <1>4, <1>6, <1>f, RedispatchShares
  <1>8. UNCHANGED <<vmIDs, coreQueue, coreOf, pendingMessage>>
    BY <1>1 DEF hypVars, coreVars
  <1>9. HypInv'
    BY <1>7, <1>8, HypFrame
  <1>10. QED
    BY <1>7, <1>9 DEF HandsOver

\* A state message that round robin dispatched ends in the hypervisor, and keeps its
\* virtual core; FIFO forwards it without taking one.
LEMMA StateShares ==
    ASSUME ~Overhead, TypeOK, SchedInv, HypInv, NothingElse, NEW s \in StateMsgs, DeliverState(s)
    PROVE  /\ SchedInv' /\ HypInv' /\ UNCHANGED <<remaining, answers, fault, overheadAt>>
           /\ \A x \in Msgs \ {s} : at'[x] = at[x]
           /\ Policy = "FIFO" => at'[s] = "deleted"
  <1>a. s \in Msgs /\ s \notin Blocks /\ at \in [Msgs -> Places] /\ Policy \in {"FIFO", "RR"}
    BY MsgKinds, ConstantsAssumption DEF TypeOK, MsgTypeOK
  <1>1. CASE SchedStateFIFO(s) \/ HypState(s)
    <2>1. /\ UNCHANGED <<schedVars, hypVars, coreVars, overheadAt, coreOf, answers, fault>>
          /\ at' = [at EXCEPT ![s] = "deleted"]
          /\ (at[s] = "app" /\ Policy = "FIFO") \/ at[s] = "toHyp"
      BY <1>1 DEF SchedStateFIFO, HypState
    <2>2. \A x \in Msgs : (x # s => at'[x] = at[x]) /\ (x = s => at'[x] = "deleted")
      BY <1>a, <2>1
    <2>3. at[s] = "toHyp" => Policy = "RR"
      BY <1>a DEF NothingElse
    <2>4. Policy = "RR" \/ (Policy = "FIFO" /\ Policy # "RR")
      BY <1>a
    <2>5. \A m \in Msgs : (Dispatched(m)' <=> Dispatched(m)) /\ (at[m] = "queued" => at'[m] = "queued")
      BY <2>1, <2>2, <2>3, <2>4 DEF Dispatched
    <2>6. SchedInv'
      BY <2>1, <2>5, SchedFrame
    <2>7. AmongGuests /\ UNCHANGED <<vmIDs, coreQueue, coreOf, pendingMessage>>
      BY <2>1, <2>2 DEF AmongGuests, OnGuest, schedVars, hypVars, coreVars
    <2>8. HypInv'
      BY <2>7, HypFrame
    <2>9. QED
      BY <1>a, <2>1, <2>2, <2>6, <2>8 DEF coreVars
  <1>2. CASE SchedStateRR(s)
    <2>1. /\ UNCHANGED <<hypVars, coreVars, overheadAt, coreOf, answers, fault>>
          /\ at[s] = "app" /\ Admit(s) /\ Policy # "FIFO"
      BY <1>2 DEF SchedStateRR
    <2>2. SchedInv' /\ HypInv'
      BY <1>a, <2>1, SchedRequestShares
    <2>3. \A x \in Msgs \ {s} : at'[x] = at[x]
      BY <1>a, <2>1, AdmitShares
    <2>4. QED
      BY <2>1, <2>2, <2>3 DEF coreVars
  <1>3. QED
    BY <1>1, <1>2 DEF DeliverState

\* Answers and what is left of the blocks: a step that neither executes nor answers.
LEMMA AnswerFrame ==
    ASSUME AnswerInv, UNCHANGED <<remaining, answers>>,
           \A b \in Blocks : \/ at'[b] = at[b]
                             \/ at[b] # "done" /\ at'[b] \in {"queued", "toHyp", "hypQueue", "toCore"}
                             \/ at[b] \in {"core", "fromCore"} /\ at'[b] \in {"fromCore", "toGuest"}
    PROVE  AnswerInv'
  BY DEF AnswerInv

\* Every step keeps the invariant, when there is no overhead.
LEMMA SharingStep ==
    ASSUME ~Overhead, TypeOK, TypeOK', IInv, [Next]_vars
    PROVE  IInv'
  <1>a. SchedInv /\ HypInv /\ NothingElse /\ AnswerInv /\ at \in [Msgs -> Places] /\ answers \in [Blocks -> Nat]
    BY DEF IInv, TypeOK, MsgTypeOK
  <1>b. \A b \in Blocks : b \in Msgs /\ b \notin StateMsgs
    BY MsgKinds, ConstantsAssumption
  <1>n. ASSUME UNCHANGED <<overheadAt, fault>>, \A s \in StateMsgs : at'[s] = at[s] PROVE NothingElse'
    BY <1>n, <1>a DEF NothingElse
  <1>s. ASSUME NEW b \in Blocks, \A x \in Msgs \ {b} : at'[x] = at[x],
               UNCHANGED <<overheadAt, fault>> PROVE NothingElse'
    BY <1>s, <1>b, <1>n, MsgKinds
  <1>i. ASSUME NEW b \in Blocks PROVE ~DeliverOverhead(b)
    <2>1. overheadAt[b] = "none"
      BY <1>a DEF NothingElse
    <2>2. QED
      BY <2>1 DEF DeliverOverhead, HypSaveResponse, CoreOverheadRequest, HypOverheadResponse,
                  SchedOverheadResponse
  <1>1. ASSUME NEW b \in Blocks, SchedRequest(b) PROVE IInv'
    <2>1. at[b] = "app" /\ Admit(b) /\ UNCHANGED <<hypVars, coreVars, overheadAt, coreOf, answers, fault>>
      BY <1>1 DEF SchedRequest
    <2>2. SchedInv' /\ HypInv'
      BY <1>a, <1>b, <2>1, SchedRequestShares
    <2>3. (\A x \in Msgs \ {b} : at'[x] = at[x]) /\ at'[b] \in {"queued", "toHyp"}
      BY <1>a, <1>b, <2>1, AdmitShares
    <2>4. NothingElse'
      BY <2>1, <2>3, <1>s
    <2>5. AnswerInv'
      BY <1>a, <1>b, <2>1, <2>3, AnswerFrame DEF coreVars
    <2>6. QED
      BY <2>2, <2>4, <2>5 DEF IInv
  <1>2. ASSUME NEW b \in Blocks, HypRequest(b) PROVE IInv'
    <2>1. /\ SchedInv' /\ HypInv'
          /\ \A x \in Msgs \ {b} : at'[x] = at[x]
          /\ at'[b] \in {"hypQueue", "toCore"}
      BY <1>2, <1>a, HypRequestShares
    <2>2. at[b] = "toHyp" /\ UNCHANGED <<coreVars, answers, fault, overheadAt>>
      BY <1>2 DEF HypRequest
    <2>3. NothingElse'
      BY <2>1, <2>2, <1>s
    <2>4. AnswerInv'
      BY <1>a, <1>b, <2>1, <2>2, AnswerFrame DEF coreVars
    <2>5. QED
      BY <2>1, <2>3, <2>4 DEF IInv
  <1>3. ASSUME NEW b \in Blocks, CoreRequest(b) PROVE IInv'
    <2>1. /\ SchedInv' /\ HypInv' /\ fault' = fault
          /\ at' = [at EXCEPT ![b] = "core"]
          /\ remaining' = [remaining EXCEPT ![b] = AfterSlice(b)]
      BY <1>3, <1>a, CoreRequestShares
    <2>2. at[b] = "toCore" /\ overheadAt' = overheadAt /\ answers' = answers
      BY <1>3 DEF CoreRequest
    <2>3. \A x \in Msgs : (x # b => at'[x] = at[x]) /\ (x = b => at'[x] = "core")
      BY <1>a, <2>1
    <2>4. NothingElse'
      BY <2>1, <2>2, <2>3, <1>s
    <2>5. b \notin TimeBlocks /\ Policy = "FIFO" => AfterSlice(b) = 0
      BY DEF AfterSlice
    <2>6. \A x \in Blocks : x # b => remaining'[x] = remaining[x]
      BY <2>1
    <2>7. remaining'[b] = AfterSlice(b)
      BY <2>1 DEF TypeOK, CoreTypeOK
    <2>8. AnswerInv'
      BY <1>a, <1>b, <2>2, <2>3, <2>5, <2>6, <2>7 DEF AnswerInv
    <2>9. QED
      BY <2>1, <2>4, <2>8 DEF IInv
  <1>4. ASSUME NEW b \in Blocks, HypResponse(b) PROVE IInv'
    <2>1. /\ SchedInv' /\ HypInv' /\ at'[b] = "toGuest"
          /\ \A x \in Msgs \ {b} : at'[x] = at[x] \/ (at[x] = "hypQueue" /\ at'[x] = "toCore")
      BY <1>4, <1>a, HypResponseShares
    <2>2. at[b] = "fromCore" /\ UNCHANGED <<coreVars, answers, fault, overheadAt>>
      BY <1>4 DEF HypResponse
    <2>3. NothingElse'
      <3>1. \A s \in StateMsgs : Policy = "FIFO" => at'[s] = at[s]
        BY <1>a, <1>b, <2>1, MsgKinds DEF NothingElse
      <3>2. QED
        BY <1>a, <2>2, <3>1 DEF NothingElse
    <2>4. AnswerInv'
      BY <1>a, <1>b, <2>1, <2>2, AnswerFrame DEF coreVars
    <2>5. QED
      BY <2>1, <2>3, <2>4 DEF IInv
  <1>5. ASSUME NEW b \in Blocks, SchedResponse(b) PROVE IInv'
    <2>1. /\ SchedInv' /\ HypInv' /\ at'[b] = "done"
          /\ \A x \in Msgs \ {b} : at'[x] = at[x] \/ (at[x] = "queued" /\ at'[x] = "toHyp")
      BY <1>5, <1>a, SchedResponseShares
    <2>2. /\ at[b] = "toGuest" /\ UNCHANGED <<coreVars, fault, overheadAt>>
          /\ answers' = [answers EXCEPT ![b] = @ + 1]
          /\ Policy = "RR" => remaining[b] = 0
      BY <1>5 DEF SchedResponse
    <2>3. NothingElse'
      <3>1. \A s \in StateMsgs : Policy = "FIFO" => at'[s] = at[s]
        BY <1>a, <1>b, <2>1, MsgKinds DEF NothingElse
      <3>2. QED
        BY <1>a, <2>2, <3>1 DEF NothingElse
    <2>4. answers'[b] = 1 /\ \A x \in Blocks : x # b => answers'[x] = answers[x]
      BY <1>a, <2>2 DEF AnswerInv
    <2>5. remaining' = remaining /\ (b \notin TimeBlocks => remaining[b] = 0)
      BY <1>a, <2>2, ConstantsAssumption DEF AnswerInv, coreVars
    <2>6. AnswerInv'
      BY <1>a, <1>b, <2>1, <2>4, <2>5 DEF AnswerInv
    <2>7. QED
      BY <2>1, <2>3, <2>6 DEF IInv
  <1>6. ASSUME NEW b \in Blocks, SchedRequeue(b) PROVE IInv'
    <2>1. /\ SchedInv' /\ HypInv' /\ at'[b] \in {"queued", "toHyp"}
          /\ \A x \in Msgs \ {b} : at'[x] = at[x] \/ (at[x] = "queued" /\ at'[x] = "toHyp")
      BY <1>6, <1>a, SchedRequeueShares
    <2>2. /\ at[b] = "toGuest" /\ Policy = "RR"
          /\ UNCHANGED <<coreVars, answers, fault, overheadAt>>
      BY <1>6 DEF SchedRequeue
    <2>3. NothingElse'
      BY <1>a, <2>2 DEF NothingElse
    <2>4. AnswerInv'
      BY <1>a, <1>b, <2>1, <2>2, AnswerFrame DEF coreVars
    <2>5. QED
      BY <2>1, <2>3, <2>4 DEF IInv
  <1>7. ASSUME NEW s \in StateMsgs, DeliverState(s) PROVE IInv'
    <2>1. /\ SchedInv' /\ HypInv' /\ UNCHANGED <<remaining, answers, fault, overheadAt>>
          /\ \A x \in Msgs \ {s} : at'[x] = at[x]
          /\ Policy = "FIFO" => at'[s] = "deleted"
      BY <1>7, <1>a, StateShares
    <2>2. NothingElse'
      BY <1>a, <2>1, MsgKinds DEF NothingElse
    <2>3. AnswerInv'
      BY <1>a, <1>b, <2>1, AnswerFrame
    <2>4. QED
      BY <2>1, <2>2, <2>3 DEF IInv
  <1>8. ASSUME NEW c \in Cores, CoreLatency(c) PROVE IInv'
    <2>1. SchedInv' /\ HypInv' /\ UNCHANGED <<remaining, answers, fault, overheadAt>>
      BY <1>8, <1>a, CoreLatencyShares
    <2>2. PICK b \in Blocks : at[b] = "core" /\ at' = [at EXCEPT ![b] = "fromCore"]
      BY <1>8, <1>a, CoreLatencyShares
    <2>3. \A x \in Msgs : (x # b => at'[x] = at[x]) /\ (x = b => at'[x] = "fromCore")
      BY <1>a, <2>2
    <2>4. NothingElse'
      BY <2>1, <2>3, <1>s
    <2>5. AnswerInv'
      BY <1>a, <1>b, <2>1, <2>2, <2>3, AnswerFrame
    <2>6. QED
      BY <2>1, <2>4, <2>5 DEF IInv
  <1>9. CASE UNCHANGED vars
    <2>1. UNCHANGED <<schedVars, vmIDs, coreQueue, coreOf, pendingMessage, at, nextModuleIndex,
                      remaining, answers, overheadAt, fault>>
      BY <1>9 DEF vars, schedVars, hypVars, coreVars, msgVars
    <2>2. SchedInv'
      BY <1>a, <2>1, SchedFrame DEF Dispatched
    <2>3. HypInv'
      BY <1>a, <2>1, HypFrame DEF AmongGuests
    <2>4. NothingElse' /\ AnswerInv'
      BY <1>a, <2>1 DEF NothingElse, AnswerInv
    <2>5. QED
      BY <2>2, <2>3, <2>4 DEF IInv
  <1>10. QED
    BY <1>i, <1>1, <1>2, <1>3, <1>4, <1>5, <1>6, <1>7, <1>8, <1>9 DEF Next, Deliver, Finished

\* Without overhead IInv is an invariant, and in particular no run-time error ends a
\* simulation of the CPU path: no core is sent a second block.
THEOREM SharingInvariant == ASSUME ~Overhead PROVE Spec => []IInv
  <1>1. Init => IInv
    <2> SUFFICES ASSUME Init PROVE IInv
      OBVIOUS
    <2>1. TypeOK
      BY ZeroIsACore, MsgKinds, ConstantsAssumption
      DEF Init, TypeOK, SchedTypeOK, HypTypeOK, CoreTypeOK, MsgTypeOK, Places, OverheadPlaces
    <2>2. \A m \in Msgs : at[m] = "app" /\ ~Dispatched(m)
      BY DEF Init, Dispatched
    <2>3. SchedInv
      BY <2>2, OwnersAreGuests DEF Init, SchedInv, SchedQueues, OnePerVCpu
    <2>4. \A b \in Blocks : ~OnCore(b)
      BY <2>2, MsgKinds DEF OnCore
    <2>5. HypInv
      BY <2>4 DEF Init, HypInv, HypQueue, OnePerCore, Executing
    <2>6. NothingElse /\ AnswerInv
      BY <2>2, MsgKinds DEF Init, NothingElse, AnswerInv
    <2>7. QED
      BY <2>1, <2>3, <2>5, <2>6 DEF IInv
  <1>2. TypeOK /\ TypeOK' /\ IInv /\ [Next]_vars => IInv'
    BY SharingStep
  <1>3. QED
    BY <1>1, <1>2, TypeCorrect, PTL DEF Spec

\* A set without two different elements has none or one.
LEMMA OneOrNone ==
    ASSUME NEW S, \A x, y \in S : x = y
    PROVE  Cardinality(S) = IF S = {} THEN 0 ELSE 1
  <1>1. CASE S = {}
    BY <1>1, FS_EmptySet
  <1>2. CASE S # {}
    <2>1. PICK x : S = {x}
      BY <1>2
    <2>2. QED
      BY <1>2, <2>1, FS_Singleton
  <1>3. QED
    BY <1>1, <1>2

\* Without overhead the cores are shared without loss, with both policies: a physical
\* core works for one block at a time and is released once, and a scheduler's busy flag
\* tells, at any moment, whether one of its messages is out on the virtual core.
THEOREM FlagsTruthful == ASSUME ~Overhead PROVE Spec => []BusyFlagTruthful
  <1>1. IInv => BusyFlagTruthful
    <2> SUFFICES ASSUME IInv PROVE BusyFlagTruthful
      OBVIOUS
    <2>a. TypeOK /\ OnePerCore /\ OnePerVCpu
      BY DEF IInv, HypInv, SchedInv
    <2>1. CoreExclusive
      <3>1. \A b \in Blocks : Gate(b) # NULL
        BY <2>a, GateIsNoNull
      <3>2. QED
        BY <2>a, <3>1 DEF OnePerCore, CoreExclusive
    <2>2. ASSUME NEW g \in Guests, NEW v \in VCpus
          PROVE  Cardinality({m \in Msgs : Owner[m] = g /\ Dispatched(m) /\ nextModuleIndex[m] = v})
                   = IF v \in isCPU_Idle[g] THEN 0 ELSE 1
      <3> DEFINE S == {m \in Msgs : Owner[m] = g /\ Dispatched(m) /\ nextModuleIndex[m] = v}
      <3>1. \A x, y \in S : x = y
        BY <2>a DEF OnePerVCpu
      <3>2. S = {} <=> v \in isCPU_Idle[g]
        BY <2>a DEF OnePerVCpu
      <3> HIDE DEF S
      <3>3. Cardinality(S) = IF v \in isCPU_Idle[g] THEN 0 ELSE 1
        BY <3>1, <3>2, OneOrNone
      <3>4. QED
        BY <3>3 DEF S
    <2>3. QED
      BY <2>1, <2>2 DEF BusyFlagTruthful
  <1>2. QED
    BY <1>1, SharingInvariant, PTL

\* Without overhead every block is answered at most once, and a block that counts
\* instructions only when all of them have been executed, with both policies.
THEOREM AnsweredOnce == ASSUME ~Overhead PROVE Spec => []AnsweredOnceWhenComplete
  <1>1. IInv => AnsweredOnceWhenComplete
    BY DEF IInv, AnswerInv, AnsweredOnceWhenComplete
  <1>2. QED
    BY <1>1, SharingInvariant, PTL

-------------------------------------------------------------------------------
(* The core a block holds.  With the overhead of virtualisation a block    *)
(* holds its core until its overhead block is through; while that runs,    *)
(* the slot of the core keeps the response.                                *)

Early == {"app", "queued", "toHyp", "hypQueue"}

Running(b) == at[b] \in {"toCore", "core", "fromCore"}
Winding(b) == overheadAt[b] \in {"toCore", "core", "fromCore"}
Holds(b)   == Running(b) \/ Winding(b)

\* One block at most holds a core, and the hypervisor knows that the core is taken.
OneHolder ==
    /\ \A b1, b2 \in Blocks : Holds(b1) /\ Holds(b2) /\ coreOf[b1] = coreOf[b2] => b1 = b2
    /\ \A b \in Blocks : Holds(b) => vmIDs[coreOf[b]] # NULL

\* The slot of a core belongs to the block that holds it.
SlotsKept ==
    \A b \in Blocks :
      /\ Running(b) => /\ overheadStructure[coreOf[b]] \in {NULL, VMOverhead(b)}
                       /\ ~Winding(b)
      /\ Winding(b) => overheadStructure[coreOf[b]] = Exec(b) /\ at[b] = "saved"
      /\ at[b] \in Early => overheadAt[b] = "none"

\* What a core executes is on it.
PendingOnCore ==
    \A c \in Cores : pendingMessage[c] # NULL =>
      \E b \in Blocks :
        /\ coreOf[b] = c
        /\ \/ pendingMessage[c] = Exec(b) /\ at[b] = "core"
           \/ pendingMessage[c] = VMOverhead(b) /\ overheadAt[b] = "core"

\* The queues hold, once each, blocks that wait there.
QueuesOK ==
    /\ \A i \in DOMAIN coreQueue :
         /\ at[coreQueue[i]] = "hypQueue"
         /\ \A j \in DOMAIN coreQueue : coreQueue[i] = coreQueue[j] => i = j
    /\ \A g \in Guests : \A i \in DOMAIN requestsQueue[g] :
         /\ requestsQueue[g][i] \in Blocks /\ Owner[requestsQueue[g][i]] = g
         /\ at[requestsQueue[g][i]] = "queued"
         /\ \A j \in DOMAIN requestsQueue[g] : requestsQueue[g][i] = requestsQueue[g][j] => i = j

HoldInv == OneHolder /\ SlotsKept /\ PendingOnCore

\* The types of the variables of the node.
NodeTypeOK ==
    /\ now \in Nat /\ nodeState \in {"off_state", "running"} /\ linked \subseteq Guests
    /\ stateOrder \in Seq(StateMsgs) /\ changingState \in [StateMsgs -> NodeStates]
    /\ inbox \in [Cores -> Seq(NodeStates)] /\ busyUntil \in [Devices -> Nat]

\* The sum of the seconds of all states.
Credited(time) == Total([k \in 1 .. TopPState + 1 |-> time[k - 1]], TopPState + 1)

\* A meter whose seconds up to its last event are all credited, at time t.
Timed(m, t) ==
    /\ m \in [state : EnergyStates, lastEvent : Nat, time : [EnergyStates -> Nat]]
    /\ m.lastEvent <= t /\ Credited(m.time) = m.lastEvent

MetersTimed == DOMAIN meter = Parts /\ \A p \in Parts : Timed(meter[p], now)

\* The block, or its overhead block, is on its way or waits: its job has not ended.
Active(b) == at[b] \notin {"app", "done"} \/ overheadAt[b] \notin {"none", "deleted"}

\* The node is on while a machine is on it, and a machine with a block, or with a device
\* in use, does not leave.
NodeOn ==
    /\ linked # {} <=> nodeState = "running"
    /\ \A b \in Blocks : Active(b) => Owner[b] \in linked
    /\ \A d \in Devices : busyUntil[d] > 0 => linked # {}

\* While there is a block, the cores are on and no message on its way turns one off.
NoneTurnedOff ==
    (\E b \in Blocks : Active(b)) =>
       /\ \A i \in DOMAIN stateOrder : changingState[stateOrder[i]] # "off_state"
       /\ \A c \in Cores : /\ meter[c].state > 0
                           /\ \A i \in DOMAIN inbox[c] : inbox[c][i] # "off_state"

\* The state a core has after all that is on its way to it is off when the node is.
CoresFollow ==
    \A c \in Cores :
       nodeState = "off_state" <=>
          IF stateOrder # <<>> THEN changingState[Last(stateOrder)] = "off_state"
          ELSE IF inbox[c] # <<>> THEN Last(inbox[c]) = "off_state"
          ELSE meter[c].state = 0

\* The devices take the states of the node at once.
DevicesFollow ==
    /\ \A d \in Devices \ {network} : meter[d].state = 0 <=> nodeState = "off_state"
    /\ network \in Devices /\ nodeState = "off_state" => meter[network].state = 0

\* What holds of the blocks, and what holds of the node and its parts.
BlocksInv == TypeOK /\ WorkConserving /\ HoldInv /\ QueuesOK
NodeInv == NodeTypeOK /\ MetersTimed /\ NodeOn /\ NoneTurnedOff /\ CoresFollow /\ DevicesFollow /\ ~coreOff
NodeIInv == BlocksInv /\ NodeInv

\* The two kinds of messages of a block are different.
LEMMA MessagesDiffer ==
    /\ \A b1, b2 : (Exec(b1) = Exec(b2) => b1 = b2) /\ (VMOverhead(b1) = VMOverhead(b2) => b1 = b2)
    /\ \A b1, b2 : Exec(b1) # VMOverhead(b2)
    /\ \A b \in Blocks : Exec(b) # NULL /\ VMOverhead(b) # NULL
    /\ \A b : /\ Exec(b)[1] = b /\ Exec(b)[2] = "exec"
              /\ VMOverhead(b)[1] = b /\ VMOverhead(b)[2] = "overhead"
  BY ConstantsAssumption DEF Exec, VMOverhead

\* Moves of blocks and overhead blocks that are not on a core.
LEMMA MovedAside ==
    ASSUME HoldInv, at \in [Msgs -> Places], overheadAt \in [Blocks -> OverheadPlaces],
           UNCHANGED <<coreOf, vmIDs, overheadStructure, pendingMessage>>,
           \A b \in Blocks :
             /\ \/ at'[b] = at[b]
                \/ at[b] \in Early /\ at'[b] \in Early
                \/ at[b] = "toGuest" /\ at'[b] = "done"
             /\ \/ overheadAt'[b] = overheadAt[b]
                \/ overheadAt[b] = "toGuest" /\ overheadAt'[b] = "deleted"
    PROVE  HoldInv'
  <1>1. \A b \in Blocks :
          /\ Running(b)' <=> Running(b)
          /\ Winding(b)' <=> Winding(b)
          /\ at'[b] = "core" <=> at[b] = "core"
          /\ overheadAt'[b] = "core" <=> overheadAt[b] = "core"
          /\ at[b] = "saved" => at'[b] = "saved"
          /\ at'[b] \in Early => at[b] \in Early
          /\ overheadAt[b] = "none" => overheadAt'[b] = "none"
    BY DEF Running, Winding, Early
  <1>2. OneHolder'
    BY <1>1 DEF HoldInv, OneHolder, Holds
  <1>3. SlotsKept'
    BY <1>1 DEF HoldInv, SlotsKept
  <1>4. PendingOnCore'
    BY <1>1 DEF HoldInv, PendingOnCore
  <1>5. QED
    BY <1>2, <1>3, <1>4 DEF HoldInv
-------------------------------------------------------------------------------
(* The queues.                                                             *)

\* The part of QueuesOK about one scheduler, for a queue and places of the blocks.
WaitThere(q, g, places) ==
    \A i \in DOMAIN q :
      /\ q[i] \in Blocks /\ Owner[q[i]] = g /\ places[q[i]] = "queued"
      /\ \A j \in DOMAIN q : q[i] = q[j] => i = j

\* Nobody joins or leaves a queue.
LEMMA QueuesFrame ==
    ASSUME TypeOK, QueuesOK, UNCHANGED <<requestsQueue, coreQueue>>,
           \A b \in Blocks : at[b] \in {"queued", "hypQueue"} => at'[b] = at[b]
    PROVE  QueuesOK'
  <1>1. \A i \in DOMAIN coreQueue : coreQueue[i] \in Blocks
    BY DEF TypeOK, HypTypeOK
  <1>2. \A i \in DOMAIN coreQueue : at'[coreQueue[i]] = "hypQueue"
    BY <1>1 DEF QueuesOK
  <1>3. \A g \in Guests : \A i \in DOMAIN requestsQueue[g] :
           /\ requestsQueue[g][i] \in Blocks /\ Owner[requestsQueue[g][i]] = g
           /\ at'[requestsQueue[g][i]] = "queued"
           /\ \A j \in DOMAIN requestsQueue[g] : requestsQueue[g][i] = requestsQueue[g][j] => i = j
    BY DEF QueuesOK
  <1>4. \A i, j \in DOMAIN coreQueue : coreQueue[i] = coreQueue[j] => i = j
    BY DEF QueuesOK
  <1>5. QED
    BY <1>2, <1>3, <1>4 DEF QueuesOK

\* The queue of one scheduler changes.
LEMMA QueueOfOne ==
    ASSUME TypeOK, QueuesOK, NEW g \in Guests, NEW q,
           requestsQueue' = [requestsQueue EXCEPT ![g] = q], coreQueue' = coreQueue,
           WaitThere(q, g, at'),
           \A b \in Blocks : \/ at'[b] = at[b]
                             \/ at[b] \notin {"queued", "hypQueue"}
                             \/ at[b] = "queued" /\ Owner[b] = g
    PROVE  QueuesOK'
  <1>1. \A i \in DOMAIN coreQueue : coreQueue[i] \in Blocks
    BY DEF TypeOK, HypTypeOK
  <1>2. \A i \in DOMAIN coreQueue : at'[coreQueue[i]] = "hypQueue"
    BY <1>1 DEF QueuesOK
  <1>3. ASSUME NEW h \in Guests
        PROVE  WaitThere(requestsQueue'[h], h, at')
    <2>1. CASE h = g
      <3>1. requestsQueue'[h] = q
        BY <2>1 DEF TypeOK, SchedTypeOK
      <3>2. QED
        BY <2>1, <3>1
    <2>2. CASE h # g
      <3>1. requestsQueue'[h] = requestsQueue[h]
        BY <2>2 DEF TypeOK, SchedTypeOK
      <3>2. WaitThere(requestsQueue[h], h, at)
        BY DEF QueuesOK, WaitThere
      <3>3. \A i \in DOMAIN requestsQueue[h] : at'[requestsQueue[h][i]] = "queued"
        BY <2>2, <3>2 DEF WaitThere
      <3>4. QED
        BY <3>1, <3>2, <3>3 DEF WaitThere
    <2>3. QED
      BY <2>1, <2>2
  <1>4. \A i \in DOMAIN coreQueue' :
          /\ at'[coreQueue'[i]] = "hypQueue"
          /\ \A j \in DOMAIN coreQueue' : coreQueue'[i] = coreQueue'[j] => i = j
    BY <1>2 DEF QueuesOK
  <1>5. \A h \in Guests : WaitThere(requestsQueue'[h], h, at')
    BY <1>3
  <1>6. QED
    BY <1>4, <1>5 DEF QueuesOK, WaitThere

\* A block enters its scheduler.
LEMMA AdmitMoves ==
    ASSUME TypeOK, QueuesOK, NEW b \in Blocks, at[b] = "app", Admit(b), coreQueue' = coreQueue
    PROVE  /\ QueuesOK' /\ at'[b] \in {"queued", "toHyp"}
           /\ \A x \in Msgs \ {b} : at'[x] = at[x]
  <1> DEFINE g == Owner[b]
             r == requestsQueue[g]
             q == Append(r, b)
             v == Lowest(isCPU_Idle[g])
  <1>a. g \in Guests /\ b \in Msgs /\ at \in [Msgs -> Places] /\ r \in Seq(Msgs)
    BY OwnersAreGuests, MsgKinds DEF TypeOK, MsgTypeOK, SchedTypeOK
  <1>1. CASE isCPU_Idle[g] = {}
    <2>1. /\ requestsQueue' = [requestsQueue EXCEPT ![g] = q]
          /\ at' = [at EXCEPT ![b] = "queued"]
      BY <1>1, Zenon DEF Admit
    <2>2. /\ at'[b] = "queued" /\ \A x \in Msgs \ {b} : at'[x] = at[x]
      BY <1>a, <2>1
    <2>3. WaitThere(r, g, at)
      BY <1>a DEF QueuesOK, WaitThere
    <2> HIDE DEF r
    <2>4. /\ \A i \in DOMAIN q : (i \in DOMAIN r /\ q[i] = r[i]) \/ q[i] = b
          /\ \A i, j \in DOMAIN q : q[i] = q[j] => i = j
      <3>1. \A i \in DOMAIN r : r[i] # b
        BY <2>3 DEF WaitThere
      <3>2. \A i, j \in DOMAIN r : r[i] = r[j] => i = j
        BY <2>3 DEF WaitThere
      <3>3. QED
        BY <1>a, <3>1, <3>2, JoinsOnce
    <2> HIDE DEF q
    <2>5. ASSUME NEW i \in DOMAIN q
          PROVE  q[i] \in Blocks /\ Owner[q[i]] = g /\ at'[q[i]] = "queued"
      <3>1. CASE q[i] = b
        BY <2>2, <3>1
      <3>2. CASE i \in DOMAIN r /\ q[i] = r[i]
        <4>1. r[i] \in Blocks /\ Owner[r[i]] = g /\ at[r[i]] = "queued"
          BY <2>3, <3>2 DEF WaitThere
        <4>2. QED
          BY <2>2, <3>2, <4>1, MsgKinds
      <3>3. QED
        BY <2>4, <3>1, <3>2
    <2>6. WaitThere(q, g, at')
      BY <2>4, <2>5 DEF WaitThere
    <2>7. QueuesOK'
      BY <1>a, <2>1, <2>2, <2>6, MsgKinds, QueueOfOne
    <2>8. QED
      BY <2>2, <2>7
  <1>2. CASE isCPU_Idle[g] # {}
    <2>1. requestsQueue' = requestsQueue /\ at' = [at EXCEPT ![b] = "toHyp"]
      BY <1>2, Zenon DEF Admit
    <2>2. /\ at'[b] = "toHyp" /\ \A x \in Msgs \ {b} : at'[x] = at[x]
      BY <1>a, <2>1
    <2>3. QueuesOK'
      BY <2>1, <2>2, MsgKinds, QueuesFrame
    <2>4. QED
      BY <2>2, <2>3
  <1>3. QED
    BY <1>1, <1>2

\* A virtual core has answered: the head of the queue of its scheduler leaves it, if any.
LEMMA RedispatchMoves ==
    ASSUME TypeOK, QueuesOK, NEW g \in Guests, NEW v, NEW f, coreQueue' = coreQueue,
           f \in [Msgs -> Places],
           \A x \in Blocks : f[x] = at[x] \/ (at[x] = "toGuest" /\ f[x] = "done"),
           Redispatch(g, v, requestsQueue[g], f)
    PROVE  /\ QueuesOK'
           /\ \A x \in Blocks : at'[x] = f[x] \/ (at[x] = "queued" /\ at'[x] = "toHyp")
  <1> DEFINE q == requestsQueue[g]
  <1>a. q \in Seq(Msgs) /\ at \in [Msgs -> Places] /\ requestsQueue \in [Guests -> Seq(Msgs)]
    BY DEF TypeOK, SchedTypeOK, MsgTypeOK
  <1>1. CASE q = <<>>
    <2>1. requestsQueue' = requestsQueue /\ at' = f
      BY <1>1, Zenon DEF Redispatch
    <2>2. QueuesOK'
      BY <2>1, QueuesFrame
    <2>3. QED
      BY <2>1, <2>2
  <1>2. CASE q # <<>>
    <2>1. PICK h, t : h = Head(q) /\ t = Tail(q)
      OBVIOUS
    <2>2. requestsQueue' = [requestsQueue EXCEPT ![g] = t] /\ at' = [f EXCEPT ![h] = "toHyp"]
      BY <1>2, <2>1, Zenon DEF Redispatch
    <2>3. WaitThere(q, g, at)
      BY <1>a DEF QueuesOK, WaitThere
    <2> HIDE DEF q
    <2>4. /\ h = q[1] /\ 1 \in DOMAIN q
          /\ \A i \in DOMAIN t : i + 1 \in DOMAIN q /\ t[i] = q[i + 1] /\ t[i] # h
          /\ \A i, j \in DOMAIN t : t[i] = t[j] => i = j
      <3>1. \A i, j \in DOMAIN q : q[i] = q[j] => i = j
        BY <2>3 DEF WaitThere
      <3>2. QED
        BY <1>2, <1>a, <2>1, <3>1, LeavesOnce
    <2>5. h \in Blocks /\ Owner[h] = g /\ at[h] = "queued"
      BY <2>3, <2>4 DEF WaitThere
    <2>6. at'[h] = "toHyp" /\ \A x \in Msgs \ {h} : at'[x] = f[x]
      BY <2>2, <2>5, MsgKinds
    <2>7. ASSUME NEW i \in DOMAIN t
          PROVE  t[i] \in Blocks /\ Owner[t[i]] = g /\ at'[t[i]] = "queued"
      <3>1. t[i] \in Blocks /\ Owner[t[i]] = g /\ at[t[i]] = "queued" /\ t[i] # h
        BY <2>3, <2>4 DEF WaitThere
      <3>2. QED
        BY <2>6, <3>1, MsgKinds
    <2>8. WaitThere(t, g, at')
      BY <2>4, <2>7 DEF WaitThere
    <2>9. \A x \in Blocks : at'[x] = f[x] \/ (x = h /\ at[x] = "queued" /\ at'[x] = "toHyp")
      BY <2>5, <2>6, MsgKinds
    <2>10. \A x \in Blocks : \/ at'[x] = at[x]
                             \/ at[x] \notin {"queued", "hypQueue"}
                             \/ at[x] = "queued" /\ Owner[x] = g
      BY <2>5, <2>9
    <2>11. QueuesOK'
      BY <2>2, <2>8, <2>10, QueueOfOne
    <2>12. QED
      BY <2>9, <2>11
  <1>3. QED
    BY <1>1, <1>2

\* A block leaves the head of the queue of the hypervisor.
LEMMA HypQueueLeft ==
    ASSUME TypeOK, QueuesOK, coreQueue # <<>>, coreQueue' = Tail(coreQueue),
           requestsQueue' = requestsQueue,
           \A b \in Blocks : at[b] \in {"queued", "hypQueue"} =>
              at'[b] = at[b] \/ b = Head(coreQueue)
    PROVE  QueuesOK' /\ Head(coreQueue) \in Blocks /\ at[Head(coreQueue)] = "hypQueue"
  <1>1. PICK h, t : h = Head(coreQueue) /\ t = Tail(coreQueue)
    OBVIOUS
  <1>2. coreQueue \in Seq(Blocks)
    BY DEF TypeOK, HypTypeOK
  <1>3. /\ h = coreQueue[1] /\ 1 \in DOMAIN coreQueue
        /\ \A i \in DOMAIN t : i + 1 \in DOMAIN coreQueue /\ t[i] = coreQueue[i + 1] /\ t[i] # h
        /\ \A i, j \in DOMAIN t : t[i] = t[j] => i = j
    <2>1. \A i, j \in DOMAIN coreQueue : coreQueue[i] = coreQueue[j] => i = j
      BY DEF QueuesOK
    <2>2. QED
      BY <1>1, <1>2, <2>1, LeavesOnce
  <1>4. h \in Blocks /\ at[h] = "hypQueue"
    BY <1>2, <1>3 DEF QueuesOK
  <1>5. \A i \in DOMAIN t : at'[t[i]] = "hypQueue"
    <2>1. \A i \in DOMAIN t : t[i] \in Blocks /\ at[t[i]] = "hypQueue" /\ t[i] # h
      BY <1>2, <1>3 DEF QueuesOK
    <2>2. QED
      BY <1>1, <2>1
  <1>6. \A g \in Guests : \A i \in DOMAIN requestsQueue[g] :
           /\ requestsQueue[g][i] \in Blocks /\ Owner[requestsQueue[g][i]] = g
           /\ at'[requestsQueue[g][i]] = "queued"
           /\ \A j \in DOMAIN requestsQueue[g] : requestsQueue[g][i] = requestsQueue[g][j] => i = j
    BY <1>1, <1>4 DEF QueuesOK
  <1>7. coreQueue' = t
    BY <1>1
  <1>8. QueuesOK'
    BY <1>3, <1>5, <1>6, <1>7 DEF QueuesOK
  <1>9. QED
    BY <1>1, <1>4, <1>8

\* A block joins the queue of the hypervisor.
LEMMA HypQueueJoined ==
    ASSUME TypeOK, QueuesOK, NEW b \in Blocks, at[b] = "toHyp",
           coreQueue' = Append(coreQueue, b), at' = [at EXCEPT ![b] = "hypQueue"],
           requestsQueue' = requestsQueue
    PROVE  QueuesOK'
  <1>1. coreQueue \in Seq(Blocks) /\ at \in [Msgs -> Places] /\ b \in Msgs
    BY MsgKinds DEF TypeOK, HypTypeOK, MsgTypeOK
  <1>2. at'[b] = "hypQueue" /\ \A x \in Msgs \ {b} : at'[x] = at[x]
    BY <1>1
  <1>3. PICK q : q = Append(coreQueue, b)
    OBVIOUS
  <1>4. /\ \A i \in DOMAIN q : (i \in DOMAIN coreQueue /\ q[i] = coreQueue[i]) \/ q[i] = b
        /\ \A i, j \in DOMAIN q : q[i] = q[j] => i = j
    <2>1. \A i \in DOMAIN coreQueue : coreQueue[i] # b
      BY DEF QueuesOK
    <2>2. \A i, j \in DOMAIN coreQueue : coreQueue[i] = coreQueue[j] => i = j
      BY DEF QueuesOK
    <2>3. QED
      BY <1>1, <1>3, <2>1, <2>2, JoinsOnce
  <1>5. \A i \in DOMAIN coreQueue : at'[coreQueue[i]] = "hypQueue"
    BY <1>1, <1>2, MsgKinds DEF QueuesOK
  <1>6. \A i \in DOMAIN q : at'[q[i]] = "hypQueue"
    BY <1>2, <1>4, <1>5
  <1>7. \A g \in Guests : \A i \in DOMAIN requestsQueue[g] :
           /\ requestsQueue[g][i] \in Blocks /\ Owner[requestsQueue[g][i]] = g
           /\ at'[requestsQueue[g][i]] = "queued"
           /\ \A j \in DOMAIN requestsQueue[g] : requestsQueue[g][i] = requestsQueue[g][j] => i = j
    BY <1>2, MsgKinds DEF QueuesOK
  <1>8. coreQueue' = q
    BY <1>3
  <1>9. QED
    BY <1>4, <1>6, <1>7, <1>8 DEF QueuesOK
-------------------------------------------------------------------------------
(* The meters.                                                             *)

\* The states are enough for the three that the node sends, and their positions are
\* those of a meter.
LEMMA StatesInRange ==
    /\ TopPState \in Nat /\ {0, 1, 2} \subseteq EnergyStates /\ EnergyStates \subseteq Nat
    /\ \A k \in 1 .. TopPState + 1 : k - 1 \in EnergyStates
    /\ \A s \in EnergyStates : s + 1 \in 1 .. TopPState + 1
    /\ \A p, s : PartState(p, s) \in EnergyStates
  BY EnergyAssumption DEF EnergyStates, PartState

\* Seconds credited to one state are credited.
LEMMA CreditOne ==
    ASSUME NEW f \in [EnergyStates -> Nat], NEW g \in [EnergyStates -> Nat],
           NEW s \in EnergyStates, NEW d \in Nat,
           \A k \in EnergyStates : g[k] = IF k = s THEN f[k] + d ELSE f[k]
    PROVE  Credited(g) = Credited(f) + d
  <1>1. PICK n \in Nat : n = TopPState + 1
    BY StatesInRange
  <1>2. PICK w, v : w = [k \in 1 .. n |-> f[k - 1]] /\ v = [k \in 1 .. n |-> g[k - 1]]
    OBVIOUS
  <1>3. PICK i \in 1 .. n : i = s + 1
    BY <1>1, StatesInRange
  <1>4. \A k \in 1 .. n : /\ w[k] = f[k - 1] /\ v[k] = g[k - 1] /\ k - 1 \in EnergyStates
                          /\ f[k - 1] \in Nat /\ g[k - 1] \in Nat
    BY <1>1, <1>2, StatesInRange
  <1>5. w \in [1 .. n -> Int] /\ v \in [1 .. n -> Int]
    BY <1>2, <1>4
  <1>6. \A k \in 1 .. n : k # i => v[k] = w[k]
    <2> SUFFICES ASSUME NEW k \in 1 .. n, k # i PROVE g[k - 1] = f[k - 1]
      BY <1>4
    <2>1. k - 1 # s /\ k - 1 \in EnergyStates
      BY <1>3, <1>4, StatesInRange
    <2>2. QED
      BY <2>1
  <1>7. w[i] \in Nat /\ v[i] = w[i] + d
    <2>1. i - 1 = s
      BY <1>3, StatesInRange
    <2>2. w[i] = f[s] /\ v[i] = g[s]
      BY <1>4, <2>1
    <2>3. QED
      BY <2>2
  <1>8. Total(v, n) = Total(w, n) + v[i] - w[i]
    BY <1>5, <1>6, TotalChange
  <1>9. Total(w, n) \in Int
    BY <1>5, TotalType
  <1>10. Total(v, n) = Total(w, n) + d
    BY <1>7, <1>8, <1>9
  <1>11. Credited(f) = Total(w, n) /\ Credited(g) = Total(v, n)
    BY <1>1, <1>2, Zenon DEF Credited
  <1>12. QED
    BY <1>10, <1>11

\* Seconds can be credited to any state.
LEMMA CreditMore ==
    ASSUME NEW f \in [EnergyStates -> Nat], NEW s \in EnergyStates, NEW d \in Nat
    PROVE  \E g \in [EnergyStates -> Nat] :
              /\ \A k \in EnergyStates : g[k] = IF k = s THEN f[k] + d ELSE f[k]
              /\ Credited(g) = Credited(f) + d
  <1>1. \A k \in EnergyStates : f[k] \in Nat /\ f[k] + d \in Nat
    OBVIOUS
  <1>2. PICK g : g = [k \in EnergyStates |-> IF k = s THEN f[k] + d ELSE f[k]]
    OBVIOUS
  <1>3. g \in [EnergyStates -> Nat] /\ \A k \in EnergyStates : g[k] = IF k = s THEN f[k] + d ELSE f[k]
    BY <1>1, <1>2
  <1>4. Credited(g) = Credited(f) + d
    BY <1>3, CreditOne
  <1>5. QED
    BY <1>3, <1>4

\* A change of state loses no second.
LEMMA ChangeTimed ==
    ASSUME now \in Nat, NEW m, Timed(m, now), NEW s \in EnergyStates
    PROVE  Timed(ChangeState(m, s), now) /\ ChangeState(m, s).state = s
  <1>1. CASE m.state = s
    BY <1>1 DEF ChangeState
  <1>2. CASE m.state # s
    <2>1. /\ m.time \in [EnergyStates -> Nat] /\ m.lastEvent \in Nat /\ m.lastEvent <= now
          /\ Credited(m.time) = m.lastEvent
      BY DEF Timed
    <2>2. PICK d \in Nat : d = now - m.lastEvent
      BY <2>1
    <2>3. PICK f \in [EnergyStates -> Nat] : f = m.time
      BY <2>1
    <2>4. PICK g \in [EnergyStates -> Nat] : g = [f EXCEPT ![s] = @ + d]
      <3>1. f[s] + d \in Nat
        OBVIOUS
      <3>2. [f EXCEPT ![s] = @ + d] \in [EnergyStates -> Nat]
        BY <3>1
      <3>3. QED
        BY <3>2
    <2>5. PICK c : c = [state |-> s, lastEvent |-> now, time |-> g]
      OBVIOUS
    <2>6. ChangeState(m, s) = c
      BY <1>2, <2>2, <2>3, <2>4, <2>5, Zenon DEF ChangeState
    <2>7. \A k \in EnergyStates : g[k] = IF k = s THEN f[k] + d ELSE f[k]
      BY <2>4
    <2>8. Credited(g) = Credited(f) + d
      BY <2>7, CreditOne
    <2>9. Credited(g) = now
      BY <2>1, <2>2, <2>3, <2>8
    <2>10. /\ c \in [state : EnergyStates, lastEvent : Nat, time : [EnergyStates -> Nat]]
           /\ c.time = g /\ c.lastEvent = now /\ c.state = s
      BY <2>5
    <2>11. Timed(c, now)
      BY <2>9, <2>10 DEF Timed
    <2>12. QED
      BY <2>6, <2>10, <2>11
  <1>3. QED
    BY <1>1, <1>2

\* The meter of one part changes its state.
LEMMA OneMeter ==
    ASSUME now \in Nat, MetersTimed, NEW p, NEW s \in EnergyStates,
           meter' = [meter EXCEPT ![p] = ChangeState(@, s)], now' = now
    PROVE  MetersTimed' /\ \A q \in Parts : meter'[q].state = IF q = p THEN s ELSE meter[q].state
  <1> DEFINE c == ChangeState(meter[p], s)
  <1>1. meter' = [meter EXCEPT ![p] = c]
    OBVIOUS
  <1>2. p \in Parts => Timed(c, now) /\ c.state = s
    BY ChangeTimed DEF MetersTimed
  <1> HIDE DEF c
  <1>3. DOMAIN meter' = Parts /\ \A q \in Parts : meter'[q] = IF q = p THEN c ELSE meter[q]
    BY <1>1 DEF MetersTimed
  <1>4. \A q \in Parts : Timed(meter'[q], now)
    BY <1>2, <1>3 DEF MetersTimed
  <1>5. QED
    BY <1>2, <1>3, <1>4 DEF MetersTimed

\* The states a device goes through with the node.
LEMMA AfterTimed ==
    ASSUME now \in Nat, MetersTimed, NEW p \in Parts, NEW states
    PROVE  Timed(MeterAfter(p, states), now)
  <1> DEFINE first == IF states = <<>> THEN meter[p] ELSE ChangeState(meter[p], PartState(p, states[1]))
  <1>1. Timed(meter[p], now)
    BY DEF MetersTimed
  <1>2. Timed(first, now)
    BY <1>1, StatesInRange, ChangeTimed
  <1> HIDE DEF first
  <1>3. Timed(ChangeState(first, PartState(p, states[2])), now)
    BY <1>2, StatesInRange, ChangeTimed
  <1>4. MeterAfter(p, states) = IF Len(states) = 2 THEN ChangeState(first, PartState(p, states[2])) ELSE first
    BY DEF MeterAfter, first
  <1>5. QED
    BY <1>2, <1>3, <1>4

\* The node sends states to its parts.
LEMMA SendTimed ==
    ASSUME now \in Nat, MetersTimed, NEW states, SendStates(states), now' = now
    PROVE  MetersTimed'
  <1>1. meter' = [p \in Parts |-> IF p \in Devices THEN MeterAfter(p, states) ELSE meter[p]]
    BY DEF SendStates
  <1>2. \A p \in Parts : Timed(MeterAfter(p, states), now) /\ Timed(meter[p], now)
    BY AfterTimed DEF MetersTimed
  <1>3. \A p \in Parts : Timed(meter'[p], now)
    BY <1>1, <1>2
  <1>4. QED
    BY <1>1, <1>3 DEF MetersTimed

\* A core starts or goes on: it may speed up.
LEMMA ExecuteTimed ==
    ASSUME now \in Nat, MetersTimed, NEW c \in Cores, NEW time, Execute(c, time), now' = now
    PROVE  /\ MetersTimed'
           /\ \A q \in Parts : /\ q # c => meter'[q].state = meter[q].state
                               /\ meter[q].state > 0 => meter'[q].state > 0
  <1>1. CASE meter' = meter
    <2>1. MetersTimed'
      BY <1>1 DEF MetersTimed
    <2>2. QED
      BY <1>1, <2>1
  <1>2. CASE meter' = [meter EXCEPT ![c] = IncrementSpeed(@)] /\ ~ (meter[c].state < TopPState)
    <2>1. c \in Parts /\ IncrementSpeed(meter[c]) = meter[c]
      BY <1>2 DEF Parts, IncrementSpeed
    <2>2. DOMAIN meter = Parts
      BY DEF MetersTimed
    <2>3. DOMAIN meter' = Parts /\ \A q \in Parts : meter'[q] = meter[q]
      BY <1>2, <2>1, <2>2
    <2>4. MetersTimed'
      BY <2>3 DEF MetersTimed
    <2>5. QED
      BY <2>3, <2>4
  <1>3. CASE meter' = [meter EXCEPT ![c] = IncrementSpeed(@)] /\ meter[c].state < TopPState
    <2>1. c \in Parts
      BY DEF Parts
    <2>2. meter[c].state \in EnergyStates
      BY <2>1 DEF MetersTimed, Timed
    <2>3. PICK s : s = meter[c].state + 1
      OBVIOUS
    <2>4. s \in EnergyStates /\ s > 0
      BY <1>3, <2>2, <2>3, StatesInRange DEF EnergyStates
    <2>5. IncrementSpeed(meter[c]) = ChangeState(meter[c], s)
      BY <1>3, <2>3 DEF IncrementSpeed
    <2>6. meter' = [meter EXCEPT ![c] = ChangeState(@, s)]
      BY <1>3, <2>5
    <2>7. MetersTimed' /\ \A q \in Parts : meter'[q].state = IF q = c THEN s ELSE meter[q].state
      BY <2>4, <2>6, OneMeter
    <2>8. QED
      BY <2>4, <2>7
  <1>4. QED
    BY <1>1, <1>2, <1>3 DEF Execute

-------------------------------------------------------------------------------
(* The blocks.                                                             *)

\* A step about core c and the block n that holds it afterwards.
LEMMA OnlyCore ==
    ASSUME HoldInv, NEW c \in Cores, NEW n \in Blocks,
           \A x \in Blocks : Holds(x) /\ coreOf[x] # c =>
              at'[x] = at[x] /\ overheadAt'[x] = overheadAt[x] /\ coreOf'[x] = coreOf[x],
           \A x \in Blocks : Holds(x)' /\ coreOf'[x] # c => Holds(x) /\ coreOf[x] # c,
           \A d \in Cores \ {c} : /\ vmIDs'[d] = vmIDs[d] /\ pendingMessage'[d] = pendingMessage[d]
                                  /\ overheadStructure'[d] = overheadStructure[d],
           \A x \in Blocks : coreOf[x] \in Cores /\ coreOf'[x] \in Cores,
           \A x \in Blocks : at'[x] \in Early => overheadAt'[x] = "none",
           \A x \in Blocks : Holds(x)' /\ coreOf'[x] = c => x = n,
           Holds(n)' /\ coreOf'[n] = c =>
              /\ vmIDs'[c] # NULL
              /\ Running(n)' => overheadStructure'[c] \in {NULL, VMOverhead(n)} /\ ~Winding(n)'
              /\ Winding(n)' => overheadStructure'[c] = Exec(n) /\ at'[n] = "saved",
           pendingMessage'[c] # NULL =>
              /\ coreOf'[n] = c
              /\ \/ pendingMessage'[c] = Exec(n) /\ at'[n] = "core"
                 \/ pendingMessage'[c] = VMOverhead(n) /\ overheadAt'[n] = "core"
    PROVE  HoldInv'
  <1>1. \A x \in Blocks : Holds(x)' /\ coreOf'[x] # c =>
          /\ Holds(x) /\ coreOf'[x] = coreOf[x] /\ coreOf[x] \in Cores \ {c}
          /\ Running(x)' <=> Running(x)
          /\ Winding(x)' <=> Winding(x)
          /\ at'[x] = at[x]
    BY DEF Running, Winding
  <1>2. OneHolder'
    BY <1>1 DEF HoldInv, OneHolder
  <1>3. SlotsKept'
    <2> SUFFICES ASSUME NEW x \in Blocks
                 PROVE  /\ Running(x)' => /\ overheadStructure'[coreOf'[x]] \in {NULL, VMOverhead(x)}
                                          /\ ~Winding(x)'
                        /\ Winding(x)' => overheadStructure'[coreOf'[x]] = Exec(x) /\ at'[x] = "saved"
      BY DEF SlotsKept
    <2>1. Running(x)' \/ Winding(x)' => Holds(x)'
      BY DEF Holds
    <2>2. CASE Holds(x)' /\ coreOf'[x] # c
      BY <1>1, <2>2 DEF HoldInv, SlotsKept
    <2>3. CASE Holds(x)' /\ coreOf'[x] = c
      BY <2>3
    <2>4. QED
      BY <2>1, <2>2, <2>3
  <1>4. PendingOnCore'
    <2> SUFFICES ASSUME NEW d \in Cores, pendingMessage'[d] # NULL
                 PROVE  \E x \in Blocks :
                          /\ coreOf'[x] = d
                          /\ \/ pendingMessage'[d] = Exec(x) /\ at'[x] = "core"
                             \/ pendingMessage'[d] = VMOverhead(x) /\ overheadAt'[x] = "core"
      BY DEF PendingOnCore
    <2>1. CASE d = c
      BY <2>1
    <2>2. CASE d # c
      <3>1. pendingMessage'[d] = pendingMessage[d]
        BY <2>2
      <3>2. PICK x \in Blocks :
              /\ coreOf[x] = d
              /\ \/ pendingMessage[d] = Exec(x) /\ at[x] = "core"
                 \/ pendingMessage[d] = VMOverhead(x) /\ overheadAt[x] = "core"
        BY <3>1 DEF HoldInv, PendingOnCore
      <3>3. Holds(x)
        BY <3>2 DEF Holds, Running, Winding
      <3>4. QED
        BY <2>2, <3>1, <3>2, <3>3
    <2>3. QED
      BY <2>1, <2>2
  <1>5. QED
    BY <1>2, <1>3, <1>4 DEF HoldInv

\* What the steps of the blocks keep; those in S may become active.
Keeps(S) ==
    /\ HoldInv' /\ QueuesOK'
    /\ \A x \in Blocks \ S : Active(x)' => Active(x)

\* The variables a block moves in are typed.
LEMMA MovesTyped ==
    ASSUME TypeOK
    PROVE  /\ at \in [Msgs -> Places] /\ overheadAt \in [Blocks -> OverheadPlaces]
           /\ coreOf \in [Blocks -> Cores] /\ pendingMessage \in [Cores -> CoreMsgs \cup {NULL}]
           /\ overheadStructure \in [Cores -> CoreMsgs \cup {NULL}]
           /\ vmIDs \in [Cores -> (Guests \X VCpus) \cup {NULL}]
           /\ coreQueue \in Seq(Blocks) /\ requestsQueue \in [Guests -> Seq(Msgs)]
  BY DEF TypeOK, SchedTypeOK, HypTypeOK, CoreTypeOK, MsgTypeOK

\* A block is submitted.
LEMMA RequestKeeps ==
    ASSUME TypeOK, HoldInv, QueuesOK, NEW b \in Blocks, SchedRequest(b)
    PROVE  Keeps({b})
  <1>1. /\ at[b] = "app" /\ Admit(b) /\ overheadAt' = overheadAt
        /\ UNCHANGED <<coreOf, vmIDs, overheadStructure, pendingMessage, coreQueue>>
    BY DEF SchedRequest, hypVars, coreVars
  <1>2. /\ QueuesOK' /\ at'[b] \in {"queued", "toHyp"}
        /\ \A x \in Msgs \ {b} : at'[x] = at[x]
    BY <1>1, AdmitMoves
  <1>3. HoldInv'
    BY <1>1, <1>2, MsgKinds, MovesTyped, MovedAside DEF Early
  <1>4. \A x \in Blocks \ {b} : Active(x)' => Active(x)
    BY <1>1, <1>2, MsgKinds DEF Active
  <1>5. QED
    BY <1>2, <1>3, <1>4 DEF Keeps

\* A state message passes the scheduler.
LEMMA StateKeeps ==
    ASSUME TypeOK, HoldInv, QueuesOK, NEW s \in StateMsgs, SchedStateFIFO(s)
    PROVE  Keeps({})
  <1>1. /\ at' = [at EXCEPT ![s] = "deleted"] /\ overheadAt' = overheadAt
        /\ UNCHANGED <<coreOf, vmIDs, overheadStructure, pendingMessage, coreQueue, requestsQueue>>
    BY DEF SchedStateFIFO, hypVars, coreVars, schedVars
  <1>2. \A x \in Blocks : at'[x] = at[x]
    BY <1>1, MsgKinds, MovesTyped, ConstantsAssumption
  <1>3. HoldInv' /\ QueuesOK'
    BY <1>1, <1>2, MovesTyped, MovedAside, QueuesFrame
  <1>4. QED
    BY <1>1, <1>2, <1>3 DEF Keeps, Active

\* The scheduler takes the response of a block.
LEMMA ResponseKeeps ==
    ASSUME TypeOK, HoldInv, QueuesOK, NEW b \in Blocks, SchedResponse(b)
    PROVE  Keeps({})
  <1>0. PICK g \in Guests : g = Owner[b]
    BY OwnersAreGuests, MsgKinds
  <1>1. PICK v, f : v = nextModuleIndex[b] /\ f = [at EXCEPT ![b] = "done"]
    OBVIOUS
  <1>2. /\ at[b] = "toGuest" /\ overheadAt' = overheadAt
        /\ UNCHANGED <<coreOf, vmIDs, overheadStructure, pendingMessage, coreQueue>>
    BY DEF SchedResponse, hypVars, coreVars
  <1>3. Redispatch(g, v, requestsQueue[g], f)
    BY <1>0, <1>1 DEF SchedResponse
  <1>4. f \in [Msgs -> Places] /\ \A x \in Blocks : f[x] = at[x] \/ (at[x] = "toGuest" /\ f[x] = "done")
    BY <1>1, <1>2, MsgKinds, MovesTyped DEF Places
  <1>5. /\ QueuesOK'
        /\ \A x \in Blocks : at'[x] = f[x] \/ (at[x] = "queued" /\ at'[x] = "toHyp")
    BY <1>2, <1>3, <1>4, RedispatchMoves
  <1>6. \A x \in Blocks : \/ at'[x] = at[x]
                          \/ at[x] = "toGuest" /\ at'[x] = "done"
                          \/ at[x] = "queued" /\ at'[x] = "toHyp"
    BY <1>4, <1>5
  <1>7. HoldInv'
    BY <1>2, <1>6, MovesTyped, MovedAside DEF Early
  <1>8. QED
    BY <1>2, <1>5, <1>6, <1>7 DEF Keeps, Active

\* The scheduler takes an overhead block that comes up.
LEMMA OverheadResponseKeeps ==
    ASSUME TypeOK, HoldInv, QueuesOK, NEW b \in Blocks, SchedOverheadResponse(b)
    PROVE  Keeps({})
  <1>0. PICK g \in Guests : g = Owner[b]
    BY OwnersAreGuests, MsgKinds
  <1>1. PICK v : v = nextModuleIndex[b]
    OBVIOUS
  <1>2. /\ overheadAt[b] = "toGuest" /\ overheadAt' = [overheadAt EXCEPT ![b] = "deleted"]
        /\ UNCHANGED <<coreOf, vmIDs, overheadStructure, pendingMessage, coreQueue>>
    BY DEF SchedOverheadResponse, hypVars, coreVars
  <1>3. Redispatch(g, v, requestsQueue[g], at)
    BY <1>0, <1>1 DEF SchedOverheadResponse
  <1>4. /\ QueuesOK'
        /\ \A x \in Blocks : at'[x] = at[x] \/ (at[x] = "queued" /\ at'[x] = "toHyp")
    BY <1>2, <1>3, MovesTyped, RedispatchMoves
  <1>5. \A x \in Blocks : overheadAt'[x] = overheadAt[x] \/ (x = b /\ overheadAt'[x] = "deleted")
    BY <1>2, MovesTyped
  <1>6. HoldInv'
    BY <1>2, <1>4, <1>5, MovesTyped, MovedAside DEF Early
  <1>7. QED
    BY <1>4, <1>5, <1>6 DEF Keeps, Active

\* The hypervisor gives a block a core or queues it.
LEMMA HypRequestKeeps ==
    ASSUME Overhead, TypeOK, HoldInv, QueuesOK, NEW b \in Blocks, HypRequest(b)
    PROVE  Keeps({})
  <1>1. /\ at[b] = "toHyp" /\ overheadAt[b] = "none" /\ b \in Msgs
        /\ requestsQueue' = requestsQueue /\ pendingMessage' = pendingMessage
        /\ \A x \in Msgs : Gate(x) # NULL
    BY MsgKinds, GatesTyped DEF HypRequest, schedVars, coreVars, HoldInv, SlotsKept, Early
  <1>2. CASE FreeCores(vmIDs) # {}
    <2>1. PICK k \in Cores : k = Lowest(FreeCores(vmIDs)) /\ vmIDs[k] = NULL
      BY <1>2, SearchesInRange DEF FreeCores
    <2>2. /\ vmIDs' = [vmIDs EXCEPT ![k] = Gate(b)]
          /\ overheadStructure' = [overheadStructure EXCEPT ![k] = VMOverhead(b)]
          /\ coreOf' = [coreOf EXCEPT ![b] = k] /\ at' = [at EXCEPT ![b] = "toCore"]
          /\ overheadAt' = [overheadAt EXCEPT ![b] = "saved"] /\ coreQueue' = coreQueue
      BY <1>2, <2>1, Zenon DEF HypRequest, ScheduleOn
    <2>3. /\ at'[b] = "toCore" /\ overheadAt'[b] = "saved" /\ coreOf'[b] = k
          /\ vmIDs'[k] = Gate(b) /\ overheadStructure'[k] = VMOverhead(b)
      BY <1>1, <2>2, MovesTyped
    <2>4. \A x \in Blocks \ {b} : /\ at'[x] = at[x] /\ overheadAt'[x] = overheadAt[x]
                                  /\ coreOf'[x] = coreOf[x]
      BY <2>2, MsgKinds, MovesTyped
    <2>5. \A d \in Cores \ {k} : /\ vmIDs'[d] = vmIDs[d]
                                 /\ overheadStructure'[d] = overheadStructure[d]
      BY <2>2, MovesTyped
    <2>6. ~Holds(b) /\ Running(b)' /\ ~Winding(b)'
      BY <1>1, <2>3 DEF Holds, Running, Winding
    <2>7. \A x \in Blocks \ {b} : /\ Holds(x)' <=> Holds(x)
                                  /\ Holds(x) => coreOf[x] # k
      BY <2>1, <2>4 DEF Holds, Running, Winding, HoldInv, OneHolder
    <2>8. \A x \in Blocks : coreOf[x] \in Cores /\ coreOf'[x] \in Cores
      BY <2>3, <2>4, MovesTyped
    <2>9. \A x \in Blocks : at'[x] \in Early => overheadAt'[x] = "none"
      BY <2>3, <2>4 DEF Early, HoldInv, SlotsKept
    <2>10. pendingMessage'[k] = NULL
      <3>1. ASSUME pendingMessage[k] # NULL PROVE FALSE
        <4>1. PICK x \in Blocks : coreOf[x] = k /\ (at[x] = "core" \/ overheadAt[x] = "core")
          BY <3>1 DEF HoldInv, PendingOnCore
        <4>2. Holds(x)
          BY <4>1 DEF Holds, Running, Winding
        <4>3. QED
          BY <2>6, <2>7, <4>1, <4>2
      <3>2. QED
        BY <1>1, <3>1
    <2>11. \A x \in Blocks : Holds(x)' /\ coreOf'[x] = k => x = b
      BY <2>4, <2>7
    <2>12. \A x \in Blocks : Holds(x)' /\ coreOf'[x] # k => Holds(x) /\ coreOf[x] # k
      BY <2>3, <2>4, <2>7
    <2>13. \A x \in Blocks : Holds(x) /\ coreOf[x] # k =>
              at'[x] = at[x] /\ overheadAt'[x] = overheadAt[x] /\ coreOf'[x] = coreOf[x]
      BY <2>4, <2>6
    <2>14. HoldInv'
      BY <1>1, <2>3, <2>5, <2>6, <2>8, <2>9, <2>10, <2>11, <2>12, <2>13, OnlyCore
    <2>15. QueuesOK'
      BY <1>1, <2>2, <2>4, QueuesFrame
    <2>16. QED
      BY <1>1, <2>4, <2>14, <2>15 DEF Keeps, Active
  <1>3. CASE FreeCores(vmIDs) = {}
    <2>1. /\ coreQueue' = Append(coreQueue, b) /\ at' = [at EXCEPT ![b] = "hypQueue"]
          /\ UNCHANGED <<vmIDs, overheadStructure, coreOf, overheadAt>>
      BY <1>3, Zenon DEF HypRequest
    <2>2. QueuesOK'
      BY <1>1, <2>1, HypQueueJoined
    <2>3. \A x \in Blocks : at'[x] = at[x] \/ (at[x] = "toHyp" /\ at'[x] = "hypQueue")
      BY <1>1, <2>1, MsgKinds, MovesTyped
    <2>4. HoldInv'
      BY <1>1, <2>1, <2>3, MovesTyped, MovedAside DEF Early
    <2>5. QED
      BY <2>1, <2>2, <2>3, <2>4 DEF Keeps, Active
  <1>4. QED
    BY <1>2, <1>3

\* The core of block b handles it or its overhead block, and nothing else changes.
LEMMA OnTheCore ==
    ASSUME TypeOK, HoldInv, QueuesOK, NEW b \in Blocks, NEW c \in Cores, c = coreOf[b], Holds(b),
           UNCHANGED <<coreOf, vmIDs, requestsQueue, coreQueue>>,
           \A x \in Blocks \ {b} : at'[x] = at[x] /\ overheadAt'[x] = overheadAt[x],
           \A d \in Cores \ {c} : /\ pendingMessage'[d] = pendingMessage[d]
                                  /\ overheadStructure'[d] = overheadStructure[d],
           \/ /\ Running(b) /\ at'[b] \in {"core", "fromCore"} /\ overheadAt'[b] = overheadAt[b]
              /\ overheadStructure'[c] = overheadStructure[c]
              /\ pendingMessage'[c] \in {NULL, Exec(b)} /\ (pendingMessage'[c] # NULL => at'[b] = "core")
           \/ /\ Winding(b) /\ overheadAt'[b] \in {"core", "fromCore"} /\ at'[b] = at[b]
              /\ overheadStructure'[c] = overheadStructure[c]
              /\ pendingMessage'[c] \in {NULL, VMOverhead(b)}
              /\ pendingMessage'[c] # NULL => overheadAt'[b] = "core"
           \/ /\ at'[b] = "saved" /\ overheadAt'[b] = "toCore" /\ overheadStructure'[c] = Exec(b)
              /\ pendingMessage'[c] = NULL
    PROVE  Keeps({})
  <1>1. \A x \in Blocks \ {b} : (Holds(x)' <=> Holds(x)) /\ (Holds(x) => coreOf[x] # c)
    BY DEF Holds, Running, Winding, HoldInv, OneHolder
  <1>2. /\ Holds(b)' /\ vmIDs'[c] # NULL /\ at'[b] \notin Early
        /\ Running(b)' => overheadStructure'[c] \in {NULL, VMOverhead(b)} /\ ~Winding(b)'
        /\ Winding(b)' => overheadStructure'[c] = Exec(b) /\ at'[b] = "saved"
    BY DEF Holds, Running, Winding, HoldInv, OneHolder, SlotsKept, Early
  <1>3. \A x \in Blocks : at'[x] \in Early => overheadAt'[x] = "none"
    BY <1>2 DEF HoldInv, SlotsKept
  <1>4. pendingMessage'[c] # NULL =>
          \/ pendingMessage'[c] = Exec(b) /\ at'[b] = "core"
          \/ pendingMessage'[c] = VMOverhead(b) /\ overheadAt'[b] = "core"
    OBVIOUS
  <1>5. \A x \in Blocks : coreOf[x] \in Cores /\ coreOf'[x] \in Cores
    BY MovesTyped
  <1>6. HoldInv'
    <2>1. \A x \in Blocks : Holds(x)' /\ coreOf'[x] = c => x = b
      BY <1>1
    <2>2. \A x \in Blocks : Holds(x)' /\ coreOf'[x] # c => Holds(x) /\ coreOf[x] # c
      BY <1>1
    <2>3. \A x \in Blocks : Holds(x) /\ coreOf[x] # c =>
              at'[x] = at[x] /\ overheadAt'[x] = overheadAt[x] /\ coreOf'[x] = coreOf[x]
      OBVIOUS
    <2>4. \A d \in Cores \ {c} : /\ vmIDs'[d] = vmIDs[d] /\ pendingMessage'[d] = pendingMessage[d]
                                 /\ overheadStructure'[d] = overheadStructure[d]
      OBVIOUS
    <2>5. coreOf'[b] = c
      OBVIOUS
    <2>6. QED
      BY <1>2, <1>3, <1>4, <1>5, <2>1, <2>2, <2>3, <2>4, <2>5, OnlyCore
  <1>7. at[b] \notin {"queued", "hypQueue"} /\ Active(b)
    BY DEF Holds, Running, Winding, HoldInv, SlotsKept, Active
  <1>8. QueuesOK'
    BY <1>7, QueuesFrame
  <1>9. QED
    BY <1>6, <1>7, <1>8 DEF Keeps, Active

\* A core takes a block.
LEMMA CoreRequestKeeps ==
    ASSUME TypeOK, HoldInv, QueuesOK, NEW b \in Blocks, CoreRequest(b)
    PROVE  Keeps({})
  <1>1. PICK c \in Cores : c = coreOf[b]
    BY MovesTyped
  <1>2. /\ at[b] = "toCore" /\ overheadAt' = overheadAt /\ b \in Msgs
        /\ UNCHANGED <<coreOf, vmIDs, overheadStructure, coreQueue, requestsQueue>>
    BY MsgKinds DEF CoreRequest, hypVars, schedVars
  <1>3. CASE pendingMessage[c] # NULL
    <2>1. pendingMessage' = pendingMessage /\ at' = at
      BY <1>1, <1>3 DEF CoreRequest
    <2>2. HoldInv' /\ QueuesOK'
      BY <1>2, <2>1, MovesTyped, MovedAside, QueuesFrame
    <2>3. QED
      BY <1>2, <2>1, <2>2 DEF Keeps, Active
  <1>4. CASE pendingMessage[c] = NULL
    <2>1. /\ pendingMessage' = [pendingMessage EXCEPT ![c] = Exec(b)]
          /\ at' = [at EXCEPT ![b] = "core"]
      BY <1>1, <1>4 DEF CoreRequest
    <2>2. pendingMessage'[c] = Exec(b) /\ at'[b] = "core"
      BY <1>2, <2>1, MovesTyped
    <2>3. /\ \A d \in Cores \ {c} : pendingMessage'[d] = pendingMessage[d]
          /\ \A x \in Blocks \ {b} : at'[x] = at[x]
      BY <2>1, MsgKinds, MovesTyped
    <2>4. Holds(b) /\ Running(b)
      BY <1>2 DEF Holds, Running
    <2>5. QED
      BY <1>1, <1>2, <2>2, <2>3, <2>4, OnTheCore
  <1>5. QED
    BY <1>3, <1>4

\* A core takes an overhead block.
LEMMA CoreOverheadKeeps ==
    ASSUME TypeOK, HoldInv, QueuesOK, NEW b \in Blocks, CoreOverheadRequest(b)
    PROVE  Keeps({})
  <1>1. PICK c \in Cores : c = coreOf[b]
    BY MovesTyped
  <1>2. /\ overheadAt[b] = "toCore" /\ at' = at
        /\ UNCHANGED <<coreOf, vmIDs, overheadStructure, coreQueue, requestsQueue>>
    BY MsgKinds DEF CoreOverheadRequest, hypVars, schedVars
  <1>3. CASE pendingMessage[c] # NULL
    <2>1. pendingMessage' = pendingMessage /\ overheadAt' = overheadAt
      BY <1>1, <1>3 DEF CoreOverheadRequest
    <2>2. HoldInv' /\ QueuesOK'
      BY <1>2, <2>1, MovesTyped, MovedAside, QueuesFrame
    <2>3. QED
      BY <1>2, <2>1, <2>2 DEF Keeps, Active
  <1>4. CASE pendingMessage[c] = NULL
    <2>1. /\ pendingMessage' = [pendingMessage EXCEPT ![c] = VMOverhead(b)]
          /\ overheadAt' = [overheadAt EXCEPT ![b] = "core"]
      BY <1>1, <1>4 DEF CoreOverheadRequest
    <2>2. pendingMessage'[c] = VMOverhead(b) /\ overheadAt'[b] = "core"
      BY <2>1, MovesTyped
    <2>3. /\ \A d \in Cores \ {c} : pendingMessage'[d] = pendingMessage[d]
          /\ \A x \in Blocks \ {b} : overheadAt'[x] = overheadAt[x]
      BY <2>1, MovesTyped
    <2>4. Holds(b) /\ Winding(b)
      BY <1>2 DEF Holds, Winding
    <2>5. QED
      BY <1>1, <1>2, <2>2, <2>3, <2>4, OnTheCore
  <1>5. QED
    BY <1>3, <1>4

\* A core has executed what it was given.
LEMMA LatencyKeeps ==
    ASSUME TypeOK, HoldInv, QueuesOK, NEW c \in Cores, CoreLatency(c)
    PROVE  Keeps({})
  <1>1. /\ pendingMessage[c] # NULL /\ pendingMessage' = [pendingMessage EXCEPT ![c] = NULL]
        /\ UNCHANGED <<coreOf, vmIDs, overheadStructure, coreQueue, requestsQueue>>
    BY DEF CoreLatency, hypVars, schedVars
  <1>2. PICK b \in Blocks :
          /\ coreOf[b] = c
          /\ \/ pendingMessage[c] = Exec(b) /\ at[b] = "core"
             \/ pendingMessage[c] = VMOverhead(b) /\ overheadAt[b] = "core"
    BY <1>1 DEF HoldInv, PendingOnCore
  <1>3. /\ pendingMessage'[c] = NULL /\ b \in Msgs /\ Holds(b)
        /\ \A d \in Cores \ {c} : pendingMessage'[d] = pendingMessage[d]
    BY <1>1, <1>2, MsgKinds, MovesTyped DEF Holds, Running, Winding
  <1>4. CASE pendingMessage[c] = Exec(b) /\ at[b] = "core"
    <2>1. at' = [at EXCEPT ![b] = "fromCore"] /\ overheadAt' = overheadAt
      BY <1>4, MessagesDiffer DEF CoreLatency
    <2>2. at'[b] = "fromCore" /\ \A x \in Blocks \ {b} : at'[x] = at[x]
      BY <1>3, <2>1, MsgKinds, MovesTyped
    <2>3. Running(b)
      BY <1>4 DEF Running
    <2>4. QED
      BY <1>1, <1>2, <1>3, <2>1, <2>2, <2>3, OnTheCore
  <1>5. CASE pendingMessage[c] = VMOverhead(b) /\ overheadAt[b] = "core"
    <2>1. overheadAt' = [overheadAt EXCEPT ![b] = "fromCore"] /\ at' = at
      BY <1>5, MessagesDiffer DEF CoreLatency
    <2>2. overheadAt'[b] = "fromCore" /\ \A x \in Blocks \ {b} : overheadAt'[x] = overheadAt[x]
      BY <2>1, MovesTyped
    <2>3. Winding(b)
      BY <1>5 DEF Winding
    <2>4. QED
      BY <1>1, <1>2, <1>3, <2>1, <2>2, <2>3, OnTheCore
  <1>6. QED
    BY <1>2, <1>4, <1>5

\* The hypervisor keeps the response of a block while its overhead block runs.
LEMMA SaveKeeps ==
    ASSUME TypeOK, HoldInv, QueuesOK, NEW b \in Blocks, HypSaveResponse(b)
    PROVE  Keeps({})
  <1>1. PICK c \in Cores : c = coreOf[b]
    BY MovesTyped
  <1>2. /\ at[b] = "fromCore" /\ pendingMessage' = pendingMessage /\ b \in Msgs
        /\ UNCHANGED <<coreOf, vmIDs, coreQueue, requestsQueue>>
    BY MsgKinds DEF HypSaveResponse, coreVars, schedVars
  <1>3. Running(b) /\ Holds(b) /\ overheadStructure[c] \in {NULL, VMOverhead(b)} /\ ~Winding(b)
    BY <1>1, <1>2 DEF Running, Holds, HoldInv, SlotsKept
  <1>4. CASE overheadStructure[c] = NULL
    <2>1. UNCHANGED <<overheadStructure, at, overheadAt>>
      BY <1>1, <1>4 DEF HypSaveResponse
    <2>2. HoldInv' /\ QueuesOK'
      BY <1>2, <2>1, MovesTyped, MovedAside, QueuesFrame
    <2>3. QED
      BY <1>2, <2>1, <2>2 DEF Keeps, Active
  <1>5. CASE overheadStructure[c] = VMOverhead(b)
    <2>1. overheadStructure[c] # NULL /\ overheadStructure[c][1] = b
      BY <1>5, MessagesDiffer
    <2>2. /\ overheadStructure' = [overheadStructure EXCEPT ![c] = Exec(b)]
          /\ at' = [at EXCEPT ![b] = "saved"] /\ overheadAt' = [overheadAt EXCEPT ![b] = "toCore"]
      BY <1>1, <2>1 DEF HypSaveResponse
    <2>3. overheadStructure'[c] = Exec(b) /\ at'[b] = "saved" /\ overheadAt'[b] = "toCore"
      BY <1>2, <2>2, MovesTyped
    <2>4. /\ \A d \in Cores \ {c} : overheadStructure'[d] = overheadStructure[d]
          /\ \A x \in Blocks \ {b} : at'[x] = at[x] /\ overheadAt'[x] = overheadAt[x]
      BY <2>2, MsgKinds, MovesTyped
    <2>5. pendingMessage'[c] = NULL
      <3>1. ASSUME pendingMessage[c] # NULL PROVE FALSE
        <4>1. PICK x \in Blocks : coreOf[x] = c /\ (at[x] = "core" \/ overheadAt[x] = "core")
          BY <3>1 DEF HoldInv, PendingOnCore
        <4>2. Holds(x) /\ x # b
          BY <1>2, <1>3, <4>1 DEF Holds, Running, Winding
        <4>3. QED
          BY <1>1, <1>3, <4>1, <4>2 DEF HoldInv, OneHolder
      <3>2. QED
        BY <1>2, <3>1
    <2>6. QED
      BY <1>1, <1>2, <1>3, <2>3, <2>4, <2>5, OnTheCore
  <1>6. QED
    BY <1>3, <1>4, <1>5

\* The overhead block is through and nobody waits for the core: the saved response goes up.
LEMMA ReleaseKeeps ==
    ASSUME TypeOK, HoldInv, QueuesOK, NEW b \in Blocks, HypOverheadResponse(b), coreQueue = <<>>
    PROVE  Keeps({})
  <1>1. PICK c \in Cores : c = coreOf[b]
    BY MovesTyped
  <1>2. /\ overheadAt[b] = "fromCore" /\ b \in Msgs
        /\ UNCHANGED <<pendingMessage, requestsQueue>>
    BY MsgKinds DEF HypOverheadResponse, coreVars, schedVars
  <1>3. Winding(b) /\ Holds(b) /\ overheadStructure[c] = Exec(b) /\ at[b] = "saved"
    BY <1>1, <1>2 DEF Winding, Holds, HoldInv, SlotsKept
  <1>4. /\ coreQueue' = coreQueue /\ coreOf' = coreOf /\ vmIDs' = [vmIDs EXCEPT ![c] = NULL]
        /\ overheadStructure' = [overheadStructure EXCEPT ![c] = NULL]
    BY <1>1, Zenon DEF HypOverheadResponse
  <1>5. at' = [at EXCEPT ![b] = "toGuest"] /\ overheadAt' = [overheadAt EXCEPT ![b] = "deleted"]
    <2>1. Exec(b) # NULL /\ Exec(b)[1] = b /\ Exec(b)[2] = "exec"
      BY MessagesDiffer
    <2>2. PICK m : m = overheadStructure[c] /\ m # NULL /\ m[1] = b /\ m[2] = "exec"
      BY <1>3, <2>1
    <2>3. \/ /\ m # NULL /\ m[2] = "exec"
             /\ at' = [at EXCEPT ![m[1]] = "toGuest"]
             /\ overheadAt' = [overheadAt EXCEPT ![b] = "deleted"]
          \/ m # NULL /\ m[2] = "overhead"
          \/ m = NULL
      BY <1>1, <2>2, Zenon DEF HypOverheadResponse
    <2>4. QED
      BY <2>2, <2>3
  <1>6. /\ at'[b] = "toGuest" /\ overheadAt'[b] = "deleted"
        /\ \A x \in Blocks \ {b} : at'[x] = at[x] /\ overheadAt'[x] = overheadAt[x]
        /\ \A d \in Cores \ {c} : vmIDs'[d] = vmIDs[d] /\ overheadStructure'[d] = overheadStructure[d]
    BY <1>2, <1>4, <1>5, MsgKinds, MovesTyped
  <1>7. /\ ~Holds(b)'
        /\ \A x \in Blocks \ {b} : (Holds(x)' <=> Holds(x)) /\ (Holds(x) => coreOf[x] # c)
    BY <1>1, <1>3, <1>6 DEF Holds, Running, Winding, HoldInv, OneHolder
  <1>8. pendingMessage'[c] = NULL
    <2>1. ASSUME pendingMessage[c] # NULL PROVE FALSE
      <3>1. PICK x \in Blocks : coreOf[x] = c /\ (at[x] = "core" \/ overheadAt[x] = "core")
        BY <2>1 DEF HoldInv, PendingOnCore
      <3>2. Holds(x) /\ x # b
        BY <1>2, <1>3, <3>1 DEF Holds, Running, Winding
      <3>3. QED
        BY <1>7, <3>1, <3>2
    <2>2. QED
      BY <1>2, <2>1
  <1>9. \A x \in Blocks : at'[x] \in Early => overheadAt'[x] = "none"
    BY <1>6 DEF Early, HoldInv, SlotsKept
  <1>10. HoldInv'
    <2>1. \A x \in Blocks : coreOf[x] \in Cores /\ coreOf'[x] \in Cores
      BY <1>4, MovesTyped
    <2>2. \A x \in Blocks : Holds(x)' /\ coreOf'[x] = c => x = b
      BY <1>4, <1>7
    <2>3. \A x \in Blocks : Holds(x)' /\ coreOf'[x] # c => Holds(x) /\ coreOf[x] # c
      BY <1>4, <1>7
    <2>4. \A x \in Blocks : Holds(x) /\ coreOf[x] # c =>
              at'[x] = at[x] /\ overheadAt'[x] = overheadAt[x] /\ coreOf'[x] = coreOf[x]
      BY <1>1, <1>4, <1>6
    <2>5. \A d \in Cores \ {c} : /\ vmIDs'[d] = vmIDs[d] /\ pendingMessage'[d] = pendingMessage[d]
                                 /\ overheadStructure'[d] = overheadStructure[d]
      BY <1>2, <1>6
    <2>6. QED
      BY <1>7, <1>8, <1>9, <2>1, <2>2, <2>3, <2>4, <2>5, OnlyCore
  <1>11. QueuesOK'
    BY <1>2, <1>3, <1>4, <1>6, QueuesFrame
  <1>12. QED
    BY <1>3, <1>6, <1>10, <1>11 DEF Keeps, Active

\* The overhead block is through and block n takes the core: the saved response stays, and
\* the overhead block of n goes up in its place.
LEMMA TakeOverKeeps ==
    ASSUME Overhead, TypeOK, WorkConserving, HoldInv, QueuesOK, NEW b \in Blocks,
           HypOverheadResponse(b), coreQueue # <<>>
    PROVE  Keeps({})
  <1>1. PICK c \in Cores : c = coreOf[b]
    BY MovesTyped
  <1>2. /\ overheadAt[b] = "fromCore" /\ b \in Msgs
        /\ UNCHANGED <<pendingMessage, requestsQueue>>
    BY MsgKinds DEF HypOverheadResponse, coreVars, schedVars
  <1>3. Winding(b) /\ Holds(b) /\ at[b] = "saved"
    BY <1>1, <1>2 DEF Winding, Holds, HoldInv, SlotsKept
  <1>4. PICK n \in Blocks : n = Head(coreQueue)
    BY GatesTyped
  <1>5. at[n] = "hypQueue" /\ overheadAt[n] = "none" /\ n # b /\ n \in Msgs
    <2>1. n = coreQueue[1] /\ 1 \in DOMAIN coreQueue
      BY <1>4, MovesTyped
    <2>2. at[n] = "hypQueue"
      BY <2>1 DEF QueuesOK
    <2>3. QED
      BY <1>3, <2>2, MsgKinds DEF HoldInv, SlotsKept, Early
  <1>6. PICK ids : ids = [vmIDs EXCEPT ![c] = NULL]
    OBVIOUS
  <1>7. Lowest(FreeCores(ids)) = c
    <2>1. FreeCores(vmIDs) = {}
      BY DEF WorkConserving
    <2>2. Gate(n) \in Guests \X VCpus /\ NULL \notin Guests \X VCpus
      BY <1>5, GatesTyped
    <2>3. QED
      BY <1>6, <2>1, <2>2, MovesTyped, ReleaseAndTake
  <1>8. PICK slots, m : slots = [overheadStructure EXCEPT ![c] = VMOverhead(n)] /\ m = slots[c]
    OBVIOUS
  <1>9. PICK kept : kept = [overheadAt EXCEPT ![b] = "deleted", ![n] = "saved"]
    OBVIOUS
  <1>10. /\ coreQueue' = Tail(coreQueue) /\ coreOf' = [coreOf EXCEPT ![n] = c]
         /\ vmIDs' = [ids EXCEPT ![c] = Gate(n)]
         /\ overheadStructure' = [slots EXCEPT ![c] = NULL]
    BY <1>1, <1>4, <1>6, <1>7, <1>8, Zenon DEF HypOverheadResponse
  <1>11. at' = [at EXCEPT ![n] = "toCore"] /\ overheadAt' = [kept EXCEPT ![n] = "toGuest"]
    <2>1. m # NULL /\ m[1] = n /\ m[2] = "overhead"
      <3>1. m = VMOverhead(n)
        BY <1>8, MovesTyped
      <3>2. QED
        BY <3>1, MessagesDiffer
    <2>2. \/ m # NULL /\ m[2] = "exec"
          \/ /\ m # NULL /\ m[2] = "overhead"
             /\ at' = [at EXCEPT ![n] = "toCore"]
             /\ overheadAt' = [kept EXCEPT ![m[1]] = "toGuest"]
          \/ m = NULL
      BY <1>1, <1>4, <1>6, <1>7, <1>8, <1>9, Zenon DEF HypOverheadResponse
    <2>3. QED
      BY <2>1, <2>2
  <1>12. /\ at'[n] = "toCore" /\ overheadAt'[n] = "toGuest" /\ coreOf'[n] = c
         /\ vmIDs'[c] = Gate(n) /\ overheadStructure'[c] = NULL
         /\ at'[b] = "saved" /\ overheadAt'[b] = "deleted" /\ coreOf'[b] = c
    BY <1>1, <1>3, <1>5, <1>6, <1>8, <1>9, <1>10, <1>11, MovesTyped
  <1>13. \A x \in Blocks \ {b, n} : /\ at'[x] = at[x] /\ overheadAt'[x] = overheadAt[x]
                                    /\ coreOf'[x] = coreOf[x]
    BY <1>9, <1>10, <1>11, MsgKinds, MovesTyped
  <1>14. \A d \in Cores \ {c} : /\ vmIDs'[d] = vmIDs[d]
                                /\ overheadStructure'[d] = overheadStructure[d]
    BY <1>6, <1>8, <1>10, MovesTyped
  <1>15. /\ ~Holds(b)' /\ ~Holds(n) /\ Running(n)' /\ ~Winding(n)'
         /\ \A x \in Blocks \ {b, n} : (Holds(x)' <=> Holds(x)) /\ (Holds(x) => coreOf[x] # c)
    BY <1>1, <1>3, <1>5, <1>12, <1>13 DEF Holds, Running, Winding, HoldInv, OneHolder
  <1>16. pendingMessage'[c] = NULL
    <2>1. ASSUME pendingMessage[c] # NULL PROVE FALSE
      <3>1. PICK x \in Blocks : coreOf[x] = c /\ (at[x] = "core" \/ overheadAt[x] = "core")
        BY <2>1 DEF HoldInv, PendingOnCore
      <3>2. Holds(x) /\ x # b
        BY <1>2, <1>3, <3>1 DEF Holds, Running, Winding
      <3>3. QED
        BY <1>15, <3>1, <3>2
    <2>2. QED
      BY <1>2, <2>1
  <1>17. \A x \in Blocks : at'[x] \in Early => overheadAt'[x] = "none"
    BY <1>12, <1>13 DEF Early, HoldInv, SlotsKept
  <1>18. HoldInv'
    <2>1. \A x \in Blocks : coreOf[x] \in Cores /\ coreOf'[x] \in Cores
      BY <1>12, <1>13, MovesTyped
    <2>2. \A x \in Blocks : Holds(x)' /\ coreOf'[x] = c => x = n
      BY <1>13, <1>15
    <2>3. \A x \in Blocks : Holds(x)' /\ coreOf'[x] # c => Holds(x) /\ coreOf[x] # c
      BY <1>12, <1>13, <1>15
    <2>4. \A x \in Blocks : Holds(x) /\ coreOf[x] # c =>
              at'[x] = at[x] /\ overheadAt'[x] = overheadAt[x] /\ coreOf'[x] = coreOf[x]
      BY <1>1, <1>13, <1>15
    <2>5. \A d \in Cores \ {c} : /\ vmIDs'[d] = vmIDs[d] /\ pendingMessage'[d] = pendingMessage[d]
                                 /\ overheadStructure'[d] = overheadStructure[d]
      BY <1>2, <1>14
    <2>6. vmIDs'[c] # NULL
      BY <1>5, <1>12, GatesTyped
    <2>7. QED
      BY <1>12, <1>15, <1>16, <1>17, <2>1, <2>2, <2>3, <2>4, <2>5, <2>6, OnlyCore
  <1>19. QueuesOK'
    <2>1. \A x \in Blocks : at[x] \in {"queued", "hypQueue"} => at'[x] = at[x] \/ x = n
      BY <1>3, <1>13
    <2>2. QED
      BY <1>2, <1>4, <1>10, <2>1, HypQueueLeft
  <1>20. QED
    BY <1>3, <1>5, <1>13, <1>18, <1>19 DEF Keeps, Active

-------------------------------------------------------------------------------
(* The states the node sends.                                              *)

\* Of as many messages as a set has, each state gets one of its own.
LEMMA EnoughMessages ==
    ASSUME NEW U, IsFiniteSet(U), NEW n \in {0, 1, 2}, n <= Cardinality(U)
    PROVE  \E q \in [1 .. n -> U] : \A i, j \in 1 .. n : q[i] = q[j] => i = j
  <1>1. CASE n = 0
    <2>1. 1 .. n = {}
      BY <1>1
    <2>2. [i \in 1 .. n |-> 0] \in [1 .. n -> U]
      BY <2>1
    <2>3. QED
      BY <2>1, <2>2
  <1>2. CASE n = 1
    <2>1. PICK x : x \in U
      BY <1>2, FS_EmptySet
    <2>2. 1 .. n = {1}
      BY <1>2
    <2>3. [i \in 1 .. n |-> x] \in [1 .. n -> U]
      BY <2>1
    <2>4. QED
      BY <2>2, <2>3
  <1>3. CASE n = 2
    <2>1. PICK x : x \in U
      BY <1>3, FS_EmptySet
    <2>2. PICK y : y \in U /\ y # x
      <3>1. Cardinality({x}) = 1
        BY FS_Singleton
      <3>2. U # {x}
        BY <1>3, <3>1
      <3>3. QED
        BY <2>1, <3>2
    <2>3. 1 .. n = {1, 2}
      BY <1>3
    <2>4. PICK q : q = [i \in 1 .. n |-> IF i = 1 THEN x ELSE y]
      OBVIOUS
    <2>5. q \in [1 .. n -> U]
      BY <2>1, <2>2, <2>4
    <2>6. q[1] = x /\ q[2] = y
      BY <2>3, <2>4
    <2>7. \A i, j \in 1 .. n : q[i] = q[j] => i = j
      BY <2>2, <2>3, <2>6
    <2>8. QED
      BY <2>5, <2>7
  <1>4. QED
    BY <1>1, <1>2, <1>3

\* A sequence with more elements at its end.
LEMMA Extended ==
    ASSUME NEW S, NEW s \in Seq(S), NEW n \in Nat, NEW q \in [1 .. n -> S]
    PROVE  /\ s \o q \in Seq(S) /\ Len(s \o q) = Len(s) + n
           /\ \A i \in DOMAIN (s \o q) :
                \/ i \in DOMAIN s /\ (s \o q)[i] = s[i]
                \/ i - Len(s) \in 1 .. n /\ (s \o q)[i] = q[i - Len(s)]
           /\ n > 0 => s \o q # <<>> /\ Last(s \o q) = q[n]
           /\ n = 0 => s \o q = s
  <1>1. q \in Seq(S) /\ Len(q) = n
    OBVIOUS
  <1>2. s \o q \in Seq(S) /\ Len(s \o q) = Len(s) + n
    BY <1>1
  <1>3. \A i \in 1 .. Len(s) + n : (s \o q)[i] = IF i <= Len(s) THEN s[i] ELSE q[i - Len(s)]
    BY <1>1
  <1>4. ASSUME NEW i \in DOMAIN (s \o q)
        PROVE  \/ i \in DOMAIN s /\ (s \o q)[i] = s[i]
               \/ i - Len(s) \in 1 .. n /\ (s \o q)[i] = q[i - Len(s)]
    BY <1>2, <1>3
  <1>5. ASSUME n > 0 PROVE s \o q # <<>> /\ Last(s \o q) = q[n]
    BY <1>2, <1>3, <1>5 DEF Last
  <1>6. ASSUME n = 0 PROVE s \o q = s
    <2>1. q = <<>>
      BY <1>1, <1>6
    <2>2. QED
      BY <2>1
  <1>7. QED
    BY <1>2, <1>4, <1>5, <1>6

\* The states the node goes through at a time: none, or those of a turn on or off.
Turns == {<<>>, <<"running">>, <<"idle", "running">>, <<"idle", "off_state">>}

\* What is on its way to the scheduler after the node has sent its states.
LEMMA SentStates ==
    ASSUME NodeTypeOK, at \in [Msgs -> Places], NEW states \in Turns, SendStates(states)
    PROVE  /\ stateOrder' \in Seq(StateMsgs) /\ changingState' \in [StateMsgs -> NodeStates]
           /\ \A i \in DOMAIN stateOrder' :
                \/ /\ i \in DOMAIN stateOrder
                   /\ changingState'[stateOrder'[i]] = changingState[stateOrder[i]]
                \/ \E j \in DOMAIN states : changingState'[stateOrder'[i]] = states[j]
           /\ states # <<>> => stateOrder' # <<>> /\ changingState'[Last(stateOrder')] = Last(states)
           /\ states = <<>> => stateOrder' = stateOrder
           /\ \A x \in Blocks : at'[x] = at[x]
           /\ at' \in [Msgs -> Places]
  <1>1. PICK n \in {0, 1, 2} : /\ n = Len(states) /\ DOMAIN states = 1 .. n
                               /\ (n = 0 <=> states = <<>>)
                               /\ \A j \in 1 .. n : states[j] \in NodeStates
                               /\ n > 0 => Last(states) = states[n]
    <2>1. CASE states = <<>>
      BY <2>1
    <2>2. CASE states = <<"running">>
      BY <2>2 DEF NodeStates, Last
    <2>3. CASE states = <<"idle", "running">>
      BY <2>3 DEF NodeStates, Last
    <2>4. CASE states = <<"idle", "off_state">>
      BY <2>4 DEF NodeStates, Last
    <2>5. QED
      BY <2>1, <2>2, <2>3, <2>4 DEF Turns
  <1> DEFINE U == StateMsgs \ ToSet(stateOrder)
             q == CHOOSE f \in [DOMAIN states -> U] : IsInjective(f)
  <1>4. /\ Len(states) <= Cardinality(U) /\ stateOrder' = stateOrder \o q
        /\ changingState' = [s \in StateMsgs |->
              IF s \in ToSet(q) THEN states[CHOOSE i \in DOMAIN q : q[i] = s] ELSE changingState[s]]
        /\ at' = [m \in Msgs |-> IF m \in ToSet(q) THEN "app" ELSE at[m]]
    BY Zenon DEF SendStates
  <1>2. U = StateMsgs \ ToSet(stateOrder)
    OBVIOUS
  <1>3. q = CHOOSE f \in [DOMAIN states -> U] : IsInjective(f)
    OBVIOUS
  <1> HIDE DEF U, q
  <1>5. q \in [1 .. n -> U] /\ \A i, j \in 1 .. n : q[i] = q[j] => i = j
    <2>1. IsFiniteSet(U)
      BY <1>2, EnergyAssumption, FS_Difference
    <2>2. PICK f \in [1 .. n -> U] : \A i, j \in 1 .. n : f[i] = f[j] => i = j
      <3>1. n <= Cardinality(U)
        BY <1>1, <1>4
      <3>2. QED
        BY <2>1, <3>1, EnoughMessages
    <2>3. f \in [DOMAIN states -> U] /\ IsInjective(f)
      BY <1>1, <2>2 DEF IsInjective
    <2>4. q \in [DOMAIN states -> U] /\ IsInjective(q)
      BY <1>3, <2>3
    <2>5. QED
      BY <1>1, <2>4 DEF IsInjective
  <1>6. /\ \A j \in 1 .. n : q[j] \in StateMsgs /\ q[j] \in ToSet(q) /\ q[j] \notin ToSet(stateOrder)
        /\ \A m \in ToSet(q) : m \in StateMsgs /\ \E j \in 1 .. n : m = q[j]
    BY <1>2, <1>5 DEF ToSet
  <1>7. \A j \in 1 .. n : changingState'[q[j]] = states[j]
    <2> TAKE j \in 1 .. n
    <2>1. (CHOOSE i \in DOMAIN q : q[i] = q[j]) = j
      BY <1>5
    <2>2. QED
      BY <1>4, <1>6, <2>1
  <1>8. /\ stateOrder \in Seq(StateMsgs) /\ changingState \in [StateMsgs -> NodeStates]
        /\ q \in [1 .. n -> StateMsgs] /\ n \in Nat
    BY <1>5, <1>6 DEF NodeTypeOK
  <1>9. \A i \in DOMAIN stateOrder :
          /\ stateOrder[i] \in StateMsgs
          /\ changingState'[stateOrder[i]] = changingState[stateOrder[i]]
    <2> TAKE i \in DOMAIN stateOrder
    <2>1. stateOrder[i] \in StateMsgs /\ stateOrder[i] \in ToSet(stateOrder)
      BY <1>8 DEF ToSet
    <2>2. stateOrder[i] \notin ToSet(q)
      BY <1>6, <2>1
    <2>3. QED
      BY <1>4, <2>1, <2>2
  <1>10. /\ stateOrder' \in Seq(StateMsgs)
         /\ \A i \in DOMAIN stateOrder' :
                \/ i \in DOMAIN stateOrder /\ stateOrder'[i] = stateOrder[i]
                \/ i - Len(stateOrder) \in 1 .. n /\ stateOrder'[i] = q[i - Len(stateOrder)]
         /\ n > 0 => stateOrder' # <<>> /\ Last(stateOrder') = q[n]
         /\ n = 0 => stateOrder' = stateOrder
    BY <1>4, <1>8, Extended
  <1>11. changingState' \in [StateMsgs -> NodeStates]
    <2>1. ASSUME NEW s \in StateMsgs PROVE changingState'[s] \in NodeStates
      <3>1. CASE s \in ToSet(q)
        BY <1>1, <1>6, <1>7, <3>1
      <3>2. CASE s \notin ToSet(q)
        BY <1>4, <1>8, <3>2
      <3>3. QED
        BY <3>1, <3>2
    <2>2. QED
      BY <1>4, <2>1
  <1>12. \A i \in DOMAIN stateOrder' :
                \/ /\ i \in DOMAIN stateOrder
                   /\ changingState'[stateOrder'[i]] = changingState[stateOrder[i]]
                \/ \E j \in DOMAIN states : changingState'[stateOrder'[i]] = states[j]
    BY <1>1, <1>7, <1>9, <1>10
  <1>13. states # <<>> => stateOrder' # <<>> /\ changingState'[Last(stateOrder')] = Last(states)
    <2> SUFFICES ASSUME states # <<>>
                 PROVE  stateOrder' # <<>> /\ changingState'[Last(stateOrder')] = Last(states)
      OBVIOUS
    <2>1. n > 0 /\ n \in 1 .. n
      BY <1>1
    <2>2. QED
      BY <1>1, <1>7, <1>10, <2>1
  <1>14. at' \in [Msgs -> Places] /\ \A x \in Blocks : at'[x] = at[x]
    <2>1. \A x \in Blocks : x \in Msgs /\ x \notin ToSet(q)
      BY <1>6, MsgKinds, ConstantsAssumption
    <2>2. QED
      BY <1>4, <2>1 DEF Places
  <1>15. QED
    BY <1>1, <1>10, <1>11, <1>12, <1>13, <1>14

-------------------------------------------------------------------------------
(* The steps of the node.                                                  *)

\* No block becomes active.
Calm == \A x \in Blocks : Active(x)' => Active(x)

\* The steps of the path keep what is known of the blocks, and only a request makes a
\* block active.
LEMMA PathSteps ==
    ASSUME BlocksInv
    PROVE  /\ \A b \in Blocks : SchedRequest(b) =>
                BlocksInv' /\ \A x \in Blocks \ {b} : Active(x)' => Active(x)
           /\ \A b \in Blocks :
                \/ HypRequest(b) \/ HypSaveResponse(b) \/ HypOverheadResponse(b) \/ SchedResponse(b)
                \/ SchedOverheadResponse(b) \/ CoreRequest(b) \/ CoreOverheadRequest(b)
                => BlocksInv' /\ Calm
           /\ \A s \in StateMsgs : SchedStateFIFO(s) => BlocksInv' /\ Calm
           /\ \A c \in Cores : CoreLatency(c) => BlocksInv' /\ Calm
           /\ UNCHANGED vars => BlocksInv' /\ Calm
  <1>a. TypeOK /\ WorkConserving /\ HoldInv /\ QueuesOK /\ Overhead
    BY EnergyAssumption DEF BlocksInv
  <1>b. [Next]_vars => TypeOK' /\ WorkConserving'
    BY <1>a, TypeStep, ConservingStep
  <1>c. Keeps({}) => HoldInv' /\ QueuesOK' /\ Calm
    BY DEF Keeps, Calm
  <1>1. ASSUME NEW b \in Blocks, SchedRequest(b)
        PROVE  BlocksInv' /\ \A x \in Blocks \ {b} : Active(x)' => Active(x)
    <2>1. [Next]_vars
      BY <1>1 DEF Next, Deliver
    <2>2. Keeps({b})
      BY <1>1, <1>a, RequestKeeps
    <2>3. QED
      BY <1>b, <2>1, <2>2 DEF Keeps, BlocksInv
  <1>2. ASSUME NEW b \in Blocks,
               \/ HypRequest(b) \/ HypSaveResponse(b) \/ HypOverheadResponse(b) \/ SchedResponse(b)
               \/ SchedOverheadResponse(b) \/ CoreRequest(b) \/ CoreOverheadRequest(b)
        PROVE  BlocksInv' /\ Calm
    <2>1. [Next]_vars
      BY <1>2 DEF Next, Deliver, DeliverOverhead
    <2>2. Keeps({})
      BY <1>2, <1>a, HypRequestKeeps, SaveKeeps, ReleaseKeeps, TakeOverKeeps, ResponseKeeps,
         OverheadResponseKeeps, CoreRequestKeeps, CoreOverheadKeeps
    <2>3. QED
      BY <1>b, <1>c, <2>1, <2>2 DEF BlocksInv
  <1>3. ASSUME NEW s \in StateMsgs, SchedStateFIFO(s) PROVE BlocksInv' /\ Calm
    <2>1. [Next]_vars
      BY <1>3 DEF Next, DeliverState
    <2>2. QED
      BY <1>3, <1>a, <1>b, <1>c, <2>1, StateKeeps DEF BlocksInv
  <1>4. ASSUME NEW c \in Cores, CoreLatency(c) PROVE BlocksInv' /\ Calm
    <2>1. [Next]_vars
      BY <1>4 DEF Next
    <2>2. QED
      BY <1>4, <1>a, <1>b, <1>c, <2>1, LatencyKeeps DEF BlocksInv
  <1>5. ASSUME UNCHANGED vars PROVE BlocksInv' /\ Calm
    <2>1. UNCHANGED <<at, overheadAt, coreOf, vmIDs, overheadStructure, pendingMessage,
                      coreQueue, requestsQueue>>
      BY <1>5 DEF vars, schedVars, hypVars, coreVars, msgVars
    <2>2. HoldInv' /\ QueuesOK'
      BY <1>a, <2>1, MovesTyped, MovedAside, QueuesFrame
    <2>3. Calm
      BY <2>1 DEF Calm, Active
    <2>4. QED
      BY <1>5, <1>b, <2>2, <2>3 DEF BlocksInv
  <1>6. QED
    BY <1>1, <1>2, <1>3, <1>4, <1>5

\* Sending states moves no block.
LEMMA SendKeeps ==
    ASSUME BlocksInv, NodeTypeOK, NEW states \in Turns, SendStates(states),
           UNCHANGED <<schedVars, hypVars, coreVars, overheadAt, coreOf, answers, fault>>
    PROVE  BlocksInv' /\ Calm
  <1>a. TypeOK /\ WorkConserving /\ HoldInv /\ QueuesOK
    BY DEF BlocksInv
  <1>1. at' \in [Msgs -> Places] /\ \A x \in Blocks : at'[x] = at[x]
    BY <1>a, MovesTyped, SentStates
  <1>2. UNCHANGED <<overheadAt, coreOf, vmIDs, overheadStructure, pendingMessage, coreQueue,
                    requestsQueue, isCPU_Idle>>
    BY DEF schedVars, hypVars, coreVars
  <1>3. TypeOK'
    <2>1. SchedTypeOK' /\ HypTypeOK' /\ CoreTypeOK'
      BY <1>a DEF TypeOK, SchedTypeOK, HypTypeOK, CoreTypeOK, schedVars, hypVars, coreVars
    <2>2. MsgTypeOK'
      BY <1>a, <1>1 DEF TypeOK, MsgTypeOK
    <2>3. QED
      BY <2>1, <2>2 DEF TypeOK
  <1>4. WorkConserving'
    BY <1>a, <1>2 DEF WorkConserving, FreeCores
  <1>5. HoldInv' /\ QueuesOK'
    BY <1>a, <1>1, <1>2, MovesTyped, MovedAside, QueuesFrame
  <1>6. QED
    BY <1>1, <1>2, <1>3, <1>4, <1>5 DEF BlocksInv, Calm, Active

\* The positions of the meters are natural numbers, and the parts are cores and devices.
LEMMA MeterStates ==
    ASSUME MetersTimed
    PROVE  \A p \in Parts : meter[p].state \in Nat
  BY StatesInRange DEF MetersTimed, Timed

\* The parts are cores and devices, and none is both.
LEMMA PartKinds ==
    /\ Cores \subseteq Parts /\ Devices \subseteq Parts
    /\ \A d \in Devices : d \notin Cores
  BY EnergyAssumption DEF Parts

\* A step that sends nothing, starts no block and turns no part on or off.
LEMMA NodeFrame ==
    ASSUME NodeInv, now' \in Nat, MetersTimed', ~coreOff', Calm,
           UNCHANGED <<nodeState, linked, stateOrder, changingState, inbox, busyUntil>>,
           \A p \in Parts : meter'[p].state = 0 <=> meter[p].state = 0
    PROVE  NodeInv'
  <1>1. NodeTypeOK'
    BY DEF NodeInv, NodeTypeOK
  <1>2. NodeOn'
    BY DEF NodeInv, NodeOn, Calm
  <1>3. \A c \in Cores : meter[c].state > 0 => meter'[c].state > 0
    <2>1. \A p \in Parts : meter'[p].state \in EnergyStates
      BY DEF MetersTimed, Timed
    <2>2. \A p \in Parts : meter[p].state \in Nat /\ meter'[p].state \in Nat
      BY <2>1, MeterStates, StatesInRange DEF NodeInv
    <2>3. QED
      BY <2>2, PartKinds
  <1>4. NoneTurnedOff'
    BY <1>3 DEF NodeInv, NoneTurnedOff, Calm
  <1>5. CoresFollow'
    BY PartKinds DEF NodeInv, CoresFollow
  <1>6. DevicesFollow'
    BY PartKinds DEF NodeInv, DevicesFollow
  <1>7. QED
    BY <1>1, <1>2, <1>4, <1>5, <1>6 DEF NodeInv

\* While a core executes there is a block, the node is on and so are its cores.
LEMMA WhileActive ==
    ASSUME BlocksInv, NodeInv
    PROVE  /\ \A b \in Blocks : Active(b) =>
                /\ nodeState = "running"
                /\ \A c \in Cores : meter[c].state > 0 /\ meter[c].state # 0
           /\ \A c \in Cores : pendingMessage[c] # NULL => \E b \in Blocks : Active(b)
  <1>1. ASSUME NEW b \in Blocks, Active(b)
        PROVE  /\ nodeState = "running"
               /\ \A c \in Cores : meter[c].state > 0 /\ meter[c].state # 0
    <2>1. nodeState = "running"
      BY <1>1 DEF NodeInv, NodeOn
    <2>2. \A c \in Cores : meter[c].state > 0 /\ meter[c].state \in Nat
      BY <1>1, MeterStates, PartKinds DEF NodeInv, NoneTurnedOff
    <2>3. QED
      BY <2>1, <2>2
  <1>2. ASSUME NEW c \in Cores, pendingMessage[c] # NULL PROVE \E b \in Blocks : Active(b)
    <2>1. PICK b \in Blocks : at[b] = "core" \/ overheadAt[b] = "core"
      BY <1>2 DEF BlocksInv, HoldInv, PendingOnCore
    <2>2. QED
      BY <2>1 DEF Active
  <1>3. QED
    BY <1>1, <1>2

\* The state a device has after the node has turned on or off.
LEMMA AfterState ==
    ASSUME now \in Nat, MetersTimed, NEW d \in Devices, NEW states \in Turns \ {<<>>}
    PROVE  MeterAfter(d, states).state = IF Last(states) = "off_state" THEN 0 ELSE 1
  <1>1. d \in Parts /\ d \notin Cores /\ Timed(meter[d], now)
    BY PartKinds DEF MetersTimed
  <1>2. PartState(d, "idle") = 1 /\ PartState(d, "running") = 1 /\ PartState(d, "off_state") = 0
    BY <1>1 DEF PartState
  <1>3. 0 \in EnergyStates /\ 1 \in EnergyStates
    BY StatesInRange
  <1>4. CASE states = <<"running">>
    <2>1. MeterAfter(d, states) = ChangeState(meter[d], 1) /\ Last(states) = "running"
      BY <1>2, <1>4 DEF MeterAfter, Last
    <2>2. QED
      BY <1>1, <1>3, <2>1, ChangeTimed
  <1>5. CASE states = <<"idle", "running">>
    <2>1. /\ MeterAfter(d, states) = ChangeState(ChangeState(meter[d], 1), 1)
          /\ Last(states) = "running"
      BY <1>2, <1>5 DEF MeterAfter, Last
    <2>2. QED
      BY <1>1, <1>3, <2>1, ChangeTimed
  <1>6. CASE states = <<"idle", "off_state">>
    <2>1. /\ MeterAfter(d, states) = ChangeState(ChangeState(meter[d], 1), 0)
          /\ Last(states) = "off_state"
      BY <1>2, <1>6 DEF MeterAfter, Last
    <2>2. QED
      BY <1>1, <1>3, <2>1, ChangeTimed
  <1>7. QED
    BY <1>4, <1>5, <1>6 DEF Turns

\* The node sends states when a machine comes or leaves.
LEMMA TurnKeeps ==
    ASSUME BlocksInv, NodeInv, NEW states \in Turns, SendStates(states), Calm,
           UNCHANGED <<now, busyUntil, inbox, coreOff>>, linked' \subseteq Guests,
           \A b \in Blocks : Active(b) => Owner[b] \in linked',
           states = <<"idle", "off_state">> =>
              /\ linked' = {} /\ \A b \in Blocks : ~Active(b)
              /\ \A d \in Devices : busyUntil[d] = 0,
           states # <<>> /\ states # <<"idle", "off_state">> => linked' # {},
           states = <<>> => (linked' # {} <=> linked # {})
    PROVE  NodeInv'
  <1>a. /\ NodeTypeOK /\ MetersTimed /\ NodeOn /\ NoneTurnedOff /\ CoresFollow /\ DevicesFollow
        /\ now \in Nat /\ at \in [Msgs -> Places]
    BY MovesTyped DEF NodeInv, NodeTypeOK, BlocksInv
  <1>1. /\ stateOrder' \in Seq(StateMsgs) /\ changingState' \in [StateMsgs -> NodeStates]
        /\ \A i \in DOMAIN stateOrder' :
             \/ /\ i \in DOMAIN stateOrder
                /\ changingState'[stateOrder'[i]] = changingState[stateOrder[i]]
             \/ \E j \in DOMAIN states : changingState'[stateOrder'[i]] = states[j]
        /\ states # <<>> => stateOrder' # <<>> /\ changingState'[Last(stateOrder')] = Last(states)
        /\ states = <<>> => stateOrder' = stateOrder
    BY <1>a, SentStates
  <1>2. /\ nodeState' = IF states = <<>> THEN nodeState ELSE Last(states)
        /\ meter' = [p \in Parts |-> IF p \in Devices THEN MeterAfter(p, states) ELSE meter[p]]
    BY DEF SendStates
  <1>3. states = <<"idle", "off_state">> <=> states # <<>> /\ Last(states) = "off_state"
    BY DEF Turns, Last
  <1>4. states # <<>> => Last(states) \in {"off_state", "running"}
    BY DEF Turns, Last
  <1>5. \A j \in DOMAIN states : states[j] = "off_state" => states = <<"idle", "off_state">>
    BY DEF Turns
  <1>6. MetersTimed'
    BY <1>a, SendTimed
  <1>7. NodeTypeOK'
    BY <1>a, <1>1, <1>2, <1>4 DEF NodeTypeOK
  <1>8. NodeOn'
    <2>1. linked' # {} <=> nodeState' = "running"
      BY <1>a, <1>2, <1>3, <1>4 DEF NodeOn
    <2>2. \A b \in Blocks : Active(b)' => Owner[b] \in linked'
      BY DEF Calm
    <2>3. \A d \in Devices : busyUntil'[d] > 0 => linked' # {}
      BY <1>a DEF NodeOn
    <2>4. QED
      BY <2>1, <2>2, <2>3 DEF NodeOn
  <1>9. \A c \in Cores : meter'[c] = meter[c]
    BY <1>2, PartKinds
  <1>10. NoneTurnedOff'
    <2> SUFFICES ASSUME NEW b \in Blocks, Active(b)'
                 PROVE  /\ \A i \in DOMAIN stateOrder' : changingState'[stateOrder'[i]] # "off_state"
                        /\ \A c \in Cores : /\ meter'[c].state > 0
                                            /\ \A i \in DOMAIN inbox'[c] : inbox'[c][i] # "off_state"
      BY DEF NoneTurnedOff
    <2>1. Active(b) /\ states # <<"idle", "off_state">>
      BY DEF Calm
    <2>2. QED
      BY <1>a, <1>1, <1>5, <1>9, <2>1 DEF NoneTurnedOff
  <1>11. CoresFollow'
    <2>1. CASE states = <<>>
      <3>1. /\ stateOrder' = stateOrder /\ nodeState' = nodeState
            /\ \A i \in DOMAIN stateOrder : changingState'[stateOrder[i]] = changingState[stateOrder[i]]
        BY <1>1, <1>2, <2>1
      <3>2. stateOrder # <<>> => changingState'[Last(stateOrder)] = changingState[Last(stateOrder)]
        BY <1>a, <3>1 DEF Last, NodeTypeOK
      <3>3. QED
        BY <1>a, <1>9, <3>1, <3>2 DEF CoresFollow
    <2>2. CASE states # <<>>
      BY <1>1, <1>2, <2>2 DEF CoresFollow
    <2>3. QED
      BY <2>1, <2>2
  <1>12. DevicesFollow'
    <2>1. \A d \in Devices : meter'[d] = MeterAfter(d, states)
      BY <1>2, PartKinds
    <2>2. CASE states = <<>>
      <3>1. \A d \in Devices : meter'[d] = meter[d]
        BY <2>1, <2>2 DEF MeterAfter
      <3>2. QED
        BY <1>a, <1>2, <2>2, <3>1 DEF DevicesFollow
    <2>3. CASE states # <<>>
      <3>1. \A d \in Devices : meter'[d].state = IF Last(states) = "off_state" THEN 0 ELSE 1
        BY <1>a, <2>1, <2>3, AfterState
      <3>2. QED
        BY <1>2, <2>3, <3>1 DEF DevicesFollow
    <2>4. QED
      BY <2>2, <2>3
  <1>13. QED
    BY <1>6, <1>7, <1>8, <1>10, <1>11, <1>12 DEF NodeInv

\* No state is sent, no part changes and no block becomes active.
LEMMA QuietKeeps ==
    ASSUME NodeInv, Calm, UNCHANGED <<now, nodeVars, deviceVars, inbox, meter, coreOff>>
    PROVE  NodeInv'
  <1>1. UNCHANGED <<now, nodeState, linked, stateOrder, changingState, busyUntil, inbox, meter, coreOff>>
    BY DEF nodeVars, deviceVars
  <1>2. now' \in Nat /\ ~coreOff'
    BY <1>1 DEF NodeInv, NodeTypeOK
  <1>3. MetersTimed'
    BY <1>1 DEF NodeInv, MetersTimed
  <1>4. QED
    BY <1>1, <1>2, <1>3, NodeFrame

\* The clock advances.
LEMMA TickKeeps ==
    ASSUME NodeInv, Calm, Tick
    PROVE  NodeInv'
  <1>1. /\ now' = now + 1
        /\ UNCHANGED <<nodeState, linked, stateOrder, changingState, busyUntil, inbox, meter, coreOff>>
    BY DEF Tick, nodeVars, deviceVars
  <1>2. now \in Nat /\ ~coreOff
    BY DEF NodeInv, NodeTypeOK
  <1>3. MetersTimed'
    <2>1. DOMAIN meter = Parts /\ \A p \in Parts : Timed(meter[p], now)
      BY DEF NodeInv, MetersTimed
    <2>2. \A m : Timed(m, now) => Timed(m, now + 1)
      BY <1>2 DEF Timed
    <2>3. QED
      BY <1>1, <2>1, <2>2 DEF MetersTimed
  <1>4. now' \in Nat /\ ~coreOff'
    BY <1>1, <1>2
  <1>5. QED
    BY <1>1, <1>3, <1>4, NodeFrame

\* The first element of a sequence, and what follows it.
LEMMA HeadAndRest ==
    ASSUME NEW S, NEW q \in Seq(S), q # <<>>
    PROVE  /\ Tail(q) \in Seq(S) /\ Head(q) = q[1] /\ 1 \in DOMAIN q
           /\ \A i \in DOMAIN Tail(q) : i + 1 \in DOMAIN q /\ Tail(q)[i] = q[i + 1]
           /\ Tail(q) # <<>> => Last(Tail(q)) = Last(q)
           /\ Tail(q) = <<>> => Last(q) = Head(q)
  <1>1. Len(q) \in Nat /\ Len(q) > 0 /\ DOMAIN q = 1 .. Len(q) /\ Head(q) = q[1]
    OBVIOUS
  <1>2. Tail(q) \in Seq(S) /\ Len(Tail(q)) = Len(q) - 1 /\ DOMAIN Tail(q) = 1 .. Len(q) - 1
    BY <1>1
  <1>3. \A i \in 1 .. Len(q) - 1 : Tail(q)[i] = q[i + 1]
    BY <1>1
  <1>4. \A i \in DOMAIN Tail(q) : i + 1 \in DOMAIN q /\ Tail(q)[i] = q[i + 1]
    BY <1>1, <1>2, <1>3
  <1>5. ASSUME Tail(q) # <<>> PROVE Last(Tail(q)) = Last(q)
    <2>1. Len(q) - 1 \in 1 .. Len(q) - 1
      BY <1>1, <1>2, <1>5
    <2>2. Tail(q)[Len(q) - 1] = q[Len(q)]
      BY <1>1, <1>3, <2>1
    <2>3. QED
      BY <1>2, <2>2 DEF Last
  <1>6. ASSUME Tail(q) = <<>> PROVE Last(q) = Head(q)
    <2>1. DOMAIN Tail(q) = {}
      BY <1>6
    <2>2. Len(q) = 1
      <3>1. PICK n \in Nat : n = Len(q) /\ n > 0
        BY <1>1
      <3>2. 1 \notin 1 .. n - 1
        BY <1>2, <2>1, <3>1
      <3>3. QED
        BY <3>1, <3>2
    <2>3. QED
      BY <1>1, <2>2 DEF Last
  <1>7. QED
    BY <1>1, <1>2, <1>4, <1>5, <1>6

\* A state of the node goes on to the cores.
LEMMA ForwardKeeps ==
    ASSUME BlocksInv, NodeInv, ForwardState
    PROVE  BlocksInv' /\ NodeInv'
  <1>a. /\ NodeTypeOK /\ MetersTimed /\ NodeOn /\ NoneTurnedOff /\ CoresFollow /\ DevicesFollow
        /\ ~coreOff
    BY DEF NodeInv
  <1>1. PICK s \in StateMsgs : s = Head(stateOrder) /\ stateOrder # <<>>
    BY <1>a DEF ForwardState, NodeTypeOK
  <1>2. PICK x \in NodeStates : x = changingState[s]
    BY <1>a DEF NodeTypeOK
  <1>3. /\ SchedStateFIFO(s) /\ stateOrder' = Tail(stateOrder)
        /\ inbox' = [c \in Cores |-> Append(inbox[c], x)]
        /\ UNCHANGED <<now, nodeState, linked, changingState, busyUntil, meter, coreOff>>
    BY <1>1, <1>2 DEF ForwardState, deviceVars
  <1>4. BlocksInv' /\ Calm
    BY <1>3, PathSteps
  <1>5. /\ stateOrder \in Seq(StateMsgs) /\ inbox \in [Cores -> Seq(NodeStates)]
    BY <1>a DEF NodeTypeOK
  <1>6. /\ stateOrder' \in Seq(StateMsgs)
        /\ \A i \in DOMAIN stateOrder' : i + 1 \in DOMAIN stateOrder /\ stateOrder'[i] = stateOrder[i + 1]
        /\ stateOrder' # <<>> => Last(stateOrder') = Last(stateOrder)
        /\ stateOrder' = <<>> => Last(stateOrder) = s
        /\ 1 \in DOMAIN stateOrder /\ stateOrder[1] = s
    BY <1>1, <1>3, <1>5, HeadAndRest
  <1>7. \A c \in Cores :
          /\ inbox'[c] \in Seq(NodeStates) /\ inbox'[c] # <<>> /\ Last(inbox'[c]) = x
          /\ \A i \in DOMAIN inbox'[c] : (i \in DOMAIN inbox[c] /\ inbox'[c][i] = inbox[c][i]) \/ inbox'[c][i] = x
    <2>1. ASSUME NEW q \in Seq(NodeStates)
          PROVE  /\ Append(q, x) \in Seq(NodeStates) /\ Append(q, x) # <<>> /\ Last(Append(q, x)) = x
                 /\ \A i \in DOMAIN Append(q, x) :
                       (i \in DOMAIN q /\ Append(q, x)[i] = q[i]) \/ Append(q, x)[i] = x
      BY DEF Last
    <2> TAKE c \in Cores
    <2>2. PICK q \in Seq(NodeStates) : q = inbox[c]
      BY <1>5
    <2>3. inbox'[c] = Append(q, x)
      BY <1>3, <2>2
    <2>4. QED
      BY <2>1, <2>2, <2>3
  <1>8. NodeTypeOK'
    BY <1>a, <1>3, <1>6, <1>7 DEF NodeTypeOK
  <1>9. MetersTimed'
    BY <1>a, <1>3 DEF MetersTimed
  <1>10. NodeOn'
    BY <1>a, <1>3, <1>4 DEF NodeOn, Calm
  <1>11. NoneTurnedOff'
    BY <1>a, <1>2, <1>3, <1>4, <1>6, <1>7 DEF NoneTurnedOff, Calm
  <1>12. CoresFollow'
    <2>1. \A c \in Cores : nodeState = "off_state" <=> changingState[Last(stateOrder)] = "off_state"
      BY <1>a, <1>1 DEF CoresFollow
    <2>2. CASE stateOrder' # <<>>
      BY <1>3, <1>6, <2>1, <2>2 DEF CoresFollow
    <2>3. CASE stateOrder' = <<>>
      BY <1>2, <1>3, <1>6, <1>7, <2>1, <2>3 DEF CoresFollow
    <2>4. QED
      BY <2>2, <2>3
  <1>13. DevicesFollow'
    BY <1>a, <1>3 DEF DevicesFollow
  <1>14. QED
    BY <1>a, <1>3, <1>4, <1>8, <1>9, <1>10, <1>11, <1>12, <1>13 DEF NodeInv

\* A core takes a state.
LEMMA DeliverKeeps ==
    ASSUME BlocksInv, NodeInv, NEW c \in Cores, DeliverCoreState(c)
    PROVE  BlocksInv' /\ NodeInv'
  <1>a. /\ NodeTypeOK /\ MetersTimed /\ NodeOn /\ NoneTurnedOff /\ CoresFollow /\ DevicesFollow
        /\ ~coreOff /\ now \in Nat /\ inbox \in [Cores -> Seq(NodeStates)]
    BY DEF NodeInv, NodeTypeOK
  <1>1. PICK q \in Seq(NodeStates) : q = inbox[c] /\ q # <<>>
    BY <1>a DEF DeliverCoreState
  <1>2. PICK s \in EnergyStates : s = PartState(c, Head(q))
    BY StatesInRange
  <1>3. /\ meter' = [meter EXCEPT ![c] = ChangeState(@, s)] /\ inbox' = [inbox EXCEPT ![c] = Tail(q)]
        /\ UNCHANGED vars
        /\ UNCHANGED <<now, nodeState, linked, stateOrder, changingState, busyUntil, coreOff>>
    BY <1>1, <1>2 DEF DeliverCoreState, nodeVars, deviceVars
  <1>4. BlocksInv' /\ Calm
    BY <1>3, PathSteps
  <1>5. /\ MetersTimed'
        /\ \A p \in Parts : meter'[p].state = IF p = c THEN s ELSE meter[p].state
    BY <1>a, <1>3, OneMeter
  <1>6. /\ Tail(q) \in Seq(NodeStates) /\ Head(q) = q[1] /\ 1 \in DOMAIN q
        /\ \A i \in DOMAIN Tail(q) : i + 1 \in DOMAIN q /\ Tail(q)[i] = q[i + 1]
        /\ Tail(q) # <<>> => Last(Tail(q)) = Last(q)
        /\ Tail(q) = <<>> => Last(q) = Head(q)
    BY <1>1, HeadAndRest
  <1>7. (s = 0 <=> Head(q) = "off_state") /\ s \in Nat
    BY <1>2, StatesInRange DEF PartState
  <1>8. inbox'[c] = Tail(q) /\ \A d \in Cores \ {c} : inbox'[d] = inbox[d]
    BY <1>a, <1>3
  <1>9. NodeTypeOK'
    BY <1>a, <1>3, <1>6 DEF NodeTypeOK
  <1>10. NodeOn'
    BY <1>a, <1>3, <1>4 DEF NodeOn, Calm
  <1>11. NoneTurnedOff'
    <2> SUFFICES ASSUME NEW b \in Blocks, Active(b)
                 PROVE  /\ \A i \in DOMAIN stateOrder : changingState[stateOrder[i]] # "off_state"
                        /\ \A d \in Cores : /\ meter'[d].state > 0
                                            /\ \A i \in DOMAIN inbox'[d] : inbox'[d][i] # "off_state"
      BY <1>3, <1>4 DEF NoneTurnedOff, Calm
    <2>1. /\ \A i \in DOMAIN stateOrder : changingState[stateOrder[i]] # "off_state"
          /\ \A d \in Cores : /\ meter[d].state > 0
                              /\ \A i \in DOMAIN inbox[d] : inbox[d][i] # "off_state"
      BY <1>a DEF NoneTurnedOff
    <2>2. s > 0
      BY <1>1, <1>6, <1>7, <2>1
    <2>3. \A d \in Cores : meter'[d].state > 0
      BY <1>5, <2>1, <2>2, PartKinds
    <2>4. \A d \in Cores : \A i \in DOMAIN inbox'[d] : inbox'[d][i] # "off_state"
      <3> SUFFICES ASSUME NEW d \in Cores, NEW i \in DOMAIN inbox'[d] PROVE inbox'[d][i] # "off_state"
        OBVIOUS
      <3>1. CASE d = c
        <4>1. i \in DOMAIN Tail(q)
          BY <1>8, <3>1
        <4>2. i + 1 \in DOMAIN q /\ inbox'[d][i] = q[i + 1]
          BY <1>6, <1>8, <3>1, <4>1
        <4>3. QED
          BY <1>1, <2>1, <4>2
      <3>2. CASE d # c
        BY <1>8, <2>1, <3>2
      <3>3. QED
        BY <3>1, <3>2
    <2>5. QED
      BY <2>1, <2>3, <2>4
  <1>12. CoresFollow'
    <2> SUFFICES ASSUME NEW d \in Cores
                 PROVE  nodeState = "off_state" <=>
                          IF stateOrder # <<>> THEN changingState[Last(stateOrder)] = "off_state"
                          ELSE IF inbox'[d] # <<>> THEN Last(inbox'[d]) = "off_state"
                          ELSE meter'[d].state = 0
      BY <1>3 DEF CoresFollow
    <2>1. nodeState = "off_state" <=>
             IF stateOrder # <<>> THEN changingState[Last(stateOrder)] = "off_state"
             ELSE IF inbox[d] # <<>> THEN Last(inbox[d]) = "off_state"
             ELSE meter[d].state = 0
      BY <1>a DEF CoresFollow
    <2>2. CASE d = c
      BY <1>1, <1>5, <1>6, <1>7, <1>8, <2>1, <2>2, PartKinds
    <2>3. CASE d # c
      BY <1>5, <1>8, <2>1, <2>3, PartKinds
    <2>4. QED
      BY <2>2, <2>3
  <1>13. DevicesFollow'
    BY <1>a, <1>3, <1>5, PartKinds DEF DevicesFollow
  <1>14. QED
    BY <1>a, <1>3, <1>4, <1>5, <1>9, <1>10, <1>11, <1>12, <1>13 DEF NodeInv

\* A block starts after the states of its machine have reached the parts.
LEMMA RequestStarts ==
    ASSUME BlocksInv, NodeInv, NEW b \in Blocks, Request(b)
    PROVE  BlocksInv' /\ NodeInv'
  <1>a. /\ NodeTypeOK /\ MetersTimed /\ NodeOn /\ CoresFollow /\ DevicesFollow /\ ~coreOff
    BY DEF NodeInv
  <1>1. /\ SchedRequest(b) /\ Owner[b] \in linked
        /\ stateOrder = <<>> /\ \A c \in Cores : inbox[c] = <<>>
        /\ UNCHANGED <<now, nodeState, linked, stateOrder, changingState, busyUntil, inbox, meter, coreOff>>
    BY DEF Request, Delivered, energyVars, nodeVars, deviceVars
  <1>2. BlocksInv' /\ \A x \in Blocks \ {b} : Active(x)' => Active(x)
    BY <1>1, PathSteps
  <1>3. \A c \in Cores : meter[c].state > 0
    <2>1. nodeState = "running"
      BY <1>a, <1>1 DEF NodeOn
    <2>2. \A c \in Cores : meter[c].state # 0
      BY <1>a, <1>1, <2>1 DEF CoresFollow
    <2>3. QED
      BY <1>a, <2>2, MeterStates, PartKinds
  <1>4. NodeTypeOK' /\ DevicesFollow' /\ CoresFollow'
    BY <1>a, <1>1 DEF NodeTypeOK, DevicesFollow, CoresFollow
  <1>5. MetersTimed'
    BY <1>a, <1>1 DEF MetersTimed
  <1>6. NodeOn'
    BY <1>a, <1>1, <1>2 DEF NodeOn
  <1>7. NoneTurnedOff'
    BY <1>1, <1>3 DEF NoneTurnedOff
  <1>8. QED
    BY <1>a, <1>1, <1>2, <1>4, <1>5, <1>6, <1>7 DEF NodeInv

\* The scheduler tells a core that it is idle, at the end of a block.
LEMMA IdleKeeps ==
    ASSUME TypeOK, NodeInv, Calm, NEW b \in Blocks, Active(b), Idle(b)
    PROVE  NodeInv'
  <1>a. /\ NodeTypeOK /\ MetersTimed /\ NodeOn /\ NoneTurnedOff /\ CoresFollow /\ DevicesFollow
        /\ ~coreOff /\ inbox \in [Cores -> Seq(NodeStates)]
    BY DEF NodeInv, NodeTypeOK
  <1>1. PICK v \in Cores : v = nextModuleIndex[b]
    <2>1. nextModuleIndex[b] \in VCpus
      BY MsgKinds DEF TypeOK, SchedTypeOK
    <2>2. VCpus \subseteq Cores
      BY ConstantsAssumption, EnergyAssumption DEF VCpus, Cores
    <2>3. QED
      BY <2>1, <2>2
  <1>2. /\ \/ inbox' = [inbox EXCEPT ![v] = Append(@, "idle")]
           \/ inbox' = inbox
        /\ UNCHANGED <<now, nodeState, linked, stateOrder, changingState, busyUntil, meter, coreOff>>
    BY <1>1 DEF Idle, nodeVars, deviceVars
  <1>3. \A q \in Seq(NodeStates) :
          /\ Append(q, "idle") \in Seq(NodeStates) /\ Append(q, "idle") # <<>>
          /\ Last(Append(q, "idle")) = "idle"
          /\ \A i \in DOMAIN Append(q, "idle") :
               (i \in DOMAIN q /\ Append(q, "idle")[i] = q[i]) \/ Append(q, "idle")[i] = "idle"
    BY DEF Last, NodeStates
  <1>4. \A c \in Cores :
          /\ inbox'[c] \in Seq(NodeStates)
          /\ \/ inbox'[c] = inbox[c]
             \/ inbox'[c] # <<>> /\ Last(inbox'[c]) = "idle"
          /\ \A i \in DOMAIN inbox'[c] :
               (i \in DOMAIN inbox[c] /\ inbox'[c][i] = inbox[c][i]) \/ inbox'[c][i] = "idle"
    <2> TAKE c \in Cores
    <2>1. CASE inbox'[c] = inbox[c]
      BY <1>a, <2>1
    <2>2. CASE inbox'[c] = Append(inbox[c], "idle")
      BY <1>a, <1>3, <2>2
    <2>3. QED
      BY <1>a, <1>2, <2>1, <2>2
  <1>5. NodeTypeOK'
    <2>1. inbox' \in [Cores -> Seq(NodeStates)]
      BY <1>a, <1>2, <1>4
    <2>2. QED
      BY <1>a, <1>2, <2>1 DEF NodeTypeOK
  <1>6. MetersTimed' /\ DevicesFollow'
    BY <1>a, <1>2 DEF MetersTimed, DevicesFollow
  <1>7. NodeOn'
    BY <1>a, <1>2 DEF NodeOn, Calm
  <1>8. NoneTurnedOff'
    BY <1>a, <1>2, <1>4 DEF NoneTurnedOff, Calm
  <1>9. CoresFollow'
    <2>1. nodeState = "running"
      BY <1>a DEF NodeOn
    <2>2. QED
      BY <1>a, <1>2, <1>4, <2>1 DEF CoresFollow
  <1>10. QED
    BY <1>a, <1>2, <1>5, <1>6, <1>7, <1>8, <1>9 DEF NodeInv

\* A core that is on starts a block or goes on with it.
LEMMA StartKeeps ==
    ASSUME NodeInv, Calm, NEW c \in Cores, meter[c].state > 0,
           (\E time : Execute(c, time)) \/ meter' = meter,
           UNCHANGED <<now, nodeVars, deviceVars, inbox, coreOff>>
    PROVE  NodeInv'
  <1>1. UNCHANGED <<now, nodeState, linked, stateOrder, changingState, busyUntil, inbox, coreOff>>
    BY DEF nodeVars, deviceVars
  <1>2. now \in Nat /\ now' \in Nat /\ ~coreOff' /\ MetersTimed
    BY <1>1 DEF NodeInv, NodeTypeOK
  <1>3. /\ MetersTimed'
        /\ \A q \in Parts : /\ q # c => meter'[q].state = meter[q].state
                            /\ meter[q].state > 0 => meter'[q].state > 0
    <2>1. CASE meter' = meter
      <3>1. MetersTimed'
        BY <1>1, <1>2, <2>1 DEF MetersTimed
      <3>2. QED
        BY <2>1, <3>1
    <2>2. CASE \E time : Execute(c, time)
      BY <1>1, <1>2, <2>2, ExecuteTimed
    <2>3. QED
      BY <2>1, <2>2
  <1>4. \A p \in Parts : meter'[p].state = 0 <=> meter[p].state = 0
    <2>1. meter'[c].state > 0 /\ c \in Parts
      BY <1>3, PartKinds
    <2>2. meter[c].state # 0 /\ meter'[c].state # 0
      <3>1. \A p \in Parts : meter'[p].state \in EnergyStates
        BY <1>3 DEF MetersTimed, Timed
      <3>2. meter[c].state \in Nat /\ meter'[c].state \in Nat
        BY <1>2, <2>1, <3>1, MeterStates, StatesInRange
      <3>3. QED
        BY <2>1, <3>2
    <2>3. QED
      BY <1>3, <2>2
  <1>5. QED
    BY <1>1, <1>2, <1>3, <1>4, NodeFrame

\* A device starts or ends an operation while a machine is on the node.
LEMMA DeviceKeeps ==
    ASSUME NodeInv, Calm, NEW d \in Devices, NEW s \in EnergyStates, linked # {},
           s > 0 \/ d = network, meter' = [meter EXCEPT ![d] = ChangeState(@, s)],
           busyUntil' \in [Devices -> Nat],
           UNCHANGED <<now, nodeVars, inbox, coreOff>>
    PROVE  NodeInv'
  <1>a. /\ NodeTypeOK /\ MetersTimed /\ NodeOn /\ NoneTurnedOff /\ CoresFollow /\ DevicesFollow
        /\ ~coreOff /\ now \in Nat
    BY DEF NodeInv, NodeTypeOK
  <1>1. UNCHANGED <<now, nodeState, linked, stateOrder, changingState, inbox, coreOff>>
    BY DEF nodeVars
  <1>2. /\ MetersTimed'
        /\ \A q \in Parts : meter'[q].state = IF q = d THEN s ELSE meter[q].state
    BY <1>a, <1>1, OneMeter
  <1>3. \A c \in Cores : meter'[c].state = meter[c].state
    BY <1>2, PartKinds
  <1>4. nodeState = "running"
    BY <1>a DEF NodeOn
  <1>5. NodeTypeOK'
    BY <1>a, <1>1 DEF NodeTypeOK
  <1>6. NodeOn'
    BY <1>a, <1>1, <1>4 DEF NodeOn, Calm
  <1>7. NoneTurnedOff'
    BY <1>a, <1>1, <1>3 DEF NoneTurnedOff, Calm
  <1>8. CoresFollow'
    BY <1>a, <1>1, <1>3 DEF CoresFollow
  <1>9. DevicesFollow'
    <2>1. \A q \in Devices \ {network} : meter'[q].state = 0 => FALSE
      <3> SUFFICES ASSUME NEW q \in Devices \ {network}, meter'[q].state = 0 PROVE FALSE
        OBVIOUS
      <3>1. q \in Parts /\ meter'[q].state = IF q = d THEN s ELSE meter[q].state
        BY <1>2, PartKinds
      <3>2. meter[q].state # 0
        BY <1>a, <1>4 DEF DevicesFollow
      <3>3. QED
        BY <3>1, <3>2
    <2>2. QED
      BY <1>1, <1>4, <2>1 DEF DevicesFollow
  <1>10. QED
    BY <1>a, <1>1, <1>2, <1>5, <1>6, <1>7, <1>8, <1>9 DEF NodeInv

\* A machine is placed on the node.
LEMMA LinkKeeps ==
    ASSUME BlocksInv, NodeInv, NEW g \in Guests, LinkVM(g)
    PROVE  BlocksInv' /\ NodeInv'
  <1>a. NodeTypeOK /\ NodeOn
    BY DEF NodeInv
  <1>1. PICK states \in Turns : /\ SendStates(states)
                                /\ states # <<"idle", "off_state">>
                                /\ states = <<>> <=> nodeState = "running"
    <2>1. CASE nodeState = "off_state"
      BY <2>1 DEF LinkVM, Turns
    <2>2. CASE nodeState = "running"
      BY <2>2 DEF LinkVM, Turns
    <2>3. QED
      BY <1>a, <2>1, <2>2 DEF NodeTypeOK
  <1>2. /\ linked' = linked \cup {g}
        /\ UNCHANGED <<schedVars, hypVars, coreVars, overheadAt, coreOf, answers, fault>>
        /\ UNCHANGED <<now, busyUntil, inbox, coreOff>>
    BY DEF LinkVM, deviceVars
  <1>3. BlocksInv' /\ Calm
    BY <1>a, <1>1, <1>2, SendKeeps
  <1>4. /\ linked' \subseteq Guests /\ linked' # {}
        /\ \A b \in Blocks : Active(b) => Owner[b] \in linked'
        /\ states = <<>> => linked # {}
    BY <1>a, <1>1, <1>2 DEF NodeTypeOK, NodeOn
  <1>5. NodeInv'
    BY <1>1, <1>2, <1>3, <1>4, TurnKeeps
  <1>6. QED
    BY <1>3, <1>5

\* A machine leaves the node.
LEMMA UnlinkKeeps ==
    ASSUME BlocksInv, NodeInv, NEW g \in Guests, UnlinkVM(g)
    PROVE  BlocksInv' /\ NodeInv'
  <1>a. NodeTypeOK /\ NodeOn
    BY DEF NodeInv
  <1>1. PICK states \in Turns : /\ SendStates(states)
                                /\ \/ linked = {g} /\ states = <<"idle", "off_state">>
                                   \/ linked # {g} /\ states = <<>>
    BY DEF UnlinkVM, Turns
  <1>2. /\ linked' = linked \ {g} /\ g \in linked /\ JobsEnded(g)
        /\ \A d \in Devices : busyUntil[d] = 0
        /\ UNCHANGED <<schedVars, hypVars, coreVars, overheadAt, coreOf, answers, fault>>
        /\ UNCHANGED <<now, busyUntil, inbox, coreOff>>
    BY DEF UnlinkVM, deviceVars
  <1>3. BlocksInv' /\ Calm
    BY <1>a, <1>1, <1>2, SendKeeps
  <1>4. \A b \in Blocks : Owner[b] = g => ~Active(b)
    BY <1>2 DEF JobsEnded, Active
  <1>5. /\ linked' \subseteq Guests
        /\ \A b \in Blocks : Active(b) => Owner[b] \in linked'
        /\ linked = {g} => linked' = {} /\ \A b \in Blocks : ~Active(b)
        /\ linked # {g} => linked' # {} /\ linked # {}
    BY <1>a, <1>2, <1>4 DEF NodeTypeOK, NodeOn
  <1>6. NodeInv'
    BY <1>1, <1>2, <1>3, <1>5, TurnKeeps
  <1>7. QED
    BY <1>3, <1>6

\* What is known of the blocks, of the node and of its parts is kept by every step.
LEMMA NodeStep ==
    ASSUME NodeIInv, [EnergyNext]_<<vars, energyVars>>
    PROVE  NodeIInv'
  <1>a. BlocksInv /\ NodeInv /\ TypeOK
    BY DEF NodeIInv, BlocksInv
  <1>b. \A b \in Blocks : coreOf[b] \in Cores
    BY <1>a, MovesTyped
  <1>1. ASSUME NEW g \in Guests, LinkVM(g) \/ UnlinkVM(g) PROVE NodeIInv'
    BY <1>1, <1>a, LinkKeeps, UnlinkKeeps DEF NodeIInv
  <1>2. CASE ForwardState
    BY <1>2, <1>a, ForwardKeeps DEF NodeIInv
  <1>3. ASSUME NEW c \in Cores, DeliverCoreState(c) PROVE NodeIInv'
    BY <1>3, <1>a, DeliverKeeps DEF NodeIInv
  <1>4. ASSUME NEW b \in Blocks, Request(b) PROVE NodeIInv'
    BY <1>4, <1>a, RequestStarts DEF NodeIInv
  <1>5. ASSUME NEW b \in Blocks, Hypervise(b) \/ SaveResponse(b) \/ EndOverhead(b) PROVE NodeIInv'
    <2>1. BlocksInv' /\ Calm
      BY <1>5, <1>a, PathSteps DEF Hypervise, SaveResponse, EndOverhead
    <2>2. UNCHANGED energyVars
      BY <1>5 DEF Hypervise, SaveResponse, EndOverhead
    <2>3. NodeInv'
      BY <1>a, <2>1, <2>2, QuietKeeps DEF energyVars
    <2>4. QED
      BY <2>1, <2>3 DEF NodeIInv
  <1>6. ASSUME NEW b \in Blocks, Respond(b) \/ RespondToOverhead(b) PROVE NodeIInv'
    <2>1. BlocksInv' /\ Calm /\ Idle(b)
      BY <1>6, <1>a, PathSteps DEF Respond, RespondToOverhead
    <2>2. Active(b)
      BY <1>6 DEF Respond, RespondToOverhead, SchedResponse, SchedOverheadResponse, Active
    <2>3. NodeInv'
      BY <1>a, <2>1, <2>2, IdleKeeps
    <2>4. QED
      BY <2>1, <2>3 DEF NodeIInv
  <1>7. ASSUME NEW b \in Blocks, Arrive(b) \/ ArriveOverhead(b) PROVE NodeIInv'
    <2>1. Active(b)
      BY <1>7 DEF Arrive, ArriveOverhead, Active
    <2>2. PICK c \in Cores : c = coreOf[b]
      BY <1>b
    <2>3. meter[c].state > 0 /\ meter[c].state # 0
      BY <1>a, <2>1, WhileActive
    <2>4. /\ CoreRequest(b) \/ CoreOverheadRequest(b)
          /\ Starts(c) /\ UNCHANGED <<now, nodeVars, deviceVars, inbox>>
      BY <1>7, <2>2, <2>3, Zenon DEF Arrive, ArriveOverhead
    <2>5. BlocksInv' /\ Calm
      BY <1>a, <2>4, PathSteps
    <2>6. ((\E time : Execute(c, time)) \/ meter' = meter) /\ coreOff' = coreOff
      BY <2>4 DEF Starts
    <2>7. NodeInv'
      BY <1>a, <2>3, <2>4, <2>5, <2>6, StartKeeps
    <2>8. QED
      BY <2>5, <2>7 DEF NodeIInv
  <1>8. ASSUME NEW c \in Cores, Continue(c) PROVE NodeIInv'
    <2>1. meter[c].state > 0 /\ meter[c].state # 0
      <3>1. pendingMessage[c] # NULL
        BY <1>8 DEF Continue
      <3>2. QED
        BY <1>a, <3>1, WhileActive
    <2>2. /\ Execute(c, clock[c].left) /\ UNCHANGED vars
          /\ UNCHANGED <<now, nodeVars, deviceVars, inbox, coreOff>>
      BY <1>8, <2>1 DEF Continue
    <2>3. BlocksInv' /\ Calm
      BY <1>a, <2>2, PathSteps
    <2>4. \E time : Execute(c, time)
      BY <2>2
    <2>5. NodeInv'
      BY <1>a, <2>1, <2>2, <2>3, <2>4, StartKeeps
    <2>6. QED
      BY <2>3, <2>5 DEF NodeIInv
  <1>9. ASSUME NEW c \in Cores, Complete(c) PROVE NodeIInv'
    <2>1. CoreLatency(c) /\ UNCHANGED <<now, nodeVars, deviceVars, inbox, meter, coreOff>>
      BY <1>9 DEF Complete
    <2>2. BlocksInv' /\ Calm
      BY <1>a, <2>1, PathSteps
    <2>3. NodeInv'
      BY <1>a, <2>1, <2>2, QuietKeeps
    <2>4. QED
      BY <2>2, <2>3 DEF NodeIInv
  <1>10. ASSUME NEW d \in Devices, UseDevice(d) \/ DeviceLatency(d) PROVE NodeIInv'
    <2>1. UNCHANGED vars /\ UNCHANGED <<now, nodeVars, inbox, coreOff>>
      BY <1>10 DEF UseDevice, DeviceLatency
    <2>2. BlocksInv' /\ Calm
      BY <1>a, <2>1, PathSteps
    <2>3. PICK s \in {1, 2} : meter' = [meter EXCEPT ![d] = ChangeState(@, s)]
      BY <1>10 DEF UseDevice, DeviceLatency
    <2>4. busyUntil' \in [Devices -> Nat]
      <3>1. busyUntil \in [Devices -> Nat] /\ now + 1 \in Nat
        BY <1>a DEF NodeInv, NodeTypeOK
      <3>2. PICK t \in Nat : busyUntil' = [busyUntil EXCEPT ![d] = t]
        BY <1>10, <3>1 DEF UseDevice, DeviceLatency
      <3>3. QED
        BY <3>1, <3>2
    <2>5. linked # {}
      <3>1. CASE UseDevice(d)
        BY <3>1 DEF UseDevice
      <3>2. CASE DeviceLatency(d)
        <4>1. busyUntil[d] > 0
          BY <3>2 DEF DeviceLatency
        <4>2. QED
          BY <1>a, <4>1 DEF NodeInv, NodeOn
      <3>3. QED
        BY <1>10, <3>1, <3>2
    <2>6. s \in EnergyStates /\ s > 0
      BY <2>3, StatesInRange
    <2>7. NodeInv'
      BY <1>a, <2>1, <2>2, <2>3, <2>4, <2>5, <2>6, DeviceKeeps
    <2>8. QED
      BY <2>2, <2>7 DEF NodeIInv
  <1>11. CASE NetworkResponse
    <2>1. /\ UNCHANGED vars /\ UNCHANGED <<now, nodeVars, inbox, busyUntil, coreOff>>
          /\ network \in Devices /\ linked # {}
          /\ meter' = [meter EXCEPT ![network] = ChangeState(@, 0)]
      BY <1>11 DEF NetworkResponse
    <2>2. BlocksInv' /\ Calm
      BY <1>a, <2>1, PathSteps
    <2>3. busyUntil' \in [Devices -> Nat]
      BY <1>a, <2>1 DEF NodeInv, NodeTypeOK
    <2>4. 0 \in EnergyStates
      BY StatesInRange
    <2>5. NodeInv'
      BY <1>a, <2>1, <2>2, <2>3, <2>4, DeviceKeeps
    <2>6. QED
      BY <2>2, <2>5 DEF NodeIInv
  <1>12. CASE Tick
    <2>1. BlocksInv' /\ Calm
      BY <1>12, <1>a, PathSteps DEF Tick
    <2>2. NodeInv'
      BY <1>12, <1>a, <2>1, TickKeeps
    <2>3. QED
      BY <2>1, <2>2 DEF NodeIInv
  <1>13. CASE UNCHANGED <<vars, energyVars>>
    <2>1. UNCHANGED vars /\ UNCHANGED <<now, nodeVars, deviceVars, inbox, meter, coreOff>>
      BY <1>13 DEF energyVars
    <2>2. BlocksInv' /\ Calm
      BY <1>a, <2>1, PathSteps
    <2>3. NodeInv'
      BY <1>a, <2>1, <2>2, QuietKeeps
    <2>4. QED
      BY <2>2, <2>3 DEF NodeIInv
  <1>14. QED
    BY <1>1, <1>2, <1>3, <1>4, <1>5, <1>6, <1>7, <1>8, <1>9, <1>10, <1>11, <1>12, <1>13
    DEF EnergyNext, EndOfRun

-------------------------------------------------------------------------------
(* The theorems.                                                           *)

\* At the start nothing runs, the node and its parts are off and nothing is credited.
LEMMA NodeStart == EnergyInit => NodeIInv
  <1> SUFFICES ASSUME EnergyInit PROVE NodeIInv
    OBVIOUS
  <1>1. Init
    BY DEF EnergyInit
  <1>2. TypeOK
    BY <1>1, ZeroIsACore, MsgKinds, ConstantsAssumption
    DEF Init, TypeOK, SchedTypeOK, HypTypeOK, CoreTypeOK, MsgTypeOK, Places, OverheadPlaces
  <1>3. \A b \in Blocks : at[b] = "app" /\ overheadAt[b] = "none"
    BY <1>1, MsgKinds DEF Init
  <1>4. WorkConserving
    BY <1>1 DEF Init, WorkConserving
  <1>5. HoldInv
    BY <1>1, <1>3 DEF Init, HoldInv, OneHolder, SlotsKept, PendingOnCore, Holds, Running, Winding
  <1>6. QueuesOK
    <2>1. coreQueue = <<>> /\ \A g \in Guests : requestsQueue[g] = <<>>
      BY <1>1 DEF Init
    <2>2. QED
      BY <2>1 DEF QueuesOK
  <1>7. \A b \in Blocks : ~Active(b)
    BY <1>3 DEF Active
  <1>8. NodeTypeOK
    BY DEF EnergyInit, NodeTypeOK, NodeStates
  <1>9. \A p \in Parts : meter[p] = NewMeter
    BY DEF EnergyInit
  <1>10. MetersTimed
    <2>1. Credited(NewMeter.time) = 0
      <3>1. PICK n \in Nat : n = TopPState + 1
        BY StatesInRange
      <3>2. PICK w : w = [k \in 1 .. n |-> NewMeter.time[k - 1]]
        OBVIOUS
      <3>3. \A k \in 1 .. n : NewMeter.time[k - 1] = 0
        BY <3>1, StatesInRange DEF NewMeter
      <3>4. w = [k \in 1 .. n |-> 0]
        BY <3>2, <3>3
      <3>5. Total(w, n) = 0
        BY <3>4, TotalOfZeros
      <3>6. QED
        BY <3>1, <3>2, <3>5, Zenon DEF Credited
    <2>2. /\ NewMeter \in [state : EnergyStates, lastEvent : Nat, time : [EnergyStates -> Nat]]
          /\ NewMeter.lastEvent = 0
      BY StatesInRange DEF NewMeter
    <2>3. now = 0 /\ DOMAIN meter = Parts
      BY DEF EnergyInit
    <2>4. QED
      BY <1>9, <2>1, <2>2, <2>3 DEF MetersTimed, Timed
  <1>11. NodeOn
    BY <1>7 DEF EnergyInit, NodeOn
  <1>12. NoneTurnedOff
    BY <1>7 DEF NoneTurnedOff
  <1>13. \A p \in Parts : meter[p].state = 0
    BY <1>9 DEF NewMeter
  <1>14. CoresFollow /\ DevicesFollow
    BY <1>13, PartKinds DEF EnergyInit, CoresFollow, DevicesFollow
  <1>15. ~coreOff
    BY Zenon DEF EnergyInit
  <1>16. QED
    BY ONLY <1>2, <1>4, <1>5, <1>6, <1>8, <1>10, <1>11, <1>12, <1>14, <1>15
    DEF NodeIInv, BlocksInv, NodeInv

\* With the overhead of virtualisation, whatever the machines, the blocks and the parts:
\* a block holds one core until its overhead block is through, and the parts of the node
\* are timed and follow its states.
THEOREM NodeInvariant == EnergySpec => []NodeIInv
  <1>1. NodeIInv /\ [EnergyNext]_<<vars, energyVars>> => NodeIInv'
    BY NodeStep
  <1>2. QED
    BY <1>1, NodeStart, PTL DEF EnergySpec

\* The seconds a timed meter shows in all its states are those that have passed.
LEMMA EnergyIsTime ==
    ASSUME now \in Nat, NEW m, Timed(m, now), NEW one, one = [s \in EnergyStates |-> 1]
    PROVE  EnergyOf(m, one) = now
  <1>1. PICK n \in Nat : n = TopPState + 1
    BY StatesInRange
  <1>2. /\ m.time \in [EnergyStates -> Nat] /\ m.lastEvent \in Nat /\ m.lastEvent <= now
        /\ Credited(m.time) = m.lastEvent /\ m.state \in EnergyStates
    BY DEF Timed
  <1>3. PICK f \in [EnergyStates -> Nat], s \in EnergyStates, e \in Nat, d \in Nat :
          f = m.time /\ s = m.state /\ e = m.lastEvent /\ d = now - m.lastEvent /\ now = e + d
    BY <1>2
  <1>4. PICK g \in [EnergyStates -> Nat] :
          /\ \A k \in EnergyStates : g[k] = IF k = s THEN f[k] + d ELSE f[k]
          /\ Credited(g) = Credited(f) + d
    <2>1. f \in [EnergyStates -> Nat] /\ s \in EnergyStates /\ d \in Nat
      OBVIOUS
    <2>2. QED
      BY ONLY <2>1, CreditMore
  <1>5. Credited(g) = e + d
    BY <1>2, <1>3, <1>4
  <1>6. \A k \in EnergyStates : one[k] * StateTime(m, k) = g[k]
    <2> TAKE k \in EnergyStates
    <2>1. one[k] = 1 /\ g[k] \in Nat
      BY <1>4
    <2>2. StateTime(m, k) = f[k] + (IF k = s THEN d ELSE 0)
      BY <1>3 DEF StateTime
    <2>3. f[k] \in Nat
      OBVIOUS
    <2>4. StateTime(m, k) = g[k]
      BY <1>4, <2>2, <2>3
    <2>5. QED
      BY <2>1, <2>4
  <1>7. PICK w, v : /\ w = [k \in 1 .. n |-> one[k - 1] * StateTime(m, k - 1)]
                    /\ v = [k \in 1 .. n |-> g[k - 1]]
    OBVIOUS
  <1>8. w = v
    <2>1. \A k \in 1 .. n : one[k - 1] * StateTime(m, k - 1) = g[k - 1]
      BY <1>1, <1>6, StatesInRange
    <2>2. QED
      BY <1>7, <2>1
  <1>9. EnergyOf(m, one) = Total(w, n) /\ Credited(g) = Total(v, n)
    BY <1>1, <1>7, Zenon DEF EnergyOf, Credited
  <1>10. QED
    BY <1>3, <1>5, <1>8, <1>9

\* Whatever states a part goes through, and whenever, no second of it is lost or counted
\* twice; and the processor is charged for as many seconds as all its cores together.
THEOREM MetersLoseNothing == EnergySpec => []MeterExact
  <1>1. NodeIInv => MeterExact
    <2> SUFFICES ASSUME NodeIInv PROVE MeterExact
      OBVIOUS
    <2>1. now \in Nat /\ \A p \in Parts : Timed(meter[p], now)
      BY DEF NodeIInv, NodeInv, NodeTypeOK, MetersTimed
    <2>2. PICK one : one = [s \in EnergyStates |-> 1]
      OBVIOUS
    <2>3. \A p \in Parts : EnergyOf(meter[p], one) = now
      BY <2>1, <2>2, EnergyIsTime
    <2>4. CpuEnergyConsumed(one) = NumCPUs * now
      BY <2>3, ZeroIsACore, PartKinds DEF CpuEnergyConsumed
    <2>5. QED
      BY <2>2, <2>3, <2>4 DEF MeterExact
  <1>2. QED
    BY <1>1, NodeInvariant, PTL

\* The node is never turned off under a block, and once every state has arrived its
\* cores, its memory and its disk are off exactly when the node is.
THEOREM PartsFollow == EnergySpec => []PartsFollowNode
  <1>1. NodeIInv => PartsFollowNode
    <2> SUFFICES ASSUME NodeIInv PROVE PartsFollowNode
      OBVIOUS
    <2>a. BlocksInv /\ NodeInv /\ CoresFollow /\ DevicesFollow /\ ~coreOff
      BY DEF NodeIInv, NodeInv
    <2>1. \A c \in Cores : pendingMessage[c] # NULL => meter[c].state > 0
      BY <2>a, WhileActive
    <2>2. Delivered => \A c \in Cores : meter[c].state = 0 <=> nodeState = "off_state"
      BY <2>a DEF CoresFollow, Delivered
    <2>3. \A p \in Parts \ {network} : p \in Cores \/ p \in Devices \ {network}
      BY DEF Parts
    <2>4. QED
      BY <2>a, <2>1, <2>2, <2>3 DEF DevicesFollow, PartsFollowNode
  <1>2. QED
    BY <1>1, NodeInvariant, PTL
===============================================================================
