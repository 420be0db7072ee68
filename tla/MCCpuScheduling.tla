-------------------------- MODULE MCCpuScheduling --------------------------
(* Instances of CpuScheduling for TLC: two operating systems over a small  *)
(* pool of cores.                                                          *)
EXTENDS CpuScheduling, TLC

CONSTANTS vm1, vm2, b1, b2, b3, s1

TwoVMs == {vm1, vm2}
ThreeBlocks == {b1, b2, b3}

\* Two blocks of the first operating system, the rest of the second.
OwnerSplit == [m \in Msgs |-> IF m \in {b1, b2, s1} THEN vm1 ELSE vm2]
OwnerAllFirst == [m \in Msgs |-> vm1]

\* MIs: below, at and above what a quantum executes.
WorkMixed == [b \in Blocks |-> IF b = b1 THEN 5 ELSE IF b = b2 THEN 2 ELSE 1]

\* The next-state relation under round robin without overhead: what is left out of Next
\* is disabled there (NodeEnergy runs the FIFO policy and the overhead).
RoundRobinNext ==
    \/ \E b \in Blocks : Deliver(b)
    \/ \E s \in StateMsgs : SchedStateRR(s) \/ HypState(s)
    \/ \E c \in Cores : CoreLatency(c)
    \/ Finished

RoundRobinSpec == Init /\ [][RoundRobinNext]_vars /\ Fairness
=============================================================================
