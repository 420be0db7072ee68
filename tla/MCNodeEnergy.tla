---------------------------- MODULE MCNodeEnergy ----------------------------
(* One node with two cores, a disk and a network, two machines with two    *)
(* virtual cores each, and the operating system of the node itself.        *)
EXTENDS NodeEnergy, TLC

CONSTANTS vm1, vm2, host, b1, b2, b3, s1, s2, s3, s4

TheGuests == {vm1, vm2, host}
TheBlocks == {b1, b2, b3}
OwnerOf == [m \in Msgs |-> CASE m \in {b1, b2} -> vm1 [] m = b3 -> vm2 [] OTHER -> host]
UnitWork == [b \in Blocks |-> 1]
=============================================================================
