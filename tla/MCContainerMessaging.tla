------------------------ MODULE MCContainerMessaging ------------------------
(* Instances of ContainerMessaging for TLC: two computing containers and a *)
(* server that share the gates of one machine.                             *)
EXTENDS ContainerMessaging

CONSTANTS c1, c2, s1

TwoIntensive == {c1, c2}
OneServer == {s1}

\* One container that only writes, one that also reads and computes.
ShortAndLong == [c \in Intensive |-> IF c = c1 THEN 1 ELSE 2]
=============================================================================
