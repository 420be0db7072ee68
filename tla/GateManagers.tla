---------------------------- MODULE GateManagers ----------------------------
(***************************************************************************)
(* cGateManager (Base/cGateManager.cc): a growing vector of gates whose    *)
(* freed positions are reused in the order they were freed.                *)
(*                                                                         *)
(* A manager is a record [gates, holes].  gates[i] is what the gate at     *)
(* position i is linked with, or Free; positions count from 1.             *)
(***************************************************************************)
EXTENDS Naturals, Sequences

CONSTANT Free      \* a gate whose gateHit is false

NoGates == [gates |-> <<>>, holes |-> <<>>]

\* The position newGate returns: the oldest hole, or one past the last gate.
NewGate(g) == IF g.holes # <<>> THEN Head(g.holes) ELSE Len(g.gates) + 1

\* newGate, linkGate and connectOut (or connectIn): the gate at the new position
\* is linked with peer.
LinkGate(g, peer) ==
    IF g.holes # <<>>
    THEN [gates |-> [g.gates EXCEPT ![Head(g.holes)] = peer], holes |-> Tail(g.holes)]
    ELSE [gates |-> Append(g.gates, peer), holes |-> <<>>]

\* freeGate throws when this does not hold.
GateHit(g, i) == i \in DOMAIN g.gates /\ g.gates[i] # Free

\* freeGate: the gate is disconnected and its position becomes a hole.
FreeGate(g, i) ==
    [gates |-> [g.gates EXCEPT ![i] = Free], holes |-> Append(g.holes, i)]
=============================================================================
