----------------------------- MODULE AbstractVolume -----------------------------
(***************************************************************************)
(* What a volume promises to the file system above it: every block of a    *)
(* request is read or written once, and the request is answered once,      *)
(* after its last block.                                                   *)
(***************************************************************************)
EXTENDS Naturals

CONSTANTS
    Requests,
    Blocks          \* the set of blocks of each request

VARIABLES
    asked,          \* requests made
    transferred,    \* blocks of each request read or written
    answered        \* requests answered

vars == <<asked, transferred, answered>>

Init ==
    /\ asked = {}
    /\ transferred = [r \in Requests |-> {}]
    /\ answered = {}

Ask(r) ==
    /\ r \notin asked
    /\ asked' = asked \union {r}
    /\ UNCHANGED <<transferred, answered>>

Transfer(r) ==
    /\ r \in asked
    /\ \E some \in SUBSET (Blocks[r] \ transferred[r]) :
          transferred' = [transferred EXCEPT ![r] = @ \union some]
    /\ \/ UNCHANGED answered
       \/ r \notin answered /\ transferred'[r] = Blocks[r] /\ answered' = answered \union {r}
    /\ UNCHANGED asked

Next == \E r \in Requests : Ask(r) \/ Transfer(r)

Spec == Init /\ [][Next]_vars
================================================================================
