--------------------------- MODULE AbstractRequests ---------------------------
(***************************************************************************)
(* What the request queue of the data-centre manager promises its users:   *)
(* the outstanding requests stay in the order in which they were sent,     *)
(* none is lost, none is duplicated, and a request leaves only because it  *)
(* was attended.                                                           *)
(***************************************************************************)
EXTENDS Naturals, Sequences

CONSTANT Requests

VARIABLE outstanding

Contents(s) == {s[i] : i \in 1 .. Len(s)}
Distinct(s) == \A i, k \in 1 .. Len(s) : s[i] = s[k] => i = k

\* s without its element at position i.
Erase(s, i) == [k \in 1 .. Len(s) - 1 |-> IF k < i THEN s[k] ELSE s[k + 1]]

Init == outstanding = <<>>

\* The queue becomes s followed by requests sent in this step, each outstanding once.
Becomes(s) ==
    /\ outstanding' \in Seq(Requests)
    /\ Distinct(outstanding')
    /\ Len(s) <= Len(outstanding')
    /\ \A k \in 1 .. Len(s) : outstanding'[k] = s[k]

\* New requests join at the end.
Send == Becomes(outstanding)

\* The request at some position is attended, which may send new ones.
Attend == \E i \in 1 .. Len(outstanding) : Becomes(Erase(outstanding, i))

Next == Send \/ Attend

Spec == Init /\ [][Next]_outstanding
===============================================================================
