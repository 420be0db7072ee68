---------------------------------- MODULE Sums ----------------------------------
(* The sum of a finite list of numbers, written so that it can be reasoned about. *)
EXTENDS Integers

\* w[1] + ... + w[n]
Total(w, n) ==
    LET upTo[k \in 0 .. n] == IF k = 0 THEN 0 ELSE upTo[k - 1] + w[k]
    IN  upTo[n]
=================================================================================
